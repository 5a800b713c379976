--------------------------- MODULE Machine_proofs ---------------------------
(***************************************************************************)
(* Theorems about Machine, for every byte size, register count, memory     *)
(* map, decoder and arithmetic that satisfy the assumptions of Rv64Words.  *)
(***************************************************************************)
EXTENDS MachineRefinement, TLAPS

------------------------------------------------------------------------------
\* Words and bytes.

\* The moduli are positive numbers, and a byte fits into a half word.
LEMMA Moduli ==
    /\ Base \in Nat /\ Base >= 2
    /\ HALF \in Nat /\ HALF >= 2
    /\ XMOD \in Nat /\ XMOD >= 2 * HALF
<1>1. Base \in Nat /\ Base >= 2
  BY BaseAssumption
<1> DEFINE B2 == Base * Base
           B3 == Base * Base * Base
<1>2. B2 \in Nat /\ B2 >= 2
  BY <1>1
<1>3. B3 \in Nat /\ B3 >= 2
  <2> HIDE DEF B2
  <2>1. B3 = B2 * Base
    BY DEF B2
  <2> QED BY <1>1, <1>2, <2>1
<1>4. HALF \in Nat /\ HALF >= 2
  <2> HIDE DEF B3
  <2>1. HALF = B3 * Base
    BY DEF HALF, B3
  <2> QED BY <1>1, <1>3, <2>1
<1>5. XMOD \in Nat /\ XMOD >= 2 * HALF
  BY <1>4 DEF XMOD
<1> QED BY <1>1, <1>4, <1>5

\* uint64_t arithmetic stays in a word.
LEMMA WrapInWord == ASSUME NEW n \in Int PROVE Wrap(n) \in Word
BY Moduli DEF Wrap, Word

\* The product of positive numbers is positive.
LEMMA Product ==
    ASSUME NEW m \in Nat, NEW n \in Nat, m >= 1, n >= 1
    PROVE  m * n \in Nat /\ m * n >= 1
OBVIOUS

\* The place values of the lanes are positive.
LEMMA WeightPositive ==
    ASSUME NEW k \in Lane PROVE Weight[k] \in Nat /\ Weight[k] >= 1
<1> DEFINE Pos(n) == n \in Nat /\ n >= 1
<1>1. Pos(Base) /\ Pos(HALF)
  BY Moduli
<1>2. Pos(Base * Base)
  BY <1>1, Product
<1>3. Pos(Base * Base * Base)
  BY <1>1, <1>2, Product
<1>4. Pos(HALF * Base)
  BY <1>1, Product
<1>5. Pos(HALF * Base * Base)
  BY <1>1, <1>4, Product
<1>6. Pos(HALF * Base * Base * Base)
  BY <1>1, <1>5, Product
<1>7. /\ Weight[0] = 1 /\ Weight[1] = Base
      /\ Weight[2] = Base * Base /\ Weight[3] = Base * Base * Base
      /\ Weight[4] = HALF /\ Weight[5] = HALF * Base
      /\ Weight[6] = HALF * Base * Base
      /\ Weight[7] = HALF * Base * Base * Base
  BY SMTT(30) DEF Weight, Lane
<1>8. Pos(Weight[0]) /\ Pos(Weight[1]) /\ Pos(Weight[2]) /\ Pos(Weight[3])
  BY <1>1, <1>2, <1>3, <1>7
<1>9. Pos(Weight[4]) /\ Pos(Weight[5]) /\ Pos(Weight[6]) /\ Pos(Weight[7])
  BY <1>1, <1>4, <1>5, <1>6, <1>7
<1>10. k = 0 \/ k = 1 \/ k = 2 \/ k = 3 \/ k = 4 \/ k = 5 \/ k = 6 \/ k = 7
  BY DEF Lane
<1> HIDE DEF Pos
<1>11. Pos(Weight[k])
  BY <1>8, <1>9, <1>10, Zenon
<1> QED BY <1>11 DEF Pos

LEMMA ZeroByte == 0 \in Byte /\ 0 \in Word
BY Moduli DEF Byte, Word

\* Every lane of a word is a byte.
LEMMA ByteOfInByte ==
    ASSUME NEW v \in Word, NEW k \in Lane
    PROVE  ByteOf(v, k) \in Byte
<1>1. \A n \in Int : n % Base \in Byte
  BY Moduli DEF Byte
<1>2. Weight[k] \in Nat /\ Weight[k] >= 1
  BY WeightPositive
<1>3. v \div Weight[k] \in Int
  BY <1>2 DEF Word
<1> QED BY <1>1, <1>3 DEF ByteOf

\* A Horner step: one more byte below a number less than m.
LEMMA Horner ==
    ASSUME NEW m \in Nat, NEW b \in 0..(Base - 1), NEW n \in 0..(m - 1)
    PROVE  b + Base * n \in 0..(Base * m - 1)
<1>1. Base \in Nat /\ Base >= 2
  BY Moduli
<1>2. Base * n <= Base * (m - 1)
  BY <1>1
<1>3. Base * (m - 1) = Base * m - Base
  BY <1>1
<1>4. Base * n \in Nat /\ Base * m \in Nat
  BY <1>1
<1> QED BY <1>1, <1>2, <1>3, <1>4

\* The number made of any eight byte lanes is a word.
LEMMA ValueInWord == ASSUME NEW lanes \in [Lane -> Byte] PROVE Value(lanes) \in Word
<1>1. Base \in Nat /\ HALF \in Nat /\ HALF >= 2
  BY Moduli
<1>2. \A k \in 0..7 : lanes[k] \in 0..(Base - 1)
  BY DEF Lane, Byte
<1>3. ASSUME NEW a \in 0..(Base - 1), NEW b \in 0..(Base - 1),
             NEW c \in 0..(Base - 1), NEW d \in 0..(Base - 1)
      PROVE  a + Base * (b + Base * (c + Base * d)) \in 0..(HALF - 1)
  <2> DEFINE x == c + Base * d
             y == b + Base * x
             z == a + Base * y
  <2>1. x \in 0..(Base * Base - 1)
    BY <1>1, Horner
  <2> HIDE DEF x
  <2>2. y \in 0..(Base * (Base * Base) - 1)
    BY <1>1, <2>1, Horner
  <2> HIDE DEF y
  <2>3. z \in 0..(Base * (Base * (Base * Base)) - 1)
    BY <1>1, <2>2, Horner
  <2>4. Base * (Base * (Base * Base)) = HALF
    BY <1>1 DEF HALF
  <2> HIDE DEF z
  <2>5. z \in 0..(HALF - 1)
    BY <2>3, <2>4
  <2> QED BY <2>5 DEF x, y, z
<1>4. LowHalf(lanes) \in 0..(HALF - 1) /\ HighHalf(lanes) \in 0..(HALF - 1)
  <2>1. /\ lanes[0] \in 0..(Base - 1) /\ lanes[1] \in 0..(Base - 1)
        /\ lanes[2] \in 0..(Base - 1) /\ lanes[3] \in 0..(Base - 1)
        /\ lanes[4] \in 0..(Base - 1) /\ lanes[5] \in 0..(Base - 1)
        /\ lanes[6] \in 0..(Base - 1) /\ lanes[7] \in 0..(Base - 1)
    BY <1>2
  <2> QED BY <2>1, <1>3, Zenon DEF LowHalf, HighHalf
<1>5. ASSUME NEW lo \in 0..(HALF - 1), NEW hi \in 0..(HALF - 1)
      PROVE  lo + HALF * hi \in 0..(HALF * HALF - 1)
  <2>1. HALF * hi <= HALF * (HALF - 1)
    BY <1>1
  <2>2. HALF * (HALF - 1) = HALF * HALF - HALF
    BY <1>1
  <2>3. HALF * hi \in Nat /\ HALF * HALF \in Nat
    BY <1>1
  <2> QED BY <1>1, <2>1, <2>2, <2>3
<1> QED BY <1>4, <1>5 DEF Value, Word, XMOD

\* So is what a load handler makes of them.
LEMMA LoadResultInWord ==
    ASSUME NEW lanes \in [Lane -> Byte] PROVE LoadResult(lanes) \in Word
<1>1. Value(lanes) \in Word
  BY ValueInWord
<1>2. ASSUME NEW v \in Word PROVE SignExtendU32(v) \in Word
  <2>1. v % HALF \in 0..(HALF - 1)
    BY Moduli DEF Word
  <2> QED BY <2>1, Moduli DEF SignExtendU32, Word
<1> QED BY <1>1, <1>2 DEF LoadResult

------------------------------------------------------------------------------
\* What the operators the actions are built from do to the types.

RegFile == [0..PC -> Word]

LEMMA RegIndices == PC \in 0..PC /\ Reg \subseteq 0..PC /\ PC \notin Reg
BY NRegAssumption DEF PC, Reg

\* A decoded instruction has the fields of its type.
LEMMA CurFields ==
    ASSUME TypeOK
    PROVE  /\ Cur.kind \in Kinds /\ Cur.rd \in Reg /\ Cur.rs1 \in Reg
           /\ Cur.rs2 \in Reg /\ Cur.imm \in Word /\ Cur.fn \in Fn
           /\ Cur.cond \in Cond /\ Cur.len \in {1, 2, 4, 8}
           /\ Cur.sext \in BOOLEAN
<1>1. Cur \in Instr
  BY DecodeAssumption DEF TypeOK, Cur
<1> QED BY <1>1 DEF Instr

\* The registers an instruction names hold words.
LEMMA OperandsInWord ==
    ASSUME TypeOK
    PROVE  /\ Operand \in Word /\ regs[Cur.rs2] \in Word /\ regs[PC] \in Word
           /\ Effective \in Word
<1>1. regs[Cur.rs1] \in Word /\ regs[Cur.rs2] \in Word /\ regs[PC] \in Word
  <2>1. Cur.rs1 \in 0..PC /\ Cur.rs2 \in 0..PC /\ PC \in 0..PC
    BY CurFields, RegIndices
  <2>2. regs \in [0..PC -> Word]
    BY DEF TypeOK
  <2> QED BY <2>1, <2>2
<1>2. regs[Cur.rs1] + Cur.imm \in Int
  <2>1. Cur.imm \in Word
    BY CurFields
  <2> QED BY <1>1, <2>1 DEF Word
<1> QED BY <1>1, <1>2, WrapInWord DEF Operand, Effective

LEMMA SetRegType ==
    ASSUME NEW r \in RegFile, NEW i \in Reg, NEW value \in Word
    PROVE  SetReg(r, i, value) \in RegFile
BY RegIndices DEF SetReg, RegFile

\* advance_pc_or_update_i_flags keeps the register file one, and leaves
\* pc_updated set only if the instruction both jumped and stalls.
LEMMA AdvanceType ==
    ASSUME NEW r \in RegFile, NEW jumped \in BOOLEAN, stall' \in BOOLEAN,
           Advance(r, jumped)
    PROVE  /\ regs' \in RegFile
           /\ pcUpdated' = (stall' /\ jumped)
<1>1. Wrap(r[PC] + 4) \in Word
  <2>1. r[PC] + 4 \in Int
    BY RegIndices DEF RegFile, Word
  <2> QED BY <2>1, WrapInWord
<1>2. CASE stall' /\ regs' = r /\ pcUpdated' = jumped
  BY <1>2
<1>3. CASE ~stall' /\ jumped /\ regs' = r /\ pcUpdated' = FlagAfterJump
  BY <1>3 DEF FlagAfterJump
<1>4. CASE /\ ~stall' /\ ~jumped /\ regs' = [r EXCEPT ![PC] = Wrap(@ + 4)]
           /\ pcUpdated' = FALSE
  BY <1>1, <1>4, RegIndices DEF RegFile
<1> QED BY <1>2, <1>3, <1>4 DEF Advance

\* A bus step keeps the bytes of the memory and of readdata bytes, and touches
\* no other line of the bus.
LEMMA SysbusStepType ==
    ASSUME TypeOK, SysbusStep
    PROVE  /\ mem' \in [Mapped -> Byte]
           /\ bus' \in [address : Word, memwrite : BOOLEAN,
                        writedata : Byte, readdata : Byte]
           /\ bus'.address = bus.address /\ bus'.memwrite = bus.memwrite
           /\ bus'.writedata = bus.writedata
<1>1. CASE bus.address \in Mapped
  <2>1. mem' \in [Mapped -> Byte]
    BY <1>1 DEF SysbusStep, TypeOK
  <2>2. mem'[bus.address] \in Byte
    BY <1>1, <2>1
  <2>3. bus' = [bus EXCEPT !.readdata = mem'[bus.address]]
    BY <1>1 DEF SysbusStep
  <2> QED BY <2>1, <2>2, <2>3 DEF TypeOK
<1>2. CASE bus.address \notin Mapped
  BY <1>2 DEF SysbusStep, TypeOK
<1> QED BY <1>1, <1>2

\* A call of read_mem.
LEMMA ReadMemType ==
    ASSUME TypeOK, NEW address \in Word, NEW length, ReadMem(address, length)
    PROVE  /\ bus' \in [address : Word, memwrite : BOOLEAN,
                        writedata : Byte, readdata : Byte]
           /\ ~bus'.memwrite
           /\ bus'.address = IF stall THEN Wrap(address + rdOff) ELSE address
           /\ bus'.readdata = bus.readdata
           /\ rdOff' = IF stall THEN rdOff + 1 ELSE 1
           /\ stall' = ~(stall /\ rdOff = length)
<1>1. Wrap(address + rdOff) \in Word
  BY WrapInWord DEF TypeOK, Word
<1>2. /\ bus' = [bus EXCEPT !.address = IF stall THEN Wrap(address + rdOff) ELSE address,
                           !.memwrite = FALSE]
      /\ rdOff' = IF stall THEN rdOff + 1 ELSE 1
      /\ stall' = ~(stall /\ rdOff = length)
  BY DEF ReadMem, Ask, NextOffset, LastByte
<1>3. bus \in [address : Word, memwrite : BOOLEAN, writedata : Byte, readdata : Byte]
  BY DEF TypeOK
<1> QED BY <1>1, <1>2, <1>3

\* What a call of read_mem accumulates are bytes.
LEMMA AccumulatedType ==
    ASSUME TypeOK
    PROVE  /\ Accumulated(ins) \in [InsLane -> Byte]
           /\ Accumulated(loaded) \in [Lane -> Byte]
BY ZeroByte DEF TypeOK, Accumulated

------------------------------------------------------------------------------
\* Type correctness and the owner of the stall flag, proved together: that the
\* offsets stay in their types needs the owner, and the owner needs the types.

IInv == TypeOK /\ StallHasOwner

LEMMA InitIInv == Init => IInv
<1> SUFFICES ASSUME Init PROVE IInv
  OBVIOUS
<1>1. regs \in [0..PC -> Word]
  BY ZeroByte DEF Init
<1>2. bus \in [address : Word, memwrite : BOOLEAN,
               writedata : Byte, readdata : Byte]
  BY ZeroByte DEF Init
<1>3. mem \in [Mapped -> Byte]
  BY MemAssumption DEF Init
<1>4. ins \in [InsLane -> Byte] /\ loaded \in [Lane -> Byte]
  BY ZeroByte DEF Init, HALT_MAGIC, NoBytes
<1>5. at = "fetch" /\ stall = FALSE /\ pcUpdated = FALSE
  BY DEF Init
<1>6. TypeOK
  <2>1. rdOff \in 0..9 /\ wrOff \in 0..8
    BY DEF Init
  <2>2. /\ stall \in BOOLEAN /\ pcUpdated \in BOOLEAN
        /\ at \in {"fetch", "fetchBus", "decide", "stepBus", "halted", "exited"}
    BY <1>5
  <2> QED BY <1>1, <1>2, <1>3, <1>4, <2>1, <2>2, Zenon DEF TypeOK
<1>7. StallHasOwner
  BY <1>5 DEF StallHasOwner
<1> QED BY <1>6, <1>7 DEF IInv

\* Instructions that do not touch the bus run with the stall flag clear.
LEMMA NoStall ==
    ASSUME IInv, NEW kinds, Executing(kinds), "load" \notin kinds, "store" \notin kinds
    PROVE  stall = FALSE /\ pcUpdated = FALSE
BY DEF IInv, TypeOK, StallHasOwner, Executing

\* Such an instruction keeps the invariant whatever registers it leaves.
LEMMA RegisterStep ==
    ASSUME IInv, NEW r \in RegFile, NEW jumped \in BOOLEAN,
           stall = FALSE, UNCHANGED stall, Advance(r, jumped), at' = "stepBus",
           UNCHANGED <<bus, mem, rdOff, wrOff, ins, loaded>>
    PROVE  IInv'
<1>1. regs' \in RegFile /\ pcUpdated' = FALSE
  BY AdvanceType
<1> QED BY <1>1 DEF IInv, TypeOK, StallHasOwner, RegFile

LEMMA NextIInv == IInv /\ [Next]_vars => IInv'
<1> SUFFICES ASSUME IInv, [Next]_vars PROVE IInv'
  OBVIOUS
<1> USE DEF IInv
<1>1. regs \in RegFile
  BY DEF TypeOK, RegFile
<1>2. pcUpdated = FALSE
  BY DEF TypeOK, StallHasOwner
<1>3. CASE FetchCycle
  <2>1. /\ bus' \in [address : Word, memwrite : BOOLEAN,
                     writedata : Byte, readdata : Byte]
        /\ rdOff' = IF stall THEN rdOff + 1 ELSE 1
        /\ stall' = ~(stall /\ rdOff = 4)
    BY <1>3, OperandsInWord, ReadMemType DEF FetchCycle
  <2>2. ins' \in [InsLane -> Byte]
    BY <1>3, AccumulatedType DEF FetchCycle
  <2>3. stall => rdOff \in 1..4
    BY <1>3 DEF FetchCycle, StallHasOwner
  <2>4. TypeOK'
    BY <1>3, <2>1, <2>2, <2>3 DEF FetchCycle, TypeOK
  <2>5. StallHasOwner'
    BY <1>3, <2>1, <2>3 DEF FetchCycle, StallHasOwner, TypeOK
  <2> QED BY <2>4, <2>5
<1>4. CASE FetchBus
  <2>1. TypeOK'
    BY <1>4, SysbusStepType DEF FetchBus, TypeOK
  <2>2. StallHasOwner'
    BY <1>4 DEF FetchBus, StallHasOwner, TypeOK
  <2> QED BY <2>1, <2>2
<1>5. CASE Halt
  BY <1>5 DEF Halt, TypeOK, StallHasOwner
<1>6. CASE ExecAlu
  <2>1. Executing({"alu", "alui"})
    BY <1>6 DEF ExecAlu
  <2> DEFINE value == Alu(Cur.fn, Operand,
                          IF Cur.kind = "alui" THEN Cur.imm ELSE regs[Cur.rs2])
  <2>2. value \in Word
    BY CurFields, OperandsInWord, AluAssumption
  <2> HIDE DEF value
  <2>3. SetReg(regs, Cur.rd, value) \in RegFile
    BY <1>1, <2>2, CurFields, SetRegType
  <2>4. Advance(SetReg(regs, Cur.rd, value), FALSE)
    BY <1>6, <1>2 DEF ExecAlu, Retire, value
  <2> QED BY <1>6, <2>1, <2>3, <2>4, NoStall, RegisterStep DEF ExecAlu
<1>7. CASE ExecUpper
  <2>1. Executing({"lui", "auipc"})
    BY <1>7 DEF ExecUpper
  <2> DEFINE value == IF Cur.kind = "lui" THEN Cur.imm
                      ELSE Wrap(Cur.imm + regs[PC])
  <2>2. Cur.imm + regs[PC] \in Int
    BY CurFields, OperandsInWord DEF Word
  <2>3. value \in Word
    BY <2>2, CurFields, WrapInWord
  <2> HIDE DEF value
  <2>4. SetReg(regs, Cur.rd, value) \in RegFile
    BY <1>1, <2>3, CurFields, SetRegType
  <2>5. Advance(SetReg(regs, Cur.rd, value), FALSE)
    BY <1>7, <1>2 DEF ExecUpper, Retire, value
  <2> QED BY <1>7, <2>1, <2>4, <2>5, NoStall, RegisterStep DEF ExecUpper
<1>8. CASE ExecJal
  <2>1. Executing({"jal"})
    BY <1>8 DEF ExecJal
  <2> DEFINE linked == SetReg(regs, Cur.rd, Wrap(regs[PC] + 4))
             r == [linked EXCEPT ![PC] = Wrap(linked[PC] + Cur.imm)]
  <2>2. linked \in RegFile
    <3>1. regs[PC] + 4 \in Int
      BY OperandsInWord DEF Word
    <3> QED BY <1>1, <3>1, CurFields, WrapInWord, SetRegType
  <2> HIDE DEF linked
  <2>3. r \in RegFile
    <3>1. linked[PC] + Cur.imm \in Int
      BY <2>2, CurFields, RegIndices DEF RegFile, Word
    <3>2. Wrap(linked[PC] + Cur.imm) \in Word
      BY <3>1, WrapInWord
    <3> QED BY <2>2, <3>2 DEF RegFile
  <2>4. Advance(r, TRUE)
    BY <1>8 DEF ExecJal, linked
  <2> QED BY <1>8, <2>1, <2>3, <2>4, NoStall, RegisterStep DEF ExecJal
<1>9. CASE ExecJalr
  <2>1. Executing({"jalr"})
    BY <1>9 DEF ExecJalr
  <2> DEFINE linked == SetReg(regs, Cur.rd, Wrap(regs[PC] + 4))
             r == [linked EXCEPT ![PC] = JalrTarget(linked)]
  <2>2. linked \in RegFile
    <3>1. regs[PC] + 4 \in Int
      BY OperandsInWord DEF Word
    <3> QED BY <1>1, <3>1, CurFields, WrapInWord, SetRegType
  <2> HIDE DEF linked
  <2>3. JalrTarget(linked) \in Word
    <3>0. linked[Cur.rs1] \in Word /\ Cur.imm \in Word
      BY <2>2, CurFields, RegIndices DEF RegFile
    <3>1. linked[Cur.rs1] + Cur.imm \in Int
      BY <3>0 DEF Word
    <3>2. Wrap(linked[Cur.rs1] + Cur.imm) \in Word
      BY <3>1, WrapInWord
    <3>3. \A n \in Word : n - (n % 2) \in Word
      BY Moduli DEF Word
    <3> QED BY <3>2, <3>3 DEF JalrTarget
  <2>4. r \in RegFile
    BY <2>2, <2>3 DEF RegFile
  <2>5. Advance(r, TRUE)
    BY <1>9 DEF ExecJalr, linked
  <2> QED BY <1>9, <2>1, <2>4, <2>5, NoStall, RegisterStep DEF ExecJalr
<1>10. CASE ExecBranch
  <2>1. Executing({"branch"})
    BY <1>10 DEF ExecBranch
  <2> DEFINE r == [regs EXCEPT ![PC] = Wrap(@ + Cur.imm)]
  <2>2. r \in RegFile
    <3>1. regs[PC] + Cur.imm \in Int
      BY CurFields, OperandsInWord DEF Word
    <3>2. Wrap(regs[PC] + Cur.imm) \in Word
      BY <3>1, WrapInWord
    <3> QED BY <1>1, <3>2 DEF RegFile
  <2>3. CASE Taken(Cur.cond, Operand, regs[Cur.rs2])
    <3>1. Advance(r, TRUE)
      BY <1>10, <2>3 DEF ExecBranch
    <3> QED BY <1>10, <2>1, <2>2, <3>1, NoStall, RegisterStep DEF ExecBranch
  <2>4. CASE ~Taken(Cur.cond, Operand, regs[Cur.rs2])
    <3>1. Advance(regs, FALSE)
      BY <1>10, <1>2, <2>4 DEF ExecBranch
    <3> QED BY <1>10, <2>1, <1>1, <3>1, NoStall, RegisterStep DEF ExecBranch
  <2> QED BY <2>3, <2>4
<1>11. CASE ExecLoad
  <2>1. /\ at = "decide" /\ ins # HALT_MAGIC /\ Cur.kind = "load"
        /\ ReadMem(Effective, Cur.len) /\ at' = "stepBus"
        /\ UNCHANGED <<mem, wrOff, ins>>
    BY <1>11 DEF ExecLoad, Executing
  <2>2. /\ bus' \in [address : Word, memwrite : BOOLEAN,
                     writedata : Byte, readdata : Byte]
        /\ rdOff' = IF stall THEN rdOff + 1 ELSE 1
        /\ stall' = ~(stall /\ rdOff = Cur.len)
    BY <2>1, OperandsInWord, ReadMemType
  <2>3. loaded' \in [Lane -> Byte]
    BY <1>11, AccumulatedType DEF ExecLoad
  <2>4. SetReg(regs, Cur.rd, LoadResult(loaded')) \in RegFile
    BY <1>1, <2>3, CurFields, SetRegType, LoadResultInWord
  <2>5. Advance(SetReg(regs, Cur.rd, LoadResult(loaded')), FALSE)
    BY <1>11, <1>2 DEF ExecLoad, Retire
  <2>6. regs' \in RegFile /\ pcUpdated' = FALSE
    BY <2>2, <2>4, <2>5, AdvanceType
  <2>7. /\ stall => rdOff \in 1..Cur.len
        /\ Cur.len \in {1, 2, 4, 8}
    BY <2>1, CurFields DEF StallHasOwner
  <2>8. rdOff' \in 0..9 /\ (stall' => rdOff' \in 1..Cur.len)
    <3>1. CASE stall
      <4>1. rdOff' = rdOff + 1 /\ rdOff \in 1..Cur.len /\ Cur.len <= 8
        BY <2>2, <2>7, <3>1
      <4>2. stall' => rdOff # Cur.len
        BY <2>2, <3>1
      <4> QED BY <2>7, <4>1, <4>2
    <3>2. CASE ~stall
      BY <2>2, <2>7, <3>2
    <3> QED BY <3>1, <3>2
  <2>9. Cur' = Cur
    BY <2>1 DEF Cur
  <2>10. TypeOK'
    BY <2>1, <2>2, <2>3, <2>6, <2>8 DEF TypeOK, RegFile
  <2>11. StallHasOwner'
    BY <2>1, <2>6, <2>8, <2>9 DEF StallHasOwner
  <2> QED BY <2>10, <2>11
<1>12. CASE ExecStore
  <2> DEFINE offset == IF stall THEN wrOff ELSE 0
  <2>1. /\ at = "decide" /\ ins # HALT_MAGIC /\ Cur.kind = "store"
        /\ WriteMem(Effective, Cur.len, regs[Cur.rs2]) /\ at' = "stepBus"
        /\ UNCHANGED <<mem, rdOff, ins, loaded>>
    BY <1>12 DEF ExecStore, Executing
  <2>2. Cur.len \in {1, 2, 4, 8} /\ (stall => wrOff \in 1..(Cur.len - 1))
    BY <2>1, CurFields DEF StallHasOwner
  <2>3. offset \in 0..(Cur.len - 1) /\ offset \in Lane
    BY <2>2 DEF Lane
  <2>4. /\ bus' = [bus EXCEPT !.address = Wrap(Effective + offset),
                              !.memwrite = TRUE,
                              !.writedata = ByteOf(regs[Cur.rs2], offset)]
        /\ wrOff' = offset + 1
        /\ stall' = (offset + 1 # Cur.len)
    BY <2>1 DEF WriteMem
  <2> HIDE DEF offset
  <2>5. bus' \in [address : Word, memwrite : BOOLEAN,
                  writedata : Byte, readdata : Byte]
    <3>1. Effective + offset \in Int
      BY <2>3, OperandsInWord DEF Word
    <3>2. Wrap(Effective + offset) \in Word
      BY <3>1, WrapInWord
    <3>3. ByteOf(regs[Cur.rs2], offset) \in Byte
      BY <2>3, OperandsInWord, ByteOfInByte
    <3> QED BY <2>4, <3>2, <3>3 DEF TypeOK
  <2>6. wrOff' \in 0..8 /\ (stall' => wrOff' \in 1..(Cur.len - 1))
    <3>1. wrOff' \in 1..Cur.len /\ Cur.len <= 8
      BY <2>2, <2>3, <2>4
    <3>2. stall' => wrOff' # Cur.len
      BY <2>4
    <3> QED BY <2>2, <3>1, <3>2
  <2>7. regs' \in RegFile /\ pcUpdated' = FALSE
    <3>1. Advance(regs, FALSE)
      BY <1>12, <1>2 DEF ExecStore
    <3> QED BY <1>1, <2>4, <3>1, AdvanceType
  <2>8. Cur' = Cur
    BY <2>1 DEF Cur
  <2>9. TypeOK'
    BY <2>1, <2>4, <2>5, <2>6, <2>7 DEF TypeOK, RegFile
  <2>10. StallHasOwner'
    BY <2>1, <2>6, <2>7, <2>8 DEF StallHasOwner
  <2> QED BY <2>9, <2>10
<1>13. CASE ExecIllegal
  <2>1. Executing({"illegal"})
    BY <1>13 DEF ExecIllegal
  <2>2. stall = FALSE
    BY <2>1, NoStall
  <2> QED BY <1>13, <2>2 DEF ExecIllegal, TypeOK, StallHasOwner
<1>14. CASE StepBus
  <2>1. TypeOK'
    BY <1>14, SysbusStepType DEF StepBus, TypeOK
  <2>2. StallHasOwner'
    BY <1>14 DEF StepBus, StallHasOwner, TypeOK, Cur
  <2> QED BY <2>1, <2>2
<1>15. CASE UNCHANGED vars
  BY <1>15 DEF vars, TypeOK, StallHasOwner, Cur
<1>16. CASE Done
  BY <1>15, <1>16 DEF Done
<1> QED
  BY <1>3, <1>4, <1>5, <1>6, <1>7, <1>8, <1>9, <1>10, <1>11, <1>12, <1>13,
     <1>14, <1>15, <1>16 DEF Next

(***************************************************************************)
(* Every variable of the loop keeps its type: registers and bus addresses  *)
(* stay words, the statics of read_mem and write_mem stay inside the       *)
(* longest access.                                                         *)
(***************************************************************************)
THEOREM TypeCorrect == Spec => []TypeOK
<1>1. IInv => TypeOK
  BY DEF IInv
<1> QED BY InitIInv, NextIInv, <1>1, PTL DEF Spec

(***************************************************************************)
(* While the stall flag is set exactly one access owns it, and its offset  *)
(* is inside that access; pc_updated never outlives an instruction.        *)
(***************************************************************************)
THEOREM StallOwned == Spec => []StallHasOwner
<1>1. IInv => StallHasOwner
  BY DEF IInv
<1> QED BY InitIInv, NextIInv, <1>1, PTL DEF Spec

------------------------------------------------------------------------------
\* What the lines of the bus carry between the steps of the loop, and from it
\* that the fetch delivers the word in memory and that only stores write.

\* The byte write on the bus is lane k of the store in current_instruction.
DrivesLane(k) ==
    /\ bus.address = Wrap(Effective + k)
    /\ bus.writedata = ByteOf(regs[Cur.rs2], k)

\* memwrite is clear in every bus step but those of a store, and then the bus
\* carries one of that store's bytes.
WriteLine ==
    /\ at = "fetchBus" => ~bus.memwrite
    /\ at = "decide" /\ ~stall => ~bus.memwrite
    /\ at = "stepBus" /\ bus.memwrite =>
           /\ ins # HALT_MAGIC /\ Cur.kind = "store"
           /\ \E k \in 0..(Cur.len - 1) : DrivesLane(k)

\* A fetch in progress has collected every byte but the one it asked for last;
\* that one is on readdata as soon as the bus has been stepped.
FetchLine ==
    /\ at \in {"fetch", "fetchBus"} /\ stall =>
           /\ bus.address = Wrap(regs[PC] + (rdOff - 1))
           /\ \A k \in InsLane : k < rdOff - 1 => Fetched(k)
    /\ at = "fetch" /\ stall /\ bus.address \in Mapped =>
           bus.readdata = mem[bus.address]
    /\ at \in {"fetchBus", "decide"} /\ ~stall => \A k \in InsLane : Fetched(k)

BusInv == IInv /\ WriteLine /\ FetchLine

------------------------------------------------------------------------------

\* A word is its own remainder.
LEMMA WrapOfWord == ASSUME NEW n \in Word PROVE Wrap(n) = n
BY Moduli DEF Wrap, Word

\* A bus step without memwrite leaves the memory alone.
LEMMA ReadKeepsMem ==
    ASSUME TypeOK, SysbusStep, ~bus.memwrite
    PROVE  mem' = mem
BY DEF SysbusStep

\* After a bus step readdata is the byte the memory holds at the address.
LEMMA StepAnswers ==
    ASSUME TypeOK, SysbusStep
    PROVE  bus'.address \in Mapped => bus'.readdata = mem'[bus'.address]
<1>1. CASE bus.address \in Mapped
  <2>1. bus' = [bus EXCEPT !.readdata = mem'[bus.address]]
    BY <1>1 DEF SysbusStep
  <2> QED BY <2>1 DEF TypeOK
<1>2. CASE bus.address \notin Mapped
  BY <1>2 DEF SysbusStep
<1> QED BY <1>1, <1>2

\* An instruction that does not use the bus leaves memwrite clear.
LEMMA RegisterStepBus ==
    ASSUME BusInv, NEW kinds, Executing(kinds), "load" \notin kinds,
           "store" \notin kinds, at' = "stepBus", UNCHANGED bus
    PROVE  WriteLine' /\ FetchLine'
<1>1. stall = FALSE /\ at = "decide"
  BY NoStall DEF BusInv, Executing
<1>2. ~bus.memwrite
  BY <1>1 DEF BusInv, WriteLine
<1> QED BY <1>2 DEF WriteLine, FetchLine

LEMMA FetchCycleBus == BusInv /\ FetchCycle => WriteLine' /\ FetchLine'
<1> SUFFICES ASSUME BusInv, FetchCycle PROVE WriteLine' /\ FetchLine'
  OBVIOUS
<1>1. TypeOK /\ StallHasOwner
  BY DEF BusInv, IInv
<1>2. /\ at = "fetch" /\ at' = "fetchBus" /\ ReadMem(regs[PC], 4)
      /\ ins' = Accumulated(ins)
      /\ UNCHANGED <<regs, pcUpdated, mem, wrOff, loaded>>
  BY DEF FetchCycle
<1>3. /\ ~bus'.memwrite
      /\ bus'.address = IF stall THEN Wrap(regs[PC] + rdOff) ELSE regs[PC]
      /\ rdOff' = IF stall THEN rdOff + 1 ELSE 1
      /\ stall' = ~(stall /\ rdOff = 4)
  BY <1>1, <1>2, OperandsInWord, ReadMemType
<1>4. WriteLine'
  BY <1>2, <1>3 DEF WriteLine
<1>5. stall => rdOff \in 1..4
  BY <1>1, <1>2 DEF StallHasOwner
<1>6. bus'.address = Wrap(regs'[PC] + (rdOff' - 1))
  <2>1. CASE stall
    BY <1>2, <1>3, <1>5, <2>1
  <2>2. CASE ~stall
    <3>1. regs[PC] \in Word
      BY <1>1, OperandsInWord
    <3>2. regs[PC] + (1 - 1) = regs[PC]
      BY <3>1 DEF Word
    <3> QED BY <1>2, <1>3, <2>2, <3>1, <3>2, WrapOfWord
  <2> QED BY <2>1, <2>2
<1>7. ASSUME NEW k \in InsLane, stall, k <= rdOff - 1
      PROVE  Fetched(k)'
  <2>1. ins' = [ins EXCEPT ![rdOff - 1] = bus.readdata]
    BY <1>2, <1>7 DEF Accumulated
  <2>2. rdOff - 1 \in InsLane
    BY <1>5, <1>7 DEF InsLane
  <2>3. ins \in [InsLane -> Byte]
    BY <1>1 DEF TypeOK
  <2>4. CASE k = rdOff - 1
    <3>1. ins'[k] = bus.readdata
      BY <2>1, <2>2, <2>3, <2>4
    <3>2. bus.address = Wrap(regs[PC] + k)
      BY <1>2, <1>7, <2>4 DEF BusInv, FetchLine
    <3>3. bus.address \in Mapped => bus.readdata = mem[bus.address]
      BY <1>2, <1>7 DEF BusInv, FetchLine
    <3> QED BY <1>2, <3>1, <3>2, <3>3 DEF Fetched
  <2>5. CASE k < rdOff - 1
    <3>0. k # rdOff - 1
      BY <1>5, <1>7, <2>5 DEF InsLane
    <3>1. ins'[k] = ins[k]
      BY <2>1, <2>2, <2>3, <3>0
    <3>2. Fetched(k)
      BY <1>2, <1>7, <2>5 DEF BusInv, FetchLine
    <3> QED BY <1>2, <3>1, <3>2 DEF Fetched
  <2> QED BY <1>5, <1>7, <2>4, <2>5 DEF InsLane
<1>8. stall' => \A k \in InsLane : k < rdOff' - 1 => Fetched(k)'
  <2>1. CASE stall
    BY <1>3, <1>5, <1>7, <2>1 DEF InsLane
  <2>2. CASE ~stall
    BY <1>3, <2>2 DEF InsLane
  <2> QED BY <2>1, <2>2
<1>9. ~stall' => \A k \in InsLane : Fetched(k)'
  <2>1. ~stall' => stall /\ rdOff = 4
    BY <1>3
  <2>2. \A k \in InsLane : k <= 4 - 1
    BY DEF InsLane
  <2> QED BY <1>7, <2>1, <2>2
<1> QED BY <1>2, <1>4, <1>6, <1>8, <1>9 DEF FetchLine

LEMMA FetchBusBus == BusInv /\ FetchBus => WriteLine' /\ FetchLine'
<1> SUFFICES ASSUME BusInv, FetchBus PROVE WriteLine' /\ FetchLine'
  OBVIOUS
<1>1. TypeOK
  BY DEF BusInv, IInv
<1>2. /\ at = "fetchBus" /\ SysbusStep
      /\ at' = IF stall THEN "fetch" ELSE "decide"
      /\ UNCHANGED <<regs, stall, pcUpdated, rdOff, wrOff, ins, loaded>>
  BY DEF FetchBus
<1>3. ~bus.memwrite
  BY <1>2 DEF BusInv, WriteLine
<1>4. mem' = mem
  BY <1>1, <1>2, <1>3, ReadKeepsMem
<1>5. bus'.address = bus.address /\ ~bus'.memwrite
  BY <1>1, <1>2, <1>3, SysbusStepType
<1>6. WriteLine'
  BY <1>2, <1>5 DEF WriteLine
<1>7. \A k \in InsLane : Fetched(k) => Fetched(k)'
  BY <1>2, <1>4 DEF Fetched
<1>8. bus'.address \in Mapped => bus'.readdata = mem'[bus'.address]
  BY <1>1, <1>2, StepAnswers
<1>9. CASE stall
  <2>1. /\ bus.address = Wrap(regs[PC] + (rdOff - 1))
        /\ \A k \in InsLane : k < rdOff - 1 => Fetched(k)
    BY <1>2, <1>9 DEF BusInv, FetchLine
  <2> QED BY <1>2, <1>5, <1>6, <1>7, <1>8, <1>9, <2>1 DEF FetchLine
<1>10. CASE ~stall
  <2>1. \A k \in InsLane : Fetched(k)
    BY <1>2, <1>10 DEF BusInv, FetchLine
  <2> QED BY <1>2, <1>6, <1>7, <1>10, <2>1 DEF FetchLine
<1> QED BY <1>9, <1>10

\* What a store reads is not the pc, so it is the same after Advance.
LEMMA StoreBus == BusInv /\ ExecStore => WriteLine' /\ FetchLine'
<1> SUFFICES ASSUME BusInv, ExecStore PROVE WriteLine' /\ FetchLine'
  OBVIOUS
<1>1. TypeOK /\ StallHasOwner
  BY DEF BusInv, IInv
<1> DEFINE offset == IF stall THEN wrOff ELSE 0
<1>2. /\ at = "decide" /\ ins # HALT_MAGIC /\ Cur.kind = "store"
      /\ WriteMem(Effective, Cur.len, regs[Cur.rs2])
      /\ Advance(regs, pcUpdated) /\ at' = "stepBus"
      /\ UNCHANGED <<mem, rdOff, ins, loaded>>
  BY DEF ExecStore, Executing
<1>3. PICK k \in 0..(Cur.len - 1) : k = offset
  BY <1>1, <1>2, CurFields DEF StallHasOwner
<1>4. bus' = [bus EXCEPT !.address = Wrap(Effective + k),
                         !.memwrite = TRUE,
                         !.writedata = ByteOf(regs[Cur.rs2], k)]
  BY <1>2, <1>3 DEF WriteMem
<1> HIDE DEF offset
<1>5. Cur' = Cur
  BY <1>2 DEF Cur
<1>6. \A r \in Reg : regs'[r] = regs[r]
  <2>1. regs \in [0..PC -> Word]
    BY <1>1 DEF TypeOK
  <2> QED BY <1>2, <2>1, RegIndices DEF Advance
<1>7. Effective' = Effective /\ regs'[Cur.rs2] = regs[Cur.rs2]
  BY <1>1, <1>5, <1>6, CurFields DEF Effective, Operand
<1>8. DrivesLane(k)'
  BY <1>1, <1>4, <1>5, <1>7 DEF DrivesLane, TypeOK
<1>9. ins' # HALT_MAGIC /\ Cur'.kind = "store" /\ k \in 0..(Cur'.len - 1)
  BY <1>2, <1>5
<1> QED BY <1>2, <1>8, <1>9 DEF WriteLine, FetchLine

LEMMA NextBus == BusInv /\ [Next]_vars => WriteLine' /\ FetchLine'
<1> SUFFICES ASSUME BusInv, [Next]_vars PROVE WriteLine' /\ FetchLine'
  OBVIOUS
<1>1. TypeOK /\ StallHasOwner
  BY DEF BusInv, IInv
<1>2. CASE FetchCycle
  BY <1>2, FetchCycleBus
<1>3. CASE FetchBus
  BY <1>3, FetchBusBus
<1>4. CASE Halt
  BY <1>4 DEF Halt, WriteLine, FetchLine
<1>5. CASE ExecAlu
  BY <1>5, RegisterStepBus DEF ExecAlu
<1>6. CASE ExecUpper
  BY <1>6, RegisterStepBus DEF ExecUpper
<1>7. CASE ExecJal
  BY <1>7, RegisterStepBus DEF ExecJal
<1>8. CASE ExecJalr
  BY <1>8, RegisterStepBus DEF ExecJalr
<1>9. CASE ExecBranch
  BY <1>9, RegisterStepBus DEF ExecBranch
<1>10. CASE ExecLoad
  <2>1. ReadMem(Effective, Cur.len) /\ at' = "stepBus"
    BY <1>10 DEF ExecLoad
  <2>2. ~bus'.memwrite
    BY <1>1, <2>1, OperandsInWord, ReadMemType
  <2> QED BY <2>1, <2>2 DEF WriteLine, FetchLine
<1>11. CASE ExecStore
  BY <1>11, StoreBus
<1>12. CASE ExecIllegal
  BY <1>12 DEF ExecIllegal, WriteLine, FetchLine
<1>13. CASE StepBus
  <2>1. /\ at' = IF stall THEN "decide" ELSE "fetch"
        /\ UNCHANGED stall
    BY <1>13 DEF StepBus
  <2> QED BY <2>1 DEF WriteLine, FetchLine
<1>14. CASE UNCHANGED vars
  <2>1. Cur' = Cur /\ Effective' = Effective
    BY <1>14 DEF vars, Cur, Effective, Operand
  <2>2. \A k : DrivesLane(k)' = DrivesLane(k)
    BY <1>14, <2>1 DEF vars, DrivesLane
  <2>3. \A k : Fetched(k)' = Fetched(k)
    BY <1>14 DEF vars, Fetched
  <2>4. WriteLine'
    BY <1>14, <2>1, <2>2 DEF vars, BusInv, WriteLine
  <2>5. FetchLine'
    BY <1>14, <2>3 DEF vars, BusInv, FetchLine
  <2> QED BY <2>4, <2>5
<1>15. CASE Done
  BY <1>14, <1>15 DEF Done
<1> QED
  BY <1>2, <1>3, <1>4, <1>5, <1>6, <1>7, <1>8, <1>9, <1>10, <1>11, <1>12,
     <1>13, <1>14, <1>15 DEF Next

LEMMA BusInvariant == Spec => []BusInv
<1>1. Init => BusInv
  BY InitIInv DEF BusInv, Init, WriteLine, FetchLine
<1>2. BusInv /\ [Next]_vars => BusInv'
  BY NextIInv, NextBus DEF BusInv
<1> QED BY <1>1, <1>2, PTL DEF Spec

(***************************************************************************)
(* When step_rv64_cpu starts an instruction, every byte of                 *)
(* current_instruction that a device answers for is the byte the memory    *)
(* holds at the pc: stall_and_fetch collects each byte in the turn after   *)
(* the one that asked for it, and nothing writes in between.               *)
(***************************************************************************)
THEOREM FetchDeliversMemory == Spec => []FetchFaithful
<1>1. BusInv => FetchFaithful
  BY DEF BusInv, FetchLine, FetchFaithful
<1> QED BY BusInvariant, <1>1, PTL

(***************************************************************************)
(* The memory changes only in the bus step of a store, by one byte of its  *)
(* rs2 at that byte's place: memwrite, which write_mem sets and only       *)
(* read_mem clears, is clear before any other bus step.                    *)
(***************************************************************************)
THEOREM StoresAloneWrite == Spec => OnlyStoresWrite
<1> DEFINE Writes ==
        mem' # mem =>
            /\ at = "stepBus" /\ ins # HALT_MAGIC /\ Cur.kind = "store"
            /\ \E k \in 0..(Cur.len - 1) : StoresLane(k)
<1>1. BusInv /\ [Next]_vars => [Writes]_vars
  <2> SUFFICES ASSUME BusInv, Next, mem' # mem PROVE Writes
    BY DEF vars
  <2>1. TypeOK
    BY DEF BusInv, IInv
  <2>2. FetchBus \/ StepBus
    BY DEF Next, FetchCycle, Halt, ExecAlu, ExecUpper, ExecJal, ExecJalr,
           ExecBranch, ExecLoad, ExecStore, ExecIllegal, Done, vars
  <2>3. SysbusStep /\ at \in {"fetchBus", "stepBus"} /\ (FetchBus => at = "fetchBus")
    BY <2>2 DEF FetchBus, StepBus
  <2>4. bus.memwrite
    BY <2>1, <2>3, ReadKeepsMem
  <2>5. at = "stepBus"
    BY <2>3, <2>4 DEF BusInv, WriteLine
  <2>6. ins # HALT_MAGIC /\ Cur.kind = "store"
    BY <2>4, <2>5 DEF BusInv, WriteLine
  <2>7. PICK k \in 0..(Cur.len - 1) : DrivesLane(k)
    BY <2>4, <2>5 DEF BusInv, WriteLine
  <2>8. mem' = [mem EXCEPT ![bus.address] = bus.writedata]
    BY <2>3, <2>4 DEF SysbusStep
  <2>9. StoresLane(k)
    BY <2>7, <2>8 DEF DrivesLane, StoresLane
  <2> QED BY <2>5, <2>6, <2>9
<1> QED BY BusInvariant, <1>1, PTL DEF Spec, OnlyStoresWrite

------------------------------------------------------------------------------
(***************************************************************************)
(* The cycle-level machine implements the instruction-level one.           *)
(*                                                                         *)
(* The inductive invariant is BusInv with what the mapping has to know of  *)
(* an access in flight: which address the bus carries, which lanes are     *)
(* still clear, what is on readdata.  Under it the first call of a handler *)
(* is the instruction of Rv64Isa, and every other cycle leaves what the    *)
(* mapping shows as it was.                                                *)
(***************************************************************************)

\* A word is what is left of a number when multiples of 2^64 are taken away.
LEMMA Remainder ==
    ASSUME NEW n \in Int
    PROVE  Wrap(n) \in Word /\ \E q \in Int : n = XMOD * q + Wrap(n)
<1>1. XMOD \in Nat /\ XMOD >= 1
  BY Moduli
<1>2. n \div XMOD \in Int /\ n = XMOD * (n \div XMOD) + (n % XMOD)
  BY <1>1
<1> QED
  BY <1>2, WrapInWord DEF Wrap

\* A multiple of m that is less than m away from zero is zero.
LEMMA SmallMultiple ==
    ASSUME NEW m \in Nat, m >= 1, NEW q \in Int, -m < m * q, m * q < m
    PROVE  q = 0
<1>1. ~(q >= 1)
  <2> SUFFICES ASSUME q >= 1 PROVE FALSE
    OBVIOUS
  <2>1. m * q >= m
    OBVIOUS
  <2> QED
    BY <2>1
<1>2. ~(q <= -1)
  <2> SUFFICES ASSUME q <= -1 PROVE FALSE
    OBVIOUS
  <2>1. m * q <= -m
    OBVIOUS
  <2> QED
    BY <2>1
<1> QED
  BY <1>1, <1>2

\* Numbers that differ by a multiple of 2^64 are the same word.
LEMMA SameWord ==
    ASSUME NEW a \in Int, NEW b \in Int, NEW q \in Int, a = b + XMOD * q
    PROVE  Wrap(a) = Wrap(b)
<1>1. XMOD \in Nat /\ XMOD >= 1
  BY Moduli
<1>2. PICK i \in Int : a = XMOD * i + Wrap(a)
  BY Remainder
<1>3. PICK j \in Int : b = XMOD * j + Wrap(b)
  BY Remainder
<1>4. Wrap(a) \in 0..(XMOD - 1) /\ Wrap(b) \in 0..(XMOD - 1)
  BY Remainder DEF Word
<1>5. XMOD * (j + q - i) = Wrap(a) - Wrap(b)
  <2>1. XMOD * (j + q - i) = XMOD * j + XMOD * q - XMOD * i
    BY <1>1
  <2>2. XMOD * i \in Int /\ XMOD * j \in Int /\ XMOD * q \in Int
    BY <1>1
  <2> QED
    BY <1>2, <1>3, <1>4, <2>1, <2>2
<1>6. j + q - i = 0
  BY <1>1, <1>4, <1>5, SmallMultiple
<1> QED
  BY <1>1, <1>4, <1>5, <1>6

\* Wrapping early or late makes no difference to a sum.
LEMMA WrapSum ==
    ASSUME NEW a \in Int, NEW b \in Int
    PROVE  Wrap(Wrap(a) + b) = Wrap(a + b)
<1>1. PICK q \in Int : a = XMOD * q + Wrap(a)
  BY Remainder
<1>2. Wrap(a) \in Int /\ XMOD * q \in Int
  BY Remainder, Moduli DEF Word
<1>3. a + b = (Wrap(a) + b) + XMOD * q
  <2>1. \A m, w \in Int : a = m + w => a + b = (w + b) + m
    OBVIOUS
  <2> QED
    BY <1>1, <1>2, <2>1
<1> QED
  BY <1>2, <1>3, SameWord

\* The bytes of an access have addresses of their own.
LEMMA LanesApart ==
    ASSUME NEW a \in Int, NEW j \in Lane, NEW k \in Lane, Wrap(a + j) = Wrap(a + k)
    PROVE  j = k
<1>1. XMOD \in Nat /\ XMOD >= 8
  <2>1. ASSUME NEW x \in Nat, x >= 2 PROVE x * x \in Nat /\ x * x >= 2 * x
    BY <2>1
  <2>2. \A x \in Nat : x >= 2 => x * x \in Nat /\ x * x >= 2 * x
    BY <2>1
  <2>3. Base * Base \in Nat /\ Base * Base >= 4
    BY <2>2, Moduli
  <2> DEFINE B2 == Base * Base
  <2>4. HALF = B2 * B2
    BY Moduli DEF HALF
  <2> HIDE DEF B2
  <2>5. HALF >= 8 /\ HALF \in Nat
    BY <2>2, <2>3, <2>4 DEF B2
  <2> QED
    BY <2>2, <2>5 DEF XMOD
<1>2. PICK p \in Int : a + j = XMOD * p + Wrap(a + j)
  BY Remainder DEF Lane
<1>3. PICK q \in Int : a + k = XMOD * q + Wrap(a + k)
  BY Remainder DEF Lane
<1>4. Wrap(a + k) \in Int
  BY Remainder DEF Lane, Word
<1>5. XMOD * (p - q) = j - k
  <2>1. XMOD * (p - q) = XMOD * p - XMOD * q /\ XMOD * p \in Int /\ XMOD * q \in Int
    BY <1>1
  <2> QED
    BY <1>2, <1>3, <1>4, <2>1 DEF Lane
<1>6. p - q = 0
  <2>1. j - k \in -7..7
    BY DEF Lane
  <2>2. -XMOD < j - k /\ j - k < XMOD
    BY <1>1, <2>1
  <2> QED
    BY <1>1, <1>5, <2>2, SmallMultiple
<1> QED
  BY <1>1, <1>5, <1>6 DEF Lane

\* The largest of a finite set of lanes.
LEMMA LargestLane ==
    ASSUME NEW S \in SUBSET Lane, S # {}
    PROVE  Max(S) \in S /\ \A k \in S : k <= Max(S)
<1>1. \E x \in S : \A y \in S : x >= y
  <2>1. \/ 7 \in S \/ 6 \in S \/ 5 \in S \/ 4 \in S \/ 3 \in S \/ 2 \in S \/ 1 \in S \/ 0 \in S
    <3>1. PICK x : x \in S
      OBVIOUS
    <3>2. x \in 0..7
      BY <3>1 DEF Lane
    <3>3. x = 0 \/ x = 1 \/ x = 2 \/ x = 3 \/ x = 4 \/ x = 5 \/ x = 6 \/ x = 7
      BY <3>2
    <3> QED
      BY <3>1, <3>3
  <2>2. \A y \in S : y \in 0..7
    BY DEF Lane
  <2>3. CASE 7 \in S
    BY <2>2, <2>3
  <2>4. CASE 7 \notin S /\ 6 \in S
    BY <2>2, <2>4
  <2>5. CASE 7 \notin S /\ 6 \notin S /\ 5 \in S
    BY <2>2, <2>5
  <2>6. CASE 7 \notin S /\ 6 \notin S /\ 5 \notin S /\ 4 \in S
    BY <2>2, <2>6
  <2>7. CASE 7 \notin S /\ 6 \notin S /\ 5 \notin S /\ 4 \notin S
    BY <2>1, <2>2, <2>7
  <2> QED
    BY <2>3, <2>4, <2>5, <2>6, <2>7
<1> DEFINE top == CHOOSE x \in S : \A y \in S : x >= y
<1>2. top \in S /\ \A y \in S : top >= y
  BY <1>1
<1> HIDE DEF top
<1>3. Max(S) = top
  BY DEF Max, top
<1> QED
  BY <1>2, <1>3 DEF Lane

------------------------------------------------------------------------------
\* The two levels speak of the same words.

\* Rv64Isa extends Rv64Words as Machine does: its constants and operators are these.
LEMMA ArchWords ==
    /\ \A n : Arch!Wrap(n) = Wrap(n)
    /\ Arch!Lane = Lane /\ Arch!InsLane = InsLane /\ Arch!Byte = Byte
    /\ Arch!PC = PC /\ Arch!HALT_MAGIC = HALT_MAGIC
    /\ \A lanes : Arch!Value(lanes) = Value(lanes)
    /\ \A v, k : Arch!ByteOf(v, k) = ByteOf(v, k)
BY DEF Arch!Wrap, Arch!XMOD, Arch!HALF, Arch!Lane, Arch!InsLane, Arch!Byte, Arch!PC,
       Arch!HALT_MAGIC, Arch!Value, Arch!LowHalf, Arch!HighHalf, Arch!ByteOf, Arch!Weight,
       Wrap, XMOD, HALF, Lane, InsLane, Byte, PC, HALT_MAGIC, Value, LowHalf, HighHalf,
       ByteOf, Weight

\* The eight lanes a load leaves, n of them from memory.
Padded(lanes, n) == [k \in Lane |-> IF k < n THEN lanes[k] ELSE 0]

\* Four bytes as a number.
Four(a, b, c, d) == a + Base * (b + Base * (c + Base * d))

\* The number in four lanes, its sign bit and its sign extension, when a byte has an
\* even number of values.
LEMMA SignOfWord ==
    ASSUME NEW h \in Nat, Base = 2 * h, NEW a \in 0..(Base - 1), NEW b \in 0..(Base - 1),
           NEW c \in 0..(Base - 1), NEW d \in 0..(Base - 1)
    PROVE  /\ Four(a, b, c, d) \in 0..(HALF - 1)
           /\ Four(a, b, c, d) >= HALF \div 2 <=> 2 * d >= Base
<1>1. Base \in Nat /\ Base >= 2 /\ HALF \in Nat
  BY Moduli
<1> DEFINE low == Four(a, b, c, d)
           B2 == Base * Base
           B3 == Base * (Base * Base)
           low3 == a + Base * (b + Base * c)
<1>2. B2 \in Nat /\ B3 \in Nat
  BY <1>1
<1>3. low3 \in 0..(B3 - 1)
  <2> DEFINE x == b + Base * c
  <2>1. x \in 0..(Base * Base - 1)
    BY <1>1, Horner
  <2> HIDE DEF x
  <2>2. a + Base * x \in 0..(Base * (Base * Base) - 1)
    BY <1>1, <2>1, Horner
  <2> QED
    BY <2>2 DEF x
<1>4. low = low3 + B3 * d
  <2>1. \A w \in Nat : /\ Base * (c + Base * d) = Base * c + B2 * d
                       /\ Base * (w + B2 * d) = Base * w + B3 * d
    BY <1>1
  <2>2. Base * c \in Nat /\ Base * d \in Nat /\ B2 * d \in Nat
    BY <1>1, <1>2
  <2>3. b + Base * c \in Nat
    BY <2>2
  <2>4. low = a + Base * ((b + Base * c) + B2 * d)
    BY <2>1, <2>2 DEF Four
  <2>5. Base * ((b + Base * c) + B2 * d) = Base * (b + Base * c) + B3 * d
    BY <2>1, <2>3
  <2>6. Base * (b + Base * c) \in Nat /\ B3 * d \in Nat
    BY <1>1, <1>2, <2>3
  <2> HIDE DEF B3
  <2> QED
    BY <2>4, <2>5, <2>6
<1>5. HALF = B3 * Base /\ HALF = 2 * (B3 * h)
  BY <1>1 DEF HALF
<1> HIDE DEF low, B2, B3, low3
<1>6. B3 * d \in Nat /\ B3 * h \in Nat /\ B3 * Base \in Nat
  BY <1>1, <1>2
<1>7. low \in 0..(HALF - 1)
  <2>1. B3 * d <= B3 * (Base - 1) /\ B3 * (Base - 1) = B3 * Base - B3
    BY <1>1, <1>2
  <2> QED
    BY <1>2, <1>3, <1>4, <1>5, <1>6, <2>1
<1>8. HALF \div 2 = B3 * h
  BY <1>5, <1>6
<1>9. ASSUME d >= h PROVE low >= HALF \div 2 /\ 2 * d >= Base
  <2>1. B3 * d >= B3 * h
    BY <1>2, <1>9
  <2> QED
    BY <1>3, <1>4, <1>6, <1>7, <1>8, <1>9, <2>1
<1>10. ASSUME d <= h - 1 PROVE low < HALF \div 2 /\ 2 * d < Base
  <2>1. B3 * d <= B3 * (h - 1) /\ B3 * (h - 1) = B3 * h - B3
    BY <1>2, <1>10
  <2> QED
    BY <1>2, <1>3, <1>4, <1>6, <1>7, <1>8, <1>10, <2>1
<1>11. low \in 0..(HALF - 1) /\ (low >= HALF \div 2 <=> 2 * d >= Base)
  BY <1>1, <1>6, <1>7, <1>8, <1>9, <1>10
<1> QED
  BY <1>11 DEF low

\* Four lanes full of ones are what sign_extend_u32_to_u64 adds.
LEMMA OnesAbove == HALF * ((Base - 1) + Base * ((Base - 1) + Base * ((Base - 1) + Base * (Base - 1))))
                     = XMOD - HALF
<1>1. Base \in Nat /\ HALF \in Nat
  BY Moduli
<1> DEFINE ones == (Base - 1) + Base * ((Base - 1) + Base * ((Base - 1) + Base * (Base - 1)))
<1>2. ones = HALF - 1
  BY <1>1 DEF HALF
<1> HIDE DEF ones
<1>3. HALF * (HALF - 1) = HALF * HALF - HALF
  BY <1>1
<1> QED
  BY <1>2, <1>3 DEF ones, XMOD

\* What a load handler makes of its lanes is what the manual says, if it extends no
\* sign but that of a word.
LEMMA ExtendedIsResult ==
    ASSUME Base % 2 = 0, NEW n \in {1, 2, 4, 8}, NEW sext \in BOOLEAN, sext => n = 4,
           NEW lanes \in [0..(n - 1) -> Byte]
    PROVE  Arch!Extended(lanes, n, sext)
             = IF sext THEN SignExtendU32(Value(Padded(lanes, n))) ELSE Value(Padded(lanes, n))
<1> DEFINE sign == sext /\ n < 8 /\ 2 * lanes[n - 1] >= Base
<1>1. Arch!Extended(lanes, n, sext)
        = Value([k \in Lane |-> IF k < n THEN lanes[k] ELSE IF sign THEN Base - 1 ELSE 0])
  BY ArchWords DEF Arch!Extended
<1>2. CASE ~sext
  BY <1>1, <1>2 DEF Padded
<1>3. CASE sext
  <2>1. n = 4
    BY <1>3
  <2> DEFINE low == Four(lanes[0], lanes[1], lanes[2], lanes[3])
             wide == [k \in Lane |-> IF k < 4 THEN lanes[k] ELSE IF sign THEN Base - 1 ELSE 0]
             one == IF sign THEN Base - 1 ELSE 0
  <2>2. /\ lanes[0] \in 0..(Base - 1) /\ lanes[1] \in 0..(Base - 1)
        /\ lanes[2] \in 0..(Base - 1) /\ lanes[3] \in 0..(Base - 1)
    BY <2>1 DEF Byte
  <2>3. PICK h \in Nat : Base = 2 * h
    <3>1. Base \div 2 \in Nat /\ Base = 2 * (Base \div 2)
      BY Moduli
    <3> QED
      BY <3>1
  <2>4. low \in 0..(HALF - 1) /\ (low >= HALF \div 2 <=> 2 * lanes[3] >= Base)
    BY <2>2, <2>3, SignOfWord
  <2>5. Value(Padded(lanes, n)) = low + HALF * 0
    <3>1. LowHalf(Padded(lanes, n)) = low
      BY <2>1 DEF Padded, Lane, LowHalf, Four
    <3>2. HighHalf(Padded(lanes, n)) = 0 + Base * (0 + Base * (0 + Base * 0))
      BY <2>1 DEF Padded, Lane, HighHalf
    <3>3. HighHalf(Padded(lanes, n)) = 0
      BY <3>2, Moduli
    <3> QED
      BY <3>1, <3>3 DEF Value
  <2>6. Value(wide) = low + HALF * (one + Base * (one + Base * (one + Base * one)))
    <3>1. LowHalf(wide) = low
      BY DEF Lane, LowHalf, Four
    <3>2. HighHalf(wide) = one + Base * (one + Base * (one + Base * one))
      BY DEF Lane, HighHalf
    <3> QED
      BY <3>1, <3>2 DEF Value
  <2>7. sign <=> low >= HALF \div 2
    BY <1>3, <2>1, <2>4
  <2> HIDE DEF low
  <2>8. Value(Padded(lanes, n)) = low /\ low % HALF = low
    BY <2>4, <2>5, Moduli
  <2>9. SignExtendU32(Value(Padded(lanes, n)))
          = IF low >= HALF \div 2 THEN low + (XMOD - HALF) ELSE low
    BY <2>8 DEF SignExtendU32
  <2>10. CASE sign
    <3>1. Value(wide) = low + (XMOD - HALF)
      BY <2>6, <2>10, OnesAbove
    <3> QED
      BY <1>1, <1>3, <2>1, <2>7, <2>9, <2>10, <3>1
  <2>11. CASE ~sign
    <3>1. HALF * (0 + Base * (0 + Base * (0 + Base * 0))) = 0
      BY Moduli
    <3>2. Value(wide) = low
      BY <2>4, <2>6, <2>11, <3>1
    <3> QED
      BY <1>1, <1>3, <2>1, <2>7, <2>9, <2>11, <3>2
  <2> QED
    BY <2>10, <2>11
<1> QED
  BY <1>2, <1>3

------------------------------------------------------------------------------
\* What the bus carries for a load or a store in flight.

\* An instruction without the bugs of its handler: a jalr does not jump through its
\* own link register, a load of several bytes does not write its own base register
\* (its first call writes zero there, before the second byte is asked for), and only
\* words are extended with a sign.
Regular(i) ==
    /\ i.kind = "jalr" => i.rd # i.rs1 \/ i.rd = 0
    /\ i.kind = "load" /\ i.len > 1 => i.rd # i.rs1 \/ i.rd = 0
    /\ i.kind = "load" /\ i.sext => i.len = 4

\* The handler called next, if one is, is called for such an instruction.
ExecutesRegular == at = "decide" /\ ins # HALT_MAGIC => Regular(Cur)

\* x0 is never written.
ZeroReg == regs[0] = 0

\* A load has asked for the byte after those it has; the lanes it has not are clear,
\* and the byte is on readdata as soon as the bus has been stepped.
LoadLine ==
    Accessing("load") =>
        /\ \A k \in Lane : k >= rdOff - 1 => loaded[k] = 0
        /\ Cur.len > 1 => bus.address = Wrap(Effective + (rdOff - 1))
        /\ at = "decide" /\ bus.address \in Mapped => bus.readdata = mem[bus.address]

\* A store has one lane on the bus, and the last of them when it has ended.
StoreLine ==
    /\ at = "stepBus" /\ Cur.kind = "store" =>
           /\ wrOff \in 1..Cur.len /\ bus.memwrite
           /\ DrivesLane(wrOff - 1)
           /\ ~stall => wrOff = Cur.len
    /\ Accessing("store") => bus.address = Wrap(Effective + (wrOff - 1))

IsaInv == BusInv /\ ZeroReg /\ LoadLine /\ StoreLine

\* The program counter is not x0.
LEMMA ZeroIndex == 0 \in Reg /\ 0 \in 0..PC /\ PC # 0
BY NRegAssumption DEF Reg, PC

\* SetReg writes one register and not x0.
LEMMA SetRegAt ==
    ASSUME NEW r \in RegFile, NEW i \in Reg, NEW value \in Word, NEW j \in 0..PC
    PROVE  SetReg(r, i, value)[j] = IF j = i /\ i # 0 THEN value ELSE r[j]
BY RegIndices DEF SetReg, RegFile

\* Advance changes no register but the pc.
LEMMA AdvanceAt ==
    ASSUME NEW r \in RegFile, NEW jumped, Advance(r, jumped), NEW j \in Reg
    PROVE  regs'[j] = r[j]
BY RegIndices DEF Advance, RegFile

\* An instruction that uses no bus.
LEMMA RegisterStepLines ==
    ASSUME IsaInv, NEW kinds, Executing(kinds), "load" \notin kinds, "store" \notin kinds,
           NEW r \in RegFile, r[0] = 0, NEW jumped, UNCHANGED stall, Advance(r, jumped),
           at' = "stepBus", UNCHANGED <<bus, mem, rdOff, wrOff, ins, loaded>>
    PROVE  ZeroReg' /\ LoadLine' /\ StoreLine'
<1>1. stall = FALSE /\ at = "decide" /\ Cur.kind \in kinds
  BY NoStall DEF IsaInv, BusInv, Executing
<1>2. Cur' = Cur /\ stall' = FALSE
  BY <1>1 DEF Cur
<1>3. regs'[0] = 0
  BY ZeroIndex, AdvanceAt
<1>4. ~Accessing("load")' /\ ~Accessing("store")' /\ Cur'.kind # "store"
  BY <1>1, <1>2 DEF Accessing
<1> QED
  BY <1>3, <1>4 DEF ZeroReg, LoadLine, StoreLine

\* One call of a load handler.
LEMMA LoadCall ==
    ASSUME IsaInv, ExecLoad
    PROVE  /\ at = "decide" /\ at' = "stepBus" /\ Cur.kind = "load"
           /\ Cur' = Cur /\ ins' = ins /\ mem' = mem /\ wrOff' = wrOff
           /\ stall \in BOOLEAN /\ (stall => rdOff \in 1..Cur.len)
           /\ bus'.address = IF stall THEN Wrap(Effective + rdOff) ELSE Effective
           /\ bus'.readdata = bus.readdata
           /\ rdOff' = IF stall THEN rdOff + 1 ELSE 1
           /\ stall' = ~(stall /\ rdOff = Cur.len)
           /\ loaded' = Accumulated(loaded) /\ loaded' \in [Lane -> Byte]
           /\ SetReg(regs, Cur.rd, LoadResult(loaded')) \in RegFile
           /\ Advance(SetReg(regs, Cur.rd, LoadResult(loaded')), FALSE)
<1>1. TypeOK /\ StallHasOwner
  BY DEF IsaInv, BusInv, IInv
<1>2. /\ at = "decide" /\ ins # HALT_MAGIC /\ Cur.kind = "load"
      /\ ReadMem(Effective, Cur.len) /\ at' = "stepBus"
      /\ loaded' = Accumulated(loaded)
      /\ Retire(LoadResult(loaded'))
      /\ UNCHANGED <<mem, wrOff, ins>>
  BY DEF ExecLoad, Executing
<1>3. /\ bus'.address = IF stall THEN Wrap(Effective + rdOff) ELSE Effective
      /\ bus'.readdata = bus.readdata
      /\ rdOff' = IF stall THEN rdOff + 1 ELSE 1
      /\ stall' = ~(stall /\ rdOff = Cur.len)
  BY <1>1, <1>2, OperandsInWord, ReadMemType
<1>4. loaded' \in [Lane -> Byte]
  BY <1>1, <1>2, AccumulatedType
<1>5. SetReg(regs, Cur.rd, LoadResult(loaded')) \in RegFile
  BY <1>1, <1>4, CurFields, SetRegType, LoadResultInWord DEF TypeOK, RegFile
<1>6. Advance(SetReg(regs, Cur.rd, LoadResult(loaded')), FALSE)
  <2>1. pcUpdated = FALSE
    BY <1>1 DEF TypeOK, StallHasOwner
  <2> QED
    BY <1>2, <2>1 DEF Retire
<1>7. stall => rdOff \in 1..Cur.len
  BY <1>1, <1>2 DEF StallHasOwner
<1>8. Cur' = Cur /\ stall \in BOOLEAN
  BY <1>1, <1>2 DEF Cur, TypeOK
<1> QED
  BY <1>2, <1>3, <1>4, <1>5, <1>6, <1>7, <1>8

\* A load of several bytes keeps its base register, and with it the range it reads.
LEMMA LoadKeepsBase ==
    ASSUME ExecutesRegular, IsaInv, ExecLoad, Cur.len > 1
    PROVE  Effective' = Effective
<1>1. TypeOK
  BY DEF IsaInv, BusInv, IInv
<1>2. Cur.rd # Cur.rs1 \/ Cur.rd = 0
  <2>1. Regular(Cur)
    BY DEF ExecutesRegular, ExecLoad, Executing
  <2> QED
    BY <2>1, LoadCall DEF Regular
<1>3. regs'[Cur.rs1] = SetReg(regs, Cur.rd, LoadResult(loaded'))[Cur.rs1]
  BY <1>1, LoadCall, CurFields, AdvanceAt
<1>4. regs'[Cur.rs1] = regs[Cur.rs1]
  <2>1. /\ regs \in RegFile /\ Cur.rd \in Reg /\ Cur.rs1 \in 0..PC
        /\ LoadResult(loaded') \in Word
    BY <1>1, CurFields, RegIndices, LoadCall, LoadResultInWord DEF TypeOK, RegFile
  <2> QED
    BY <1>2, <1>3, <2>1, SetRegAt
<1> QED
  BY <1>4, LoadCall DEF Effective, Operand

\* A load's call.
LEMMA LoadLines ==
    ASSUME ExecutesRegular, IsaInv, ExecLoad PROVE ZeroReg' /\ LoadLine' /\ StoreLine'
<1>1. TypeOK
  BY DEF IsaInv, BusInv, IInv
<1>2. regs'[0] = 0
  <2>1. /\ regs \in RegFile /\ Cur.rd \in Reg /\ LoadResult(loaded') \in Word
    BY <1>1, CurFields, LoadCall, LoadResultInWord DEF TypeOK, RegFile
  <2>2. regs'[0] = SetReg(regs, Cur.rd, LoadResult(loaded'))[0]
    BY ZeroIndex, LoadCall, AdvanceAt
  <2> QED
    BY <2>1, <2>2, ZeroIndex, SetRegAt DEF IsaInv, ZeroReg
<1>3. Cur.len \in {1, 2, 4, 8} /\ loaded \in [Lane -> Byte]
  BY <1>1, CurFields DEF TypeOK
<1>4. ASSUME NEW k \in Lane, k >= rdOff' - 1, stall' PROVE loaded'[k] = 0
  <2>1. CASE stall
    <3>0. k >= rdOff - 1 /\ Accessing("load")
      BY <1>3, <1>4, <2>1, LoadCall DEF Accessing, Lane
    <3>1. loaded[k] = 0
      BY <3>0 DEF IsaInv, LoadLine
    <3>2. loaded' = [loaded EXCEPT ![rdOff - 1] = bus.readdata] /\ k # rdOff - 1
      BY <1>4, <2>1, LoadCall DEF Accumulated, Lane
    <3> QED
      BY <1>3, <3>1, <3>2
  <2>2. CASE ~stall
    BY <1>3, <2>2, LoadCall DEF Accumulated
  <2> QED
    BY <2>1, <2>2
<1>5. ASSUME Cur.len > 1, stall' PROVE bus'.address = Wrap(Effective' + (rdOff' - 1))
  <2>1. Effective' = Effective
    BY <1>5, LoadKeepsBase
  <2>2. CASE stall
    BY <2>1, <2>2, LoadCall
  <2>3. CASE ~stall
    <3>1. Effective \in Word /\ Effective + (1 - 1) = Effective
      BY <1>1, OperandsInWord DEF Word
    <3> QED
      BY <2>1, <2>3, <3>1, LoadCall, WrapOfWord
  <2> QED
    BY <2>2, <2>3
<1>6. LoadLine'
  BY <1>4, <1>5, LoadCall DEF LoadLine, Accessing
<1>7. StoreLine'
  BY LoadCall DEF StoreLine, Accessing
<1> QED
  BY <1>2, <1>6, <1>7 DEF ZeroReg

\* One call of a store handler; lane is the byte it puts on the bus.
LEMMA StoreCall ==
    ASSUME IsaInv, ExecStore
    PROVE  /\ at = "decide" /\ at' = "stepBus" /\ Cur.kind = "store"
           /\ Cur' = Cur /\ ins' = ins /\ mem' = mem
           /\ stall \in BOOLEAN /\ (stall => wrOff \in 1..(Cur.len - 1))
           /\ Advance(regs, FALSE)
           /\ \E lane \in 0..(Cur.len - 1) :
                 /\ lane = IF stall THEN wrOff ELSE 0
                 /\ lane \in Lane
                 /\ bus' = [bus EXCEPT !.address = Wrap(Effective + lane),
                                       !.memwrite = TRUE,
                                       !.writedata = ByteOf(regs[Cur.rs2], lane)]
                 /\ wrOff' = lane + 1 /\ stall' = (lane + 1 # Cur.len)
           /\ Effective' = Effective /\ regs'[Cur.rs2] = regs[Cur.rs2]
           /\ regs'[0] = 0
<1>1. TypeOK /\ StallHasOwner /\ regs[0] = 0 /\ regs \in RegFile
  BY DEF IsaInv, BusInv, IInv, ZeroReg, TypeOK, RegFile
<1>2. /\ at = "decide" /\ ins # HALT_MAGIC /\ Cur.kind = "store"
      /\ WriteMem(Effective, Cur.len, regs[Cur.rs2])
      /\ Advance(regs, pcUpdated) /\ at' = "stepBus"
      /\ UNCHANGED <<mem, rdOff, ins, loaded>>
  BY DEF ExecStore, Executing
<1>3. pcUpdated = FALSE /\ stall \in BOOLEAN
  BY <1>1 DEF TypeOK, StallHasOwner
<1>4. stall => wrOff \in 1..(Cur.len - 1)
  BY <1>1, <1>2 DEF StallHasOwner
<1>5. Cur' = Cur
  BY <1>2 DEF Cur
<1> DEFINE lane == IF stall THEN wrOff ELSE 0
<1>6. lane \in 0..(Cur.len - 1) /\ lane \in Lane
  BY <1>1, <1>4, CurFields DEF Lane
<1>7. /\ bus' = [bus EXCEPT !.address = Wrap(Effective + lane),
                            !.memwrite = TRUE,
                            !.writedata = ByteOf(regs[Cur.rs2], lane)]
      /\ wrOff' = lane + 1 /\ stall' = (lane + 1 # Cur.len)
  BY <1>2 DEF WriteMem
<1>8. \A j \in Reg : regs'[j] = regs[j]
  BY <1>1, <1>2, AdvanceAt
<1>9. Effective' = Effective /\ regs'[Cur.rs2] = regs[Cur.rs2] /\ regs'[0] = 0
  BY <1>1, <1>5, <1>8, CurFields, ZeroIndex DEF Effective, Operand
<1> HIDE DEF lane
<1>10. Advance(regs, FALSE)
  BY <1>2, <1>3
<1>11. \E l \in 0..(Cur.len - 1) :
          /\ l = lane /\ l \in Lane
          /\ bus' = [bus EXCEPT !.address = Wrap(Effective + l),
                                !.memwrite = TRUE,
                                !.writedata = ByteOf(regs[Cur.rs2], l)]
          /\ wrOff' = l + 1 /\ stall' = (l + 1 # Cur.len)
  BY <1>6, <1>7
<1> QED
  BY <1>2, <1>3, <1>4, <1>5, <1>9, <1>10, <1>11 DEF lane

\* A store's call.
LEMMA StoreLines == ASSUME IsaInv, ExecStore PROVE ZeroReg' /\ LoadLine' /\ StoreLine'
<1>1. TypeOK
  BY DEF IsaInv, BusInv, IInv
<1>2. PICK l \in 0..(Cur.len - 1) :
        /\ bus' = [bus EXCEPT !.address = Wrap(Effective + l),
                              !.memwrite = TRUE,
                              !.writedata = ByteOf(regs[Cur.rs2], l)]
        /\ wrOff' = l + 1 /\ stall' = (l + 1 # Cur.len)
  BY StoreCall
<1>3. Cur.len \in {1, 2, 4, 8}
  BY <1>1, CurFields
<1>4. /\ wrOff' \in 1..Cur.len /\ wrOff' - 1 = l /\ (~stall' => wrOff' = Cur.len)
  <2>1. ~stall' => l + 1 = Cur.len
    BY <1>2
  <2> QED
    BY <1>2, <1>3, <2>1
<1>5. /\ bus'.memwrite /\ bus'.address = Wrap(Effective' + (wrOff' - 1))
      /\ bus'.writedata = ByteOf(regs'[Cur'.rs2], wrOff' - 1)
  BY <1>1, <1>2, <1>4, StoreCall DEF TypeOK
<1>6. StoreLine'
  BY <1>4, <1>5, StoreCall DEF StoreLine, DrivesLane
<1>7. LoadLine'
  BY StoreCall DEF LoadLine, Accessing
<1> QED
  BY <1>6, <1>7, StoreCall DEF ZeroReg

\* The bus step after an instruction's cycle.
LEMMA StepBusLines == ASSUME IsaInv, StepBus PROVE ZeroReg' /\ LoadLine' /\ StoreLine'
<1>1. TypeOK
  BY DEF IsaInv, BusInv, IInv
<1>2. /\ at = "stepBus" /\ SysbusStep /\ at' = IF stall THEN "decide" ELSE "fetch"
      /\ UNCHANGED <<regs, stall, pcUpdated, rdOff, wrOff, ins, loaded>>
  BY DEF StepBus
<1>3. bus'.address = bus.address /\ Cur' = Cur /\ Effective' = Effective
  BY <1>1, <1>2, SysbusStepType DEF Cur, Effective, Operand
<1>4. bus'.address \in Mapped => bus'.readdata = mem'[bus'.address]
  BY <1>1, <1>2, StepAnswers
<1>5. LoadLine'
  <2> SUFFICES ASSUME Accessing("load")' PROVE LoadLine'
    BY DEF LoadLine
  <2>1. Accessing("load")
    BY <1>2, <1>3 DEF Accessing
  <2> QED
    BY <1>2, <1>3, <1>4, <2>1 DEF IsaInv, LoadLine
<1>6. StoreLine'
  BY <1>2, <1>3 DEF IsaInv, StoreLine, Accessing
<1> QED
  BY <1>2, <1>5, <1>6 DEF IsaInv, ZeroReg

\* Every step keeps what the bus carries.
LEMMA LinesNext ==
    ASSUME ExecutesRegular, IsaInv, [Next]_vars
    PROVE  ZeroReg' /\ LoadLine' /\ StoreLine'
<1>1. TypeOK /\ StallHasOwner /\ regs \in RegFile /\ regs[0] = 0
  BY DEF IsaInv, BusInv, IInv, TypeOK, RegFile, ZeroReg
<1>2. pcUpdated = FALSE
  BY <1>1 DEF TypeOK, StallHasOwner
<1>3. /\ Cur.rd \in Reg /\ Cur.imm \in Word /\ regs[PC] \in Word /\ Operand \in Word
      /\ regs[Cur.rs2] \in Word /\ Cur.fn \in Fn
  <2>1. Cur.rd \in Reg /\ Cur.imm \in Word /\ Cur.fn \in Fn
    BY <1>1, CurFields
  <2> QED BY <1>1, <2>1, OperandsInWord
<1>4. ASSUME NEW value \in Word
      PROVE  SetReg(regs, Cur.rd, value) \in RegFile /\ SetReg(regs, Cur.rd, value)[0] = 0
  <2>1. SetReg(regs, Cur.rd, value) \in RegFile
    BY <1>1, <1>3, <1>4, SetRegType
  <2>2. SetReg(regs, Cur.rd, value)[0] = IF 0 = Cur.rd /\ Cur.rd # 0 THEN value ELSE regs[0]
    BY <1>1, <1>3, <1>4, SetRegAt, ZeroIndex
  <2> QED BY <1>1, <2>1, <2>2
<1>5. \A a, b \in Word : Wrap(a + b) \in Word /\ Wrap(a + 4) \in Word
  BY WrapInWord DEF Word
<1>6. ASSUME NEW r \in RegFile, r[0] = 0, NEW target \in Word
      PROVE  [r EXCEPT ![PC] = target] \in RegFile /\ [r EXCEPT ![PC] = target][0] = 0
  BY <1>6, ZeroIndex DEF RegFile
<1>7. CASE FetchCycle
  BY <1>7 DEF FetchCycle, IsaInv, ZeroReg, LoadLine, StoreLine, Accessing
<1>8. CASE FetchBus
  BY <1>1, <1>8 DEF FetchBus, IsaInv, ZeroReg, LoadLine, StoreLine, Accessing, TypeOK
<1>9. CASE Halt
  BY <1>9 DEF Halt, IsaInv, ZeroReg, LoadLine, StoreLine, Accessing
<1>10. CASE ExecAlu
  <2> DEFINE value == Alu(Cur.fn, Operand, IF Cur.kind = "alui" THEN Cur.imm ELSE regs[Cur.rs2])
  <2>1. value \in Word
    BY <1>3, AluAssumption
  <2>2. Executing({"alu", "alui"}) /\ Advance(SetReg(regs, Cur.rd, value), pcUpdated)
    BY <1>10 DEF ExecAlu, Retire
  <2> HIDE DEF value
  <2> QED
    BY <1>4, <1>10, <2>1, <2>2, RegisterStepLines DEF ExecAlu
<1>11. CASE ExecUpper
  <2> DEFINE value == IF Cur.kind = "lui" THEN Cur.imm ELSE Wrap(Cur.imm + regs[PC])
  <2>1. value \in Word
    BY <1>3, <1>5
  <2>2. Executing({"lui", "auipc"}) /\ Advance(SetReg(regs, Cur.rd, value), pcUpdated)
    BY <1>11 DEF ExecUpper, Retire
  <2> HIDE DEF value
  <2> QED
    BY <1>4, <1>11, <2>1, <2>2, RegisterStepLines DEF ExecUpper
<1>12. CASE ExecJal
  <2> DEFINE linked == SetReg(regs, Cur.rd, Wrap(regs[PC] + 4))
             target == Wrap(linked[PC] + Cur.imm)
  <2>1. linked \in RegFile /\ linked[0] = 0
    BY <1>3, <1>4, <1>5
  <2>2. Executing({"jal"}) /\ Advance([linked EXCEPT ![PC] = target], TRUE)
    BY <1>12 DEF ExecJal
  <2> HIDE DEF linked
  <2>3. target \in Word
    BY <1>3, <1>5, <2>1, RegIndices DEF RegFile
  <2> HIDE DEF target
  <2> QED
    BY <1>6, <1>12, <2>1, <2>2, <2>3, RegisterStepLines DEF ExecJal
<1>13. CASE ExecJalr
  <2> DEFINE linked == SetReg(regs, Cur.rd, Wrap(regs[PC] + 4))
             target == JalrTarget(linked)
  <2>1. linked \in RegFile /\ linked[0] = 0
    BY <1>3, <1>4, <1>5
  <2>2. Executing({"jalr"}) /\ Advance([linked EXCEPT ![PC] = target], TRUE)
    BY <1>13 DEF ExecJalr
  <2> HIDE DEF linked
  <2>3. target \in Word
    <3>1. linked[Cur.rs1] \in Word
      BY <1>1, <2>1, CurFields, RegIndices DEF RegFile
    <3>2. Wrap(linked[Cur.rs1] + Cur.imm) \in Word
      BY <1>3, <1>5, <3>1
    <3>3. \A n \in Word : n - (n % 2) \in Word
      BY Moduli DEF Word
    <3> QED
      BY <3>2, <3>3 DEF JalrTarget
  <2> HIDE DEF target
  <2> QED
    BY <1>6, <1>13, <2>1, <2>2, <2>3, RegisterStepLines DEF ExecJalr
<1>14. CASE ExecBranch
  <2> DEFINE target == Wrap(regs[PC] + Cur.imm)
  <2>1. Executing({"branch"})
    BY <1>14 DEF ExecBranch
  <2>2. target \in Word
    BY <1>3, <1>5
  <2>3. Advance([regs EXCEPT ![PC] = target], TRUE) \/ Advance(regs, pcUpdated)
    BY <1>14 DEF ExecBranch
  <2> HIDE DEF target
  <2>4. [regs EXCEPT ![PC] = target] \in RegFile /\ [regs EXCEPT ![PC] = target][0] = 0
    BY <1>1, <1>6, <2>2
  <2> QED
    BY <1>1, <1>14, <2>1, <2>3, <2>4, RegisterStepLines DEF ExecBranch
<1>15. CASE ExecLoad
  BY <1>15, LoadLines
<1>16. CASE ExecStore
  BY <1>16, StoreLines
<1>17. CASE ExecIllegal
  BY <1>17 DEF ExecIllegal, IsaInv, ZeroReg, LoadLine, StoreLine, Accessing
<1>18. CASE StepBus
  BY <1>18, StepBusLines
<1>19. CASE UNCHANGED vars
  <2>1. Cur' = Cur /\ Effective' = Effective
    BY <1>19 DEF vars, Cur, Effective, Operand
  <2> QED
    BY <1>19, <2>1 DEF vars, IsaInv, ZeroReg, LoadLine, StoreLine, Accessing, DrivesLane
<1>20. CASE Done
  BY <1>19, <1>20 DEF Done
<1> QED
  BY <1>7, <1>8, <1>9, <1>10, <1>11, <1>12, <1>13, <1>14, <1>15, <1>16, <1>17, <1>18, <1>19,
     <1>20 DEF Next

\* The invariant of a run that executes regular instructions.
LEMMA IsaInvariant == Spec /\ []ExecutesRegular => []IsaInv
<1>1. Init => IsaInv
  <2> SUFFICES ASSUME Init PROVE IsaInv
    OBVIOUS
  <2>1. BusInv
    BY InitIInv DEF BusInv, Init, WriteLine, FetchLine
  <2>2. ZeroReg
    BY ZeroIndex DEF Init, ZeroReg
  <2> QED
    BY <2>1, <2>2 DEF Init, IsaInv, LoadLine, StoreLine, Accessing
<1>2. ExecutesRegular /\ IsaInv /\ [Next]_vars => IsaInv'
  BY NextIInv, NextBus, LinesNext DEF IsaInv, BusInv
<1> QED
  BY <1>1, <1>2, PTL DEF Spec

------------------------------------------------------------------------------
\* The cycles that mean an instruction, and those that mean nothing.

\* No access is in flight.
Idle == ~stall /\ ~(at = "stepBus" /\ Cur.kind = "store")

\* Without an access in flight the mapping shows the machine itself ...
LEMMA ViewIdle == TypeOK /\ Idle => IsaRegs = regs /\ IsaMem = mem
BY DEF TypeOK, Idle, IsaRegs, IsaMem, Accessing, PendingAt, Pending

\* ... after a step too.
LEMMA ViewIdleNext == (TypeOK /\ Idle)' => (IsaRegs = regs /\ IsaMem = mem)'
BY ViewIdle, PTL

\* A fetch shows nothing either.
LEMMA ViewFetch ==
    TypeOK /\ at \in {"fetch", "fetchBus", "halted", "exited"}
      => IsaRegs = regs /\ IsaMem = mem
BY DEF TypeOK, IsaRegs, IsaMem, Accessing, PendingAt, Pending

\* The same after a step.
LEMMA ViewFetchNext ==
    (TypeOK /\ at \in {"fetch", "fetchBus", "halted", "exited"})'
      => (IsaRegs = regs /\ IsaMem = mem)'
BY ViewFetch, PTL

\* The status moves only when the loop is left.
LEMMA StatusRunning ==
    /\ at \notin {"halted", "exited"} => IsaStatus = "running"
    /\ at' \notin {"halted", "exited"} => IsaStatus' = "running"
BY DEF IsaStatus

\* A step the mapping does not show.
Stutters == UNCHANGED <<IsaRegs, IsaMem, IsaStatus>>

\* Fetching is invisible.
LEMMA FetchStutters == ASSUME IsaInv, IsaInv', FetchCycle \/ FetchBus PROVE Stutters
<1>1. TypeOK /\ TypeOK'
  BY DEF IsaInv, BusInv, IInv
<1>2. /\ at \in {"fetch", "fetchBus"} /\ at' \in {"fetch", "fetchBus", "decide"}
      /\ regs' = regs /\ (at' = "decide" => ~stall')
  BY DEF FetchCycle, FetchBus
<1>3. mem' = mem
  <2>1. CASE FetchCycle
    BY <2>1 DEF FetchCycle
  <2>2. CASE FetchBus
    BY <1>1, <2>2, ReadKeepsMem DEF FetchBus, IsaInv, BusInv, WriteLine
  <2> QED
    BY <2>1, <2>2
<1>4. IsaRegs = regs /\ IsaMem = mem
  BY <1>1, <1>2, ViewFetch
<1>5. IsaRegs' = regs' /\ IsaMem' = mem'
  BY <1>1, <1>2, ViewFetchNext, ViewIdleNext DEF Idle
<1> QED
  BY <1>2, <1>3, <1>4, <1>5, StatusRunning DEF Stutters

\* At the start of an instruction current_instruction is a word the manual's machine
\* can read at the pc.
LEMMA WordRead ==
    ASSUME IsaInv, at = "decide", ~stall
    PROVE  /\ IsaRegs = regs /\ IsaMem = mem /\ IsaStatus = "running"
           /\ ins \in Arch!Readable(Arch!pc, 4)
<1>1. TypeOK /\ \A k \in InsLane : Fetched(k)
  BY DEF IsaInv, BusInv, IInv, FetchLine
<1>2. IsaRegs = regs /\ IsaMem = mem /\ IsaStatus = "running"
  BY <1>1, ViewIdle, StatusRunning DEF Idle
<1>3. ins \in [0..(4 - 1) -> Arch!Byte]
  BY <1>1, ArchWords DEF TypeOK, InsLane
<1>4. ASSUME NEW k \in 0..(4 - 1), Arch!Wrap(Arch!pc + k) \in Mapped
      PROVE  ins[k] = IsaMem[Arch!Wrap(Arch!pc + k)]
  <2>1. Arch!pc = regs[PC]
    BY <1>2, ArchWords DEF Arch!pc
  <2>2. Fetched(k)
    BY <1>1 DEF InsLane
  <2> QED
    BY <1>2, <1>4, <2>1, <2>2, ArchWords DEF Fetched
<1>5. ins \in Arch!Readable(Arch!pc, 4)
  BY <1>3, <1>4 DEF Arch!Readable
<1> QED
  BY <1>2, <1>5

\* A step whose effect is that of the instruction in current_instruction.
LEMMA Executes ==
    ASSUME IsaInv, at = "decide", ~stall, ins # HALT_MAGIC, Cur.kind # "illegal",
           at' = "stepBus",
           \/ Arch!Arith(Cur) \/ Arch!Upper(Cur) \/ Arch!Jump(Cur) \/ Arch!Branch(Cur)
           \/ Arch!Load(Cur) \/ Arch!Store(Cur)
    PROVE  Arch!Instruction
<1>1. ins \in Arch!Readable(Arch!pc, 4) /\ IsaStatus = "running" /\ IsaStatus' = "running"
  BY WordRead, StatusRunning
<1> QED
  BY <1>1, ArchWords DEF Arch!Instruction, Cur

\* The registers after an instruction, in the words of the handlers.
LEMMA AfterIs ==
    ASSUME IsaRegs = regs, regs \in RegFile, regs[0] = 0, NEW rd \in Reg, NEW value \in Word,
           NEW target \in Int
    PROVE  Arch!After(rd, value, target) = [SetReg(regs, rd, value) EXCEPT ![PC] = Wrap(target)]
<1> DEFINE new == [SetReg(regs, rd, value) EXCEPT ![PC] = Wrap(target)]
           old == Arch!After(rd, value, target)
<1>1. SetReg(regs, rd, value) \in RegFile /\ Wrap(target) \in Word
  BY SetRegType, WrapInWord
<1>2. new \in RegFile
  BY <1>1 DEF RegFile
<1>3. old = [r \in 0..PC |-> CASE r = PC -> Wrap(target)
                               [] r = 0 -> 0
                               [] r = rd /\ r # 0 /\ r # PC -> value
                               [] OTHER -> regs[r]]
  BY ArchWords DEF Arch!After
<1> HIDE DEF old
<1>4. ASSUME NEW r \in 0..PC PROVE new[r] = old[r]
  <2>1. CASE r = PC
    <3>1. old[r] = Wrap(target)
      BY <1>3, <2>1, ZeroIndex
    <3> QED
      BY <1>1, <2>1, <3>1, RegIndices DEF RegFile
  <2>2. CASE r # PC
    <3>1. new[r] = SetReg(regs, rd, value)[r]
      BY <1>1, <2>2 DEF RegFile
    <3>2. new[r] = IF r = rd /\ rd # 0 THEN value ELSE regs[r]
      BY <3>1, SetRegAt
    <3>3. CASE r = 0
      <4>1. old[r] = 0
        BY <1>3, <2>2, <3>3
      <4> QED
        BY <3>2, <3>3, <4>1
    <3>4. CASE r # 0
      BY <1>3, <2>2, <3>2, <3>4
    <3> QED
      BY <3>3, <3>4
  <2> QED
    BY <2>1, <2>2
<1>5. old = new
  BY <1>2, <1>3, <1>4 DEF RegFile
<1> QED
  BY <1>5 DEF old

\* An instruction that uses no bus: the mapping is the identity before and after it.
LEMMA RegisterView ==
    ASSUME IsaInv, IsaInv', NEW kinds, Executing(kinds), "load" \notin kinds,
           "store" \notin kinds, NEW r, NEW jumped \in BOOLEAN, UNCHANGED <<stall, mem, ins>>,
           Advance(r, jumped), at' = "stepBus"
    PROVE  /\ IsaRegs = regs /\ regs \in RegFile /\ regs[0] = 0
           /\ at = "decide" /\ ~stall /\ ins # HALT_MAGIC /\ Cur.kind \in kinds
           /\ pcUpdated = FALSE
           /\ IsaMem' = IsaMem
           /\ IsaRegs' = IF jumped THEN r ELSE [r EXCEPT ![PC] = Wrap(@ + 4)]
<1>1. TypeOK /\ TypeOK' /\ stall = FALSE /\ pcUpdated = FALSE /\ regs[0] = 0
  BY NoStall DEF IsaInv, BusInv, IInv, ZeroReg
<1>2. at = "decide" /\ ins # HALT_MAGIC /\ Cur.kind \in kinds
  BY DEF Executing
<1>3. Idle /\ Idle'
  <2>1. Cur' = Cur /\ stall' = FALSE
    BY <1>1 DEF Cur
  <2> QED
    BY <1>1, <1>2, <2>1 DEF Idle
<1>4. IsaRegs = regs /\ IsaMem = mem /\ IsaRegs' = regs' /\ IsaMem' = mem'
  BY <1>1, <1>3, ViewIdle, ViewIdleNext
<1>5. regs' = IF jumped THEN r ELSE [r EXCEPT ![PC] = Wrap(@ + 4)]
  BY <1>1 DEF Advance
<1> QED
  BY <1>1, <1>2, <1>4, <1>5 DEF TypeOK, RegFile

\* A handler that writes rd and leaves the pc to Advance does what Write says.
LEMMA RetireWrites ==
    ASSUME IsaInv, IsaInv', NEW kinds, Executing(kinds), "load" \notin kinds,
           "store" \notin kinds, NEW value \in Word, UNCHANGED <<stall, mem, ins>>,
           Retire(value), at' = "stepBus"
    PROVE  Arch!Write(Cur, value)
<1>1. TypeOK /\ pcUpdated = FALSE /\ regs \in RegFile
  BY NoStall DEF IsaInv, BusInv, IInv, TypeOK, RegFile
<1>2. Advance(SetReg(regs, Cur.rd, value), FALSE)
  BY <1>1 DEF Retire
<1>3. /\ IsaRegs = regs /\ regs[0] = 0
      /\ IsaRegs' = [SetReg(regs, Cur.rd, value) EXCEPT ![PC] = Wrap(@ + 4)]
  BY <1>2, RegisterView
<1>4. Cur.rd \in Reg /\ regs[PC] + 4 \in Int
  BY <1>1, CurFields, OperandsInWord DEF Word
<1>5. SetReg(regs, Cur.rd, value)[PC] = regs[PC] /\ SetReg(regs, Cur.rd, value) \in RegFile
  BY <1>1, <1>4, RegIndices, SetRegAt, SetRegType
<1>6. IsaRegs' = [SetReg(regs, Cur.rd, value) EXCEPT ![PC] = Wrap(regs[PC] + 4)]
  BY <1>3, <1>5 DEF RegFile
<1>7. Arch!pc + 4 = regs[PC] + 4
  BY <1>3, ArchWords DEF Arch!pc
<1> QED
  BY <1>1, <1>3, <1>4, <1>6, <1>7, AfterIs DEF Arch!Write

\* The arithmetic handlers.
LEMMA AluImplements == ASSUME IsaInv, IsaInv', ExecAlu PROVE Arch!Instruction
<1> DEFINE value == Alu(Cur.fn, Operand, IF Cur.kind = "alui" THEN Cur.imm ELSE regs[Cur.rs2])
<1>1. TypeOK
  BY DEF IsaInv, BusInv, IInv
<1>2. /\ Executing({"alu", "alui"}) /\ Retire(value) /\ at' = "stepBus"
      /\ UNCHANGED <<stall, mem, ins>>
  BY DEF ExecAlu
<1>3. value \in Word
  BY <1>1, CurFields, OperandsInWord, AluAssumption
<1>4. Arch!Write(Cur, value)
  BY <1>2, <1>3, RetireWrites
<1>5. /\ at = "decide" /\ ~stall /\ ins # HALT_MAGIC /\ Cur.kind \in {"alu", "alui"}
      /\ IsaRegs = regs /\ IsaMem' = IsaMem
  BY <1>2, NoStall, RegisterView DEF Retire, IsaInv, BusInv
<1>6. Arch!Arith(Cur)
  BY <1>4, <1>5 DEF Arch!Arith, Operand
<1> QED
  BY <1>2, <1>5, <1>6, Executes

\* execute_lui and execute_auipc.
LEMMA UpperImplements == ASSUME IsaInv, IsaInv', ExecUpper PROVE Arch!Instruction
<1> DEFINE value == IF Cur.kind = "lui" THEN Cur.imm ELSE Wrap(Cur.imm + regs[PC])
<1>1. TypeOK
  BY DEF IsaInv, BusInv, IInv
<1>2. /\ Executing({"lui", "auipc"}) /\ Retire(value) /\ at' = "stepBus"
      /\ UNCHANGED <<stall, mem, ins>>
  BY DEF ExecUpper
<1>3. value \in Word
  <2>1. Cur.imm \in Word /\ Cur.imm + regs[PC] \in Int
    BY <1>1, CurFields, OperandsInWord DEF Word
  <2> QED
    BY <2>1, WrapInWord
<1>4. Arch!Write(Cur, value)
  BY <1>2, <1>3, RetireWrites
<1>5. /\ at = "decide" /\ ~stall /\ ins # HALT_MAGIC /\ Cur.kind \in {"lui", "auipc"}
      /\ IsaRegs = regs /\ IsaMem' = IsaMem
  BY <1>2, NoStall, RegisterView DEF Retire, IsaInv, BusInv
<1>6. Arch!pc = regs[PC]
  BY <1>5, ArchWords DEF Arch!pc
<1>7. Arch!Upper(Cur)
  BY <1>4, <1>5, <1>6, ArchWords DEF Arch!Upper
<1> QED
  BY <1>2, <1>5, <1>7, Executes

\* The registers a jump leaves.
LEMMA JumpRegs ==
    ASSUME IsaInv
    PROVE  LET linked == SetReg(regs, Cur.rd, Wrap(regs[PC] + 4))
           IN  /\ linked \in RegFile /\ linked[PC] = regs[PC]
               /\ Wrap(regs[PC] + 4) \in Word
               /\ Cur.rd # Cur.rs1 \/ Cur.rd = 0 => linked[Cur.rs1] = regs[Cur.rs1]
<1>1. TypeOK /\ regs \in RegFile
  BY DEF IsaInv, BusInv, IInv, TypeOK, RegFile
<1>2. Wrap(regs[PC] + 4) \in Word
  <2>1. regs[PC] + 4 \in Int
    BY <1>1, OperandsInWord DEF Word
  <2> QED
    BY <2>1, WrapInWord
<1>3. Cur.rd \in Reg /\ Cur.rs1 \in 0..PC /\ PC \in 0..PC /\ PC # Cur.rd
  BY <1>1, CurFields, RegIndices
<1> QED
  BY <1>1, <1>2, <1>3, SetRegType, SetRegAt

\* execute_jal.
LEMMA JalImplements == ASSUME IsaInv, IsaInv', ExecJal PROVE Arch!Instruction
<1> DEFINE linked == SetReg(regs, Cur.rd, Wrap(regs[PC] + 4))
           r == [linked EXCEPT ![PC] = Wrap(linked[PC] + Cur.imm)]
<1>1. TypeOK
  BY DEF IsaInv, BusInv, IInv
<1>2. /\ Executing({"jal"}) /\ Advance(r, TRUE) /\ at' = "stepBus"
      /\ UNCHANGED <<stall, mem, ins>>
  BY DEF ExecJal
<1>3. linked[PC] = regs[PC] /\ Wrap(regs[PC] + 4) \in Word
  BY JumpRegs
<1>4. Cur.rd \in Reg /\ regs[PC] + Cur.imm \in Int
  BY <1>1, CurFields, OperandsInWord DEF Word
<1>5. /\ at = "decide" /\ ~stall /\ ins # HALT_MAGIC /\ Cur.kind = "jal"
      /\ IsaRegs = regs /\ regs \in RegFile /\ regs[0] = 0 /\ IsaMem' = IsaMem
      /\ IsaRegs' = r
  <2> HIDE DEF r
  <2>1. /\ at = "decide" /\ ~stall /\ ins # HALT_MAGIC /\ Cur.kind \in {"jal"}
        /\ IsaRegs = regs /\ regs \in RegFile /\ regs[0] = 0 /\ IsaMem' = IsaMem
        /\ IsaRegs' = IF TRUE THEN r ELSE [r EXCEPT ![PC] = Wrap(@ + 4)]
    BY <1>2, RegisterView
  <2> QED
    BY <2>1
<1>6. Arch!pc = regs[PC]
  BY <1>5, ArchWords DEF Arch!pc
<1>7. Arch!After(Cur.rd, Wrap(regs[PC] + 4), regs[PC] + Cur.imm) = r
  BY <1>3, <1>4, <1>5, AfterIs
<1>8. Arch!Jump(Cur)
  BY <1>5, <1>6, <1>7, ArchWords DEF Arch!Jump
<1> QED
  BY <1>2, <1>5, <1>8, Executes

\* execute_jalr, when it does not write the register it jumps through.
LEMMA JalrImplements ==
    ASSUME ExecutesRegular, IsaInv, IsaInv', ExecJalr PROVE Arch!Instruction
<1> DEFINE linked == SetReg(regs, Cur.rd, Wrap(regs[PC] + 4))
           r == [linked EXCEPT ![PC] = JalrTarget(linked)]
           t == Wrap(regs[Cur.rs1] + Cur.imm)
<1>1. TypeOK
  BY DEF IsaInv, BusInv, IInv
<1>2. /\ Executing({"jalr"}) /\ Advance(r, TRUE) /\ at' = "stepBus"
      /\ UNCHANGED <<stall, mem, ins>>
  BY DEF ExecJalr
<1>3. /\ at = "decide" /\ ~stall /\ ins # HALT_MAGIC /\ Cur.kind = "jalr"
      /\ IsaRegs = regs /\ regs \in RegFile /\ regs[0] = 0 /\ IsaMem' = IsaMem
      /\ IsaRegs' = r
  <2> HIDE DEF r
  <2>1. /\ at = "decide" /\ ~stall /\ ins # HALT_MAGIC /\ Cur.kind \in {"jalr"}
        /\ IsaRegs = regs /\ regs \in RegFile /\ regs[0] = 0 /\ IsaMem' = IsaMem
        /\ IsaRegs' = IF TRUE THEN r ELSE [r EXCEPT ![PC] = Wrap(@ + 4)]
    BY <1>2, RegisterView
  <2> QED
    BY <2>1
<1>4. Cur.rd # Cur.rs1 \/ Cur.rd = 0
  BY <1>3 DEF ExecutesRegular, Regular
<1>5. linked[Cur.rs1] = regs[Cur.rs1] /\ Wrap(regs[PC] + 4) \in Word
  BY <1>4, JumpRegs
<1>6. Cur.rd \in Reg /\ t \in Word
  <2>1. regs[Cur.rs1] + Cur.imm \in Int
    BY <1>1, CurFields, OperandsInWord DEF Word, Operand
  <2> QED
    BY <1>1, <2>1, CurFields, WrapInWord
<1>7. JalrTarget(linked) = t - (t % 2)
  BY <1>5 DEF JalrTarget
<1>8. t - (t % 2) \in Int /\ Wrap(t - (t % 2)) = t - (t % 2)
  <2>1. \A n \in Word : n - (n % 2) \in Word
    BY Moduli DEF Word
  <2>2. t - (t % 2) \in Word
    BY <1>6, <2>1
  <2> HIDE DEF t
  <2> QED
    BY <2>2, WrapOfWord DEF Word
<1> HIDE DEF t
<1>9. Arch!After(Cur.rd, Wrap(regs[PC] + 4), t - (t % 2)) = r
  BY <1>3, <1>5, <1>6, <1>7, <1>8, AfterIs
<1>10. Arch!pc = regs[PC]
  BY <1>3, ArchWords DEF Arch!pc
<1>11. Arch!Jump(Cur)
  BY <1>3, <1>9, <1>10, ArchWords DEF Arch!Jump, t
<1> QED
  BY <1>2, <1>3, <1>11, Executes

\* The branch handlers.
LEMMA BranchImplements == ASSUME IsaInv, IsaInv', ExecBranch PROVE Arch!Instruction
<1>1. TypeOK /\ regs \in RegFile
  BY DEF IsaInv, BusInv, IInv, TypeOK, RegFile
<1>2. Executing({"branch"}) /\ at' = "stepBus" /\ UNCHANGED <<stall, mem, ins>>
  BY DEF ExecBranch
<1> DEFINE taken == Taken(Cur.cond, Operand, regs[Cur.rs2])
           r == [regs EXCEPT ![PC] = Wrap(@ + Cur.imm)]
<1>3. IF taken THEN Advance(r, TRUE) ELSE Advance(regs, FALSE)
  <2>1. pcUpdated = FALSE
    BY <1>2, NoStall DEF IsaInv, BusInv
  <2> QED
    BY <2>1 DEF ExecBranch
<1> HIDE DEF taken
<1>4. /\ IsaRegs = regs /\ regs[0] = 0 /\ at = "decide" /\ ~stall /\ ins # HALT_MAGIC
      /\ Cur.kind = "branch" /\ IsaMem' = IsaMem
      /\ IsaRegs' = [regs EXCEPT ![PC] = Wrap(regs[PC] + (IF taken THEN Cur.imm ELSE 4))]
  <2>1. CASE taken
    <3> HIDE DEF r
    <3>1. /\ IsaRegs = regs /\ regs[0] = 0 /\ at = "decide" /\ ~stall /\ ins # HALT_MAGIC
          /\ Cur.kind \in {"branch"} /\ IsaMem' = IsaMem
          /\ IsaRegs' = IF TRUE THEN r ELSE [r EXCEPT ![PC] = Wrap(@ + 4)]
      BY <1>2, <1>3, <2>1, RegisterView
    <3> QED
      BY <1>1, <2>1, <3>1 DEF r, RegFile
  <2>2. CASE ~taken
    <3>1. /\ IsaRegs = regs /\ regs[0] = 0 /\ at = "decide" /\ ~stall /\ ins # HALT_MAGIC
          /\ Cur.kind \in {"branch"} /\ IsaMem' = IsaMem
          /\ IsaRegs' = [regs EXCEPT ![PC] = Wrap(@ + 4)]
      BY <1>2, <1>3, <2>2, RegisterView
    <3> QED
      BY <1>1, <2>2, <3>1 DEF RegFile
  <2> QED
    BY <2>1, <2>2
<1>5. ASSUME NEW d \in Int
      PROVE  Arch!After(0, 0, regs[PC] + d) = [regs EXCEPT ![PC] = Wrap(regs[PC] + d)]
  <2>1. regs[PC] + d \in Int
    BY <1>1, OperandsInWord DEF Word
  <2>2. SetReg(regs, 0, 0) = regs
    BY DEF SetReg
  <2>3. Arch!After(0, 0, regs[PC] + d)
          = [SetReg(regs, 0, 0) EXCEPT ![PC] = Wrap(regs[PC] + d)]
    BY <1>1, <1>4, <2>1, ZeroIndex, ZeroByte, AfterIs
  <2> QED
    BY <2>2, <2>3
<1>6. Cur.imm \in Int /\ 4 \in Int
  BY <1>1, CurFields DEF Word
<1>7. Arch!pc = regs[PC]
  BY <1>4, ArchWords DEF Arch!pc
<1>8. Arch!GoTo(IF taken THEN regs[PC] + Cur.imm ELSE regs[PC] + 4)
  BY <1>4, <1>5, <1>6 DEF Arch!GoTo
<1>9. Arch!Branch(Cur)
  BY <1>4, <1>7, <1>8 DEF Arch!Branch, taken, Operand
<1> QED
  BY <1>2, <1>4, <1>9, Executes

------------------------------------------------------------------------------
\* A load in flight.

\* The address a load reads lane j from, and the lanes up to k that it finds there.
AddressOf(j) == Wrap(bus.address - (rdOff - 1) + j)
AnsweredTo(k) == {j \in (rdOff - 1)..k : AddressOf(j) \in Mapped}

\* Arriving in these words.
LEMMA ArrivingIs ==
    \A k : Arriving(k) = IF AnsweredTo(k) = {} THEN bus.readdata
                         ELSE mem[AddressOf(Max(AnsweredTo(k)))]
BY DEF Arriving, AnsweredTo, AddressOf

\* While a load runs its offset is inside it.
LEMMA LoadOffset ==
    IsaInv /\ Accessing("load")
      => /\ rdOff \in 1..Cur.len /\ Cur.len \in {1, 2, 4, 8} /\ rdOff - 1 \in Lane
         /\ \A k \in Lane : /\ AnsweredTo(k) \in SUBSET Lane
                            /\ AnsweredTo(k) \subseteq (rdOff - 1)..k
<1> SUFFICES ASSUME IsaInv, Accessing("load")
             PROVE  /\ rdOff \in 1..Cur.len /\ Cur.len \in {1, 2, 4, 8} /\ rdOff - 1 \in Lane
                    /\ \A k \in Lane : /\ AnsweredTo(k) \in SUBSET Lane
                                       /\ AnsweredTo(k) \subseteq (rdOff - 1)..k
  OBVIOUS
<1>1. Cur.len \in {1, 2, 4, 8}
  BY CurFields DEF IsaInv, BusInv, IInv
<1>2. rdOff \in 1..Cur.len
  BY DEF IsaInv, BusInv, IInv, StallHasOwner, Accessing
<1>3. rdOff - 1 \in Lane
  BY <1>1, <1>2 DEF Lane
<1> QED
  BY <1>1, <1>2, <1>3 DEF AnsweredTo, Lane

\* A lane some device answers for arrives from memory.
LEMMA ArrivingMapped ==
    IsaInv /\ Accessing("load")
      => \A k \in Lane : k >= rdOff - 1 /\ AddressOf(k) \in Mapped
                           => Arriving(k) = mem[AddressOf(k)]
<1> SUFFICES ASSUME IsaInv, Accessing("load"), NEW k \in Lane, k >= rdOff - 1,
                    AddressOf(k) \in Mapped
             PROVE  Arriving(k) = mem[AddressOf(k)]
  OBVIOUS
<1>1. k \in AnsweredTo(k)
  BY LoadOffset DEF AnsweredTo, Lane
<1>2. AnsweredTo(k) \in SUBSET Lane /\ AnsweredTo(k) \subseteq (rdOff - 1)..k
  BY LoadOffset
<1>3. Max(AnsweredTo(k)) \in AnsweredTo(k) /\ k <= Max(AnsweredTo(k))
  BY <1>1, <1>2, LargestLane
<1>4. Max(AnsweredTo(k)) <= k /\ Max(AnsweredTo(k)) \in Lane
  BY <1>2, <1>3, LoadOffset DEF Lane
<1>5. Max(AnsweredTo(k)) = k
  BY <1>3, <1>4 DEF Lane
<1> QED
  BY <1>1, <1>5, ArrivingIs

\* Lanes in flight are bytes.
LEMMA CompletedType == IsaInv /\ Accessing("load") => Completed \in [Lane -> Byte]
<1> SUFFICES ASSUME IsaInv, Accessing("load"), NEW k \in Lane PROVE Completed[k] \in Byte
  BY DEF Completed
<1>1. TypeOK
  BY DEF IsaInv, BusInv, IInv
<1>2. loaded[k] \in Byte /\ bus.readdata \in Byte /\ 0 \in Byte
  BY <1>1, ZeroByte DEF TypeOK
<1>3. Arriving(k) \in Byte
  <2>1. CASE AnsweredTo(k) = {}
    BY <1>2, <2>1, ArrivingIs
  <2>2. CASE AnsweredTo(k) # {}
    <3>1. Max(AnsweredTo(k)) \in AnsweredTo(k)
      BY <2>2, LoadOffset, LargestLane
    <3>2. AddressOf(Max(AnsweredTo(k))) \in Mapped
      BY <3>1 DEF AnsweredTo
    <3>3. mem[AddressOf(Max(AnsweredTo(k)))] \in Byte
      BY <1>1, <3>2 DEF TypeOK
    <3> QED
      BY <2>2, <3>3, ArrivingIs
  <2> QED
    BY <2>1, <2>2
<1> QED
  BY <1>2, <1>3 DEF Completed

\* What the manual's machine has in the registers while a load is in flight.
LEMMA ViewLoad ==
    IsaInv /\ Accessing("load")
      => /\ IsaRegs = [SetReg(regs, Cur.rd, LoadResult(Completed))
                         EXCEPT ![PC] = Wrap(regs[PC] + 4)]
         /\ IsaMem = mem
<1> SUFFICES ASSUME IsaInv, Accessing("load")
             PROVE  /\ IsaRegs = [SetReg(regs, Cur.rd, LoadResult(Completed))
                                    EXCEPT ![PC] = Wrap(regs[PC] + 4)]
                    /\ IsaMem = mem
  OBVIOUS
<1>1. TypeOK /\ regs \in RegFile
  BY DEF IsaInv, BusInv, IInv, TypeOK, RegFile
<1>2. LoadResult(Completed) \in Word
  BY CompletedType, LoadResultInWord
<1> DEFINE done == SetReg(regs, Cur.rd, LoadResult(Completed))
<1>3. done \in RegFile /\ done[PC] = regs[PC]
  <2>1. Cur.rd \in Reg /\ PC \in 0..PC /\ PC # Cur.rd
    BY <1>1, CurFields, RegIndices
  <2>2. done \in RegFile
    BY <1>1, <1>2, <2>1, SetRegType
  <2> QED
    BY <1>1, <1>2, <2>1, <2>2, SetRegAt
<1>4. IsaRegs = [done EXCEPT ![PC] = Wrap(@ + 4)]
  BY DEF IsaRegs
<1> HIDE DEF done
<1>5. IsaRegs = [done EXCEPT ![PC] = Wrap(regs[PC] + 4)]
  BY <1>3, <1>4 DEF RegFile
<1>6. IsaMem = mem
  BY <1>1 DEF TypeOK, IsaMem, PendingAt, Pending, Accessing
<1> QED
  BY <1>5, <1>6 DEF done

\* The same after a step, as for the two lemmas below.
LEMMA ViewLoadNext ==
    (IsaInv /\ Accessing("load"))'
      => (/\ IsaRegs = [SetReg(regs, Cur.rd, LoadResult(Completed))
                          EXCEPT ![PC] = Wrap(regs[PC] + 4)]
          /\ IsaMem = mem)'
BY ViewLoad, PTL

\* CompletedType after a step.
LEMMA CompletedTypeNext ==
    (IsaInv /\ Accessing("load"))' => (Completed \in [Lane -> Byte])'
BY CompletedType, PTL

\* ArrivingMapped after a step.
LEMMA ArrivingMappedNext ==
    (IsaInv /\ Accessing("load"))'
      => (\A k \in Lane : k >= rdOff - 1 /\ AddressOf(k) \in Mapped
                            => Arriving(k) = mem[AddressOf(k)])'
BY ArrivingMapped, PTL

\* The first call of a load is the load of the manual.
LEMMA LoadImplements ==
    ASSUME Base % 2 = 0, ExecutesRegular, IsaInv, IsaInv', ExecLoad, ~stall
    PROVE  Arch!Instruction
<1>1. TypeOK /\ regs \in RegFile /\ regs[0] = 0
  BY DEF IsaInv, BusInv, IInv, TypeOK, RegFile, ZeroReg
<1>2. /\ at = "decide" /\ at' = "stepBus" /\ Cur.kind = "load" /\ Cur' = Cur /\ mem' = mem
      /\ bus'.address = Effective /\ rdOff' = 1 /\ stall'
      /\ Advance(SetReg(regs, Cur.rd, LoadResult(loaded')), FALSE)
      /\ LoadResult(loaded') \in Word
  BY LoadCall, LoadResultInWord
<1>3. Accessing("load")'
  BY <1>2 DEF Accessing
<1>4. /\ Cur.rd \in Reg /\ Cur.len \in {1, 2, 4, 8} /\ Cur.sext \in BOOLEAN
      /\ regs[Cur.rs1] + Cur.imm \in Int /\ regs[PC] + 4 \in Int
  BY <1>1, CurFields, OperandsInWord DEF Operand, Word
<1> DEFINE n == Cur.len
           base == regs[Cur.rs1] + Cur.imm
           lanes == [k \in 0..(n - 1) |-> Completed'[k]]
<1>5. ASSUME NEW k \in 0..(n - 1)
      PROVE  /\ k \in Lane /\ Completed'[k] = Arriving(k)' /\ Completed'[k] \in Byte
             /\ Wrap(base + k) \in Mapped => Completed'[k] = mem[Wrap(base + k)]
  <2>1. k \in Lane /\ k >= rdOff' - 1
    BY <1>2, <1>4 DEF Lane
  <2>2. Completed'[k] = Arriving(k)'
    BY <1>2, <1>4, <2>1 DEF Completed, Lane
  <2>3. Completed'[k] \in Byte
    BY <1>3, <2>1, CompletedTypeNext
  <2>4. AddressOf(k)' = Wrap(base + k)
    <3>1. AddressOf(k)' = Wrap(Effective - (1 - 1) + k)
      BY <1>2 DEF AddressOf
    <3>2. Effective - (1 - 1) + k = Effective + k
      BY <1>1, OperandsInWord DEF Word
    <3>3. Wrap(Wrap(base) + k) = Wrap(base + k)
      BY <1>4, WrapSum
    <3> QED
      BY <3>1, <3>2, <3>3 DEF Effective, Operand
  <2>5. AddressOf(k)' \in Mapped => Arriving(k)' = mem'[AddressOf(k)']
    BY <1>3, <2>1, ArrivingMappedNext
  <2> QED
    BY <1>2, <2>1, <2>2, <2>3, <2>4, <2>5
<1>6. Completed' = Padded(lanes, n)
  <2>1. ASSUME NEW k \in Lane PROVE Completed'[k] = Padded(lanes, n)[k]
    <3>1. CASE k < n
      BY <1>4, <3>1 DEF Padded, Lane
    <3>2. CASE ~(k < n)
      <4>1. Completed'[k] = 0
        BY <1>2, <1>4, <3>2 DEF Completed, Lane
      <4> QED
        BY <3>2, <4>1 DEF Padded
    <3> QED
      BY <3>1, <3>2
  <2>2. Completed' \in [Lane -> Byte]
    BY <1>3, CompletedTypeNext
  <2>3. Padded(lanes, n) = [k \in Lane |-> Padded(lanes, n)[k]]
    BY DEF Padded
  <2> QED
    BY <2>1, <2>2, <2>3
<1>7. lanes \in [0..(n - 1) -> Byte]
  BY <1>5
<1> HIDE DEF lanes
<1>8. Arch!Extended(lanes, n, Cur.sext) = LoadResult(Completed)'
  <2>1. Cur.sext => n = 4
    BY <1>2 DEF ExecutesRegular, Regular, ExecLoad, Executing
  <2> QED
    BY <1>2, <1>4, <1>6, <1>7, <2>1, ExtendedIsResult DEF LoadResult
<1>9. LoadResult(Completed)' \in Word
  <2>1. Completed' \in [Lane -> Byte]
    BY <1>3, CompletedTypeNext
  <2>2. LoadResult(Completed)' = LoadResult(Completed')
    BY <1>2 DEF LoadResult, Value, LowHalf, HighHalf
  <2> QED
    BY <1>2, <2>1, <2>2, LoadResultInWord
<1> DEFINE value == LoadResult(Completed)'
           early == LoadResult(loaded')
<1>10. regs' = SetReg(regs, Cur.rd, early)
  BY <1>2 DEF Advance
<1> HIDE DEF value, early
<1>11. SetReg(regs', Cur.rd, value) = SetReg(regs, Cur.rd, value) /\ regs'[PC] = regs[PC]
  <2>1. early \in Word /\ value \in Word /\ PC # Cur.rd /\ PC \in 0..PC
    BY <1>2, <1>4, <1>9, RegIndices DEF early, value
  <2>2. regs'[PC] = regs[PC]
    BY <1>1, <1>4, <1>10, <2>1, SetRegAt
  <2> QED
    BY <1>1, <1>10, <2>2 DEF SetReg, RegFile
<1>12. /\ IsaRegs = regs /\ IsaMem = mem /\ IsaMem' = mem'
       /\ IsaRegs' = [SetReg(regs, Cur.rd, value) EXCEPT ![PC] = Wrap(regs[PC] + 4)]
  <2>1. IsaRegs' = [SetReg(regs', Cur.rd, value) EXCEPT ![PC] = Wrap(regs'[PC] + 4)]
    BY <1>2, <1>3, ViewLoadNext DEF SetReg, value
  <2>2. IsaMem' = mem'
    BY <1>3, ViewLoadNext
  <2> QED
    BY <1>2, <1>11, <2>1, <2>2, WordRead
<1>13. Arch!pc = regs[PC]
  BY <1>12, ArchWords DEF Arch!pc
<1>14. Arch!Write(Cur, Arch!Extended(lanes, n, Cur.sext))
  BY <1>1, <1>4, <1>8, <1>9, <1>12, <1>13, AfterIs DEF Arch!Write, value
<1>15. lanes \in Arch!Readable(base, n)
  <2>1. ASSUME NEW k \in 0..(n - 1), Arch!Wrap(base + k) \in Mapped
        PROVE  lanes[k] = IsaMem[Arch!Wrap(base + k)]
    <3>1. Wrap(base + k) \in Mapped
      BY <2>1, ArchWords
    <3>2. lanes[k] = Completed'[k]
      BY DEF lanes
    <3> QED
      BY <1>5, <1>12, <3>1, <3>2, ArchWords
  <2> HIDE DEF n, base
  <2>2. lanes \in [0..(n - 1) -> Arch!Byte]
    BY <1>7, ArchWords
  <2> QED
    BY <2>1, <2>2 DEF Arch!Readable
<1>16. Arch!Load(Cur)
  BY <1>2, <1>12, <1>14, <1>15 DEF Arch!Load
<1> QED
  BY <1>2, <1>16, Executes DEF ExecLoad, Executing

\* The lanes of a load in flight have the addresses of the instruction's range.
LEMMA FlightAddress ==
    IsaInv /\ Accessing("load")
      => /\ AddressOf(rdOff - 1) = bus.address
         /\ Cur.len > 1 => \A j \in Lane : AddressOf(j) = Wrap(Effective + j)
<1> SUFFICES ASSUME IsaInv, Accessing("load")
             PROVE  /\ AddressOf(rdOff - 1) = bus.address
                    /\ Cur.len > 1 => \A j \in Lane : AddressOf(j) = Wrap(Effective + j)
  OBVIOUS
<1>1. TypeOK /\ bus.address \in Word /\ bus.address \in Int /\ Effective \in Int
  BY OperandsInWord DEF IsaInv, BusInv, IInv, TypeOK, Word
<1>2. rdOff \in Int
  BY LoadOffset
<1>3. AddressOf(rdOff - 1) = bus.address
  <2>1. bus.address - (rdOff - 1) + (rdOff - 1) = bus.address
    BY <1>1, <1>2
  <2> QED
    BY <1>1, <2>1, WrapOfWord DEF AddressOf
<1>4. ASSUME Cur.len > 1, NEW j \in Lane PROVE AddressOf(j) = Wrap(Effective + j)
  <2>1. bus.address = Wrap(Effective + (rdOff - 1))
    BY <1>4 DEF IsaInv, LoadLine
  <2>2. /\ Effective + (rdOff - 1) \in Int /\ j - (rdOff - 1) \in Int
        /\ bus.address - (rdOff - 1) + j = bus.address + (j - (rdOff - 1))
        /\ Effective + (rdOff - 1) + (j - (rdOff - 1)) = Effective + j
    BY <1>1, <1>2 DEF Lane
  <2> QED
    BY <2>1, <2>2, WrapSum DEF AddressOf
<1> QED
  BY <1>3, <1>4

\* The same after a step.
LEMMA FlightAddressNext ==
    (IsaInv /\ Accessing("load"))'
      => (/\ AddressOf(rdOff - 1) = bus.address
          /\ Cur.len > 1 => \A j \in Lane : AddressOf(j) = Wrap(Effective + j))'
BY FlightAddress, PTL

\* After its bus step the byte a load asked for last is on readdata.
LEMMA LaneArrived ==
    ASSUME IsaInv, Accessing("load"), at = "decide"
    PROVE  Arriving(rdOff - 1) = bus.readdata
<1>1. rdOff - 1 \in Lane /\ rdOff \in Int
  BY LoadOffset
<1>2. AddressOf(rdOff - 1) = bus.address
  BY FlightAddress
<1>3. CASE bus.address \in Mapped
  BY <1>1, <1>2, <1>3, ArrivingMapped DEF IsaInv, LoadLine
<1>4. CASE bus.address \notin Mapped
  <2>1. AnsweredTo(rdOff - 1) = {}
    BY <1>1, <1>2, <1>4 DEF AnsweredTo
  <2> QED
    BY <2>1, ArrivingIs
<1> QED
  BY <1>3, <1>4

\* The lanes that will still be asked for up to k, as far as the memory answers.
LaterTo(k) == {j \in rdOff..k : AddressOf(j) \in Mapped}

\* A later lane arrives from the last of them, or like the lane before it.
LEMMA LaneLater ==
    ASSUME IsaInv, Accessing("load"), NEW k \in Lane, k >= rdOff
    PROVE  Arriving(k) = IF LaterTo(k) = {} THEN Arriving(rdOff - 1)
                         ELSE mem[AddressOf(Max(LaterTo(k)))]
<1> DEFINE later == LaterTo(k)
<1>1. rdOff \in 1..8 /\ rdOff - 1 \in Lane /\ k \in 0..7
  BY LoadOffset DEF Lane
<1>2. later \in SUBSET Lane /\ AnsweredTo(k) \in SUBSET Lane
  BY <1>1, LoadOffset DEF Lane, LaterTo
<1>3. AnsweredTo(k) = AnsweredTo(rdOff - 1) \cup later
  BY <1>1 DEF AnsweredTo, LaterTo
<1>4. \A j \in AnsweredTo(rdOff - 1) : j = rdOff - 1
  BY <1>1 DEF AnsweredTo
<1>5. \A j \in later : j >= rdOff
  BY <1>1 DEF LaterTo
<1> HIDE DEF later
<1>6. CASE later = {}
  <2>1. AnsweredTo(k) = AnsweredTo(rdOff - 1)
    BY <1>3, <1>6
  <2> QED
    BY <1>6, <2>1, ArrivingIs DEF later
<1>7. CASE later # {}
  <2>1. Max(later) \in later /\ \A j \in later : j <= Max(later)
    BY <1>2, <1>7, LargestLane
  <2>2. /\ Max(AnsweredTo(k)) \in AnsweredTo(k)
        /\ \A j \in AnsweredTo(k) : j <= Max(AnsweredTo(k))
    BY <1>2, <1>3, <1>7, LargestLane
  <2>3. Max(AnsweredTo(k)) >= rdOff /\ Max(AnsweredTo(k)) \in later
    <3>1. Max(later) <= Max(AnsweredTo(k)) /\ rdOff <= Max(later)
      BY <1>3, <1>5, <2>1, <2>2
    <3>2. Max(AnsweredTo(k)) \in 0..7 /\ Max(later) \in 0..7
      BY <1>2, <2>1, <2>2 DEF Lane
    <3>3. Max(AnsweredTo(k)) # rdOff - 1
      BY <1>1, <3>1, <3>2
    <3> QED
      BY <1>1, <1>3, <1>4, <2>2, <3>1, <3>2, <3>3
  <2>4. Max(AnsweredTo(k)) = Max(later)
    <3>1. Max(AnsweredTo(k)) \in 0..7 /\ Max(later) \in 0..7
      BY <1>2, <2>1, <2>2 DEF Lane
    <3> QED
      BY <1>3, <2>1, <2>2, <2>3, <3>1
  <2>5. AnsweredTo(k) # {}
    BY <1>3, <1>7
  <2> QED
    BY <1>7, <2>4, <2>5, ArrivingIs DEF later
<1> QED
  BY <1>6, <1>7 DEF later

\* A call of a load that is not its first is invisible: the load was done already.
LEMMA LoadStutters ==
    ASSUME ExecutesRegular, IsaInv, IsaInv', ExecLoad, stall PROVE Stutters
<1> DEFINE o == rdOff
           final == SetReg(regs, Cur.rd, LoadResult(Completed))
<1>1. TypeOK /\ TypeOK' /\ regs \in RegFile
  BY DEF IsaInv, BusInv, IInv, TypeOK, RegFile
<1>2. /\ at = "decide" /\ at' = "stepBus" /\ Cur.kind = "load" /\ Cur' = Cur /\ mem' = mem
      /\ bus'.address = Wrap(Effective + o) /\ bus'.readdata = bus.readdata
      /\ rdOff' = o + 1 /\ stall' = (o # Cur.len)
      /\ Advance(SetReg(regs, Cur.rd, LoadResult(loaded')), FALSE)
      /\ loaded' = [loaded EXCEPT ![o - 1] = bus.readdata]
      /\ LoadResult(loaded') \in Word
  BY LoadCall, LoadResultInWord DEF Accumulated
<1>3. Accessing("load")
  BY <1>2 DEF Accessing
<1>4. /\ o \in 1..Cur.len /\ Cur.len \in {1, 2, 4, 8} /\ o - 1 \in Lane
      /\ Cur.rd \in Reg /\ loaded \in [Lane -> Byte]
  BY <1>1, <1>3, LoadOffset, CurFields DEF TypeOK
<1>5. ASSUME NEW k \in Lane, k < o PROVE loaded'[k] = Completed[k]
  <2>1. CASE k = o - 1
    <3>1. Completed[k] = Arriving(o - 1)
      BY <1>4, <2>1 DEF Completed, Lane
    <3> QED
      BY <1>2, <1>3, <1>4, <2>1, <3>1, LaneArrived
  <2>2. CASE k # o - 1
    <3>1. k < o - 1
      BY <1>4, <1>5, <2>2 DEF Lane
    <3> QED
      BY <1>2, <1>4, <2>2, <3>1 DEF Completed
  <2> QED
    BY <2>1, <2>2
<1>6. CASE ~stall'
  <2>1. o = Cur.len
    BY <1>2, <1>6
  <2>2. ASSUME NEW k \in Lane PROVE loaded'[k] = Completed[k]
    <3>1. CASE k >= o
      <4>1. Completed[k] = 0
        BY <1>4, <2>1, <3>1 DEF Completed, Lane
      <4>2. loaded[k] = 0 /\ k # o - 1
        BY <1>3, <1>4, <3>1 DEF IsaInv, LoadLine, Lane
      <4> QED
        BY <1>2, <1>4, <4>1, <4>2
    <3> QED
      BY <1>4, <1>5, <3>1 DEF Lane
  <2>3. loaded' = Completed
    BY <1>1, <1>3, <2>2, CompletedType DEF TypeOK
  <2>4. regs' = [final EXCEPT ![PC] = Wrap(@ + 4)]
    BY <1>2, <1>6, <2>3 DEF Advance
  <2>5. IsaRegs = [final EXCEPT ![PC] = Wrap(@ + 4)] /\ IsaMem = mem
    BY <1>3, ViewLoad DEF IsaRegs
  <2>6. IsaRegs' = regs' /\ IsaMem' = mem'
    BY <1>1, <1>2, <1>6, ViewIdleNext DEF Idle
  <2> QED
    BY <1>2, <2>4, <2>5, <2>6, StatusRunning DEF Stutters
<1>7. CASE stall'
  <2>1. Accessing("load")' /\ o < Cur.len /\ Cur.len > 1
    <3>1. o # Cur.len
      BY <1>2, <1>7
    <3>2. o < Cur.len /\ Cur.len > 1
      BY <1>4, <3>1
    <3> QED
      BY <1>2, <1>7, <3>2 DEF Accessing
  <2>2. Effective' = Effective
    BY <2>1, LoadKeepsBase
  <2> DEFINE where(j) == Wrap(bus'.address - (rdOff' - 1) + j)
  <2>3. ASSUME NEW j \in Lane PROVE where(j) = AddressOf(j)
    <3>1. AddressOf(j)' = AddressOf(j)
      BY <1>2, <1>3, <2>1, <2>2, FlightAddress, FlightAddressNext
    <3> QED
      BY <3>1 DEF AddressOf
  <2>4. ASSUME NEW k \in Lane, k >= o PROVE Arriving(k)' = Arriving(k)
    <3>0. rdOff' - 1 = o /\ o \in 1..8
      BY <1>2, <1>4
    <3>1. (rdOff' - 1)..k \subseteq Lane /\ rdOff' - 1 = o
      BY <3>0 DEF Lane
    <3> DEFINE answered == {j \in (rdOff' - 1)..k : where(j) \in Mapped}
    <3>2. answered = LaterTo(k)
      BY <2>3, <3>1 DEF LaterTo
    <3>3. Arriving(k)' = IF answered = {} THEN bus'.readdata
                         ELSE mem'[where(Max(answered))]
      BY DEF Arriving
    <3> HIDE DEF answered, where
    <3>4. Arriving(k) = IF LaterTo(k) = {} THEN bus.readdata
                        ELSE mem[AddressOf(Max(LaterTo(k)))]
      BY <1>2, <1>3, <2>4, LaneLater, LaneArrived
    <3>5. LaterTo(k) # {} => Max(LaterTo(k)) \in Lane
      <4>1. LaterTo(k) \in SUBSET Lane
        BY <3>1 DEF LaterTo
      <4> QED
        BY <4>1, LargestLane
    <3> QED
      BY <1>2, <2>3, <3>2, <3>3, <3>4, <3>5
  <2>5. ASSUME NEW k \in Lane PROVE Completed'[k] = Completed[k]
    <3>1. Completed'[k] = IF k < rdOff' - 1 THEN loaded'[k]
                          ELSE IF k < Cur'.len THEN Arriving(k)' ELSE 0
      BY DEF Completed
    <3>2. CASE k < o
      BY <1>2, <1>4, <1>5, <3>1, <3>2
    <3>3. CASE k >= o
      <4>1. Completed[k] = IF k < Cur.len THEN Arriving(k) ELSE 0
        BY <1>4, <3>3 DEF Completed, Lane
      <4> QED
        BY <1>2, <1>4, <2>4, <3>1, <3>3, <4>1 DEF Lane
    <3> QED
      BY <1>4, <3>2, <3>3 DEF Lane
  <2>6. Completed' = Completed
    BY <1>3, <2>1, <2>5, CompletedType, CompletedTypeNext
  <2> DEFINE value == LoadResult(Completed)
  <2>7. IsaRegs' = [SetReg(regs', Cur.rd, value) EXCEPT ![PC] = Wrap(regs'[PC] + 4)]
    <3>1. LoadResult(Completed)' = LoadResult(Completed')
      BY <1>2 DEF LoadResult, Value, LowHalf, HighHalf
    <3> QED
      BY <1>2, <2>1, <2>6, <3>1, ViewLoadNext DEF SetReg
  <2>8. IsaRegs = [SetReg(regs, Cur.rd, value) EXCEPT ![PC] = Wrap(regs[PC] + 4)]
    BY <1>3, ViewLoad
  <2>9. regs' = SetReg(regs, Cur.rd, LoadResult(loaded'))
    BY <1>2, <1>7 DEF Advance
  <2>10. SetReg(regs', Cur.rd, value) = SetReg(regs, Cur.rd, value) /\ regs'[PC] = regs[PC]
    <3>1. value \in Word /\ PC # Cur.rd /\ PC \in 0..PC
      BY <1>3, <1>4, CompletedType, LoadResultInWord, RegIndices
    <3> HIDE DEF value
    <3>2. regs'[PC] = regs[PC]
      BY <1>1, <1>2, <1>4, <2>9, <3>1, SetRegAt
    <3> QED
      BY <1>1, <2>9, <3>2 DEF SetReg, RegFile
  <2>11. IsaMem' = mem' /\ IsaMem = mem
    BY <1>3, <2>1, ViewLoad, ViewLoadNext
  <2> QED
    BY <1>2, <2>7, <2>8, <2>10, <2>11, StatusRunning DEF Stutters
<1> QED
  BY <1>2, <1>6, <1>7

\* The bus step of an instruction that stores nothing is invisible.
LEMMA BusStutters ==
    ASSUME IsaInv, IsaInv', StepBus, Cur.kind # "store" PROVE Stutters
<1>1. TypeOK /\ TypeOK'
  BY DEF IsaInv, BusInv, IInv
<1>2. /\ at = "stepBus" /\ SysbusStep /\ at' = IF stall THEN "decide" ELSE "fetch"
      /\ UNCHANGED <<regs, stall, pcUpdated, rdOff, wrOff, ins, loaded>>
  BY DEF StepBus
<1>3. ~bus.memwrite /\ mem' = mem
  BY <1>1, <1>2, ReadKeepsMem DEF IsaInv, BusInv, WriteLine
<1>4. Cur' = Cur /\ bus'.address = bus.address
  BY <1>1, <1>2, SysbusStepType DEF Cur
<1>5. bus.address \notin Mapped => bus'.readdata = bus.readdata
  BY <1>2 DEF SysbusStep
<1>6. CASE ~stall
  BY <1>1, <1>2, <1>3, <1>6, ViewIdle, ViewFetchNext, StatusRunning DEF Idle, Stutters
<1>7. CASE stall
  <2>1. Accessing("load") /\ Accessing("load")'
    BY <1>2, <1>4, <1>7 DEF IsaInv, BusInv, IInv, StallHasOwner, Accessing
  <2> DEFINE where(j) == Wrap(bus'.address - (rdOff' - 1) + j)
  <2>2. \A j : where(j) = AddressOf(j)
    BY <1>2, <1>4 DEF AddressOf
  <2>3. rdOff - 1 \in Lane /\ AddressOf(rdOff - 1) = bus.address
    BY <2>1, LoadOffset, FlightAddress
  <2>4. ASSUME NEW k \in Lane, k >= rdOff - 1 PROVE Arriving(k)' = Arriving(k)
    <3> DEFINE answered == {j \in (rdOff' - 1)..k : where(j) \in Mapped}
    <3>1. answered = AnsweredTo(k)
      BY <1>2, <2>2 DEF AnsweredTo
    <3>2. Arriving(k)' = IF answered = {} THEN bus'.readdata
                         ELSE mem'[where(Max(answered))]
      BY DEF Arriving
    <3>3. AnsweredTo(k) = {} => bus.address \notin Mapped
      BY <2>3, <2>4 DEF AnsweredTo, Lane
    <3> HIDE DEF answered, where
    <3> QED
      BY <1>3, <1>5, <2>2, <3>1, <3>2, <3>3, ArrivingIs
  <2>5. ASSUME NEW k \in Lane PROVE Completed'[k] = Completed[k]
    <3>1. Completed'[k] = IF k < rdOff' - 1 THEN loaded'[k]
                          ELSE IF k < Cur'.len THEN Arriving(k)' ELSE 0
      BY DEF Completed
    <3>2. Completed[k] = IF k < rdOff - 1 THEN loaded[k]
                         ELSE IF k < Cur.len THEN Arriving(k) ELSE 0
      BY DEF Completed
    <3>3. k < rdOff - 1 \/ k >= rdOff - 1
      BY <2>3 DEF Lane
    <3> QED
      BY <1>2, <1>4, <2>4, <3>1, <3>2, <3>3
  <2>6. Completed' = Completed
    BY <2>1, <2>5, CompletedType, CompletedTypeNext
  <2>7. LoadResult(Completed)' = LoadResult(Completed)
    BY <1>4, <2>6 DEF LoadResult, Value, LowHalf, HighHalf
  <2>8. IsaRegs' = IsaRegs
    BY <1>2, <1>4, <2>1, <2>7, ViewLoad, ViewLoadNext DEF SetReg
  <2>9. IsaMem' = mem' /\ IsaMem = mem
    BY <2>1, ViewLoad, ViewLoadNext
  <2> QED
    BY <1>2, <1>3, <2>8, <2>9, StatusRunning DEF Stutters
<1> QED
  BY <1>1, <1>6, <1>7 DEF TypeOK

------------------------------------------------------------------------------
\* A store in flight.

Storing == Cur.kind = "store" /\ (at = "stepBus" \/ Accessing("store"))

\* The first lane the store has not put into the memory.
FirstPending == IF at = "stepBus" THEN wrOff - 1 ELSE wrOff

\* What the memory looks like once the store's lanes from first on are in it.
Shows(image, first) ==
    /\ image = [a \in Mapped |-> image[a]]
    /\ \A a \in Mapped :
          /\ \A k \in first..(Cur.len - 1) :
                a = Wrap(Effective + k) => image[a] = ByteOf(regs[Cur.rs2], k)
          /\ (\A k \in first..(Cur.len - 1) : a # Wrap(Effective + k)) => image[a] = mem[a]

\* Only one memory looks like that.
LEMMA ShowsOne ==
    ASSUME NEW one, NEW other, NEW first, Shows(one, first), Shows(other, first)
    PROVE  one = other
<1>1. ASSUME NEW a \in Mapped PROVE one[a] = other[a]
  BY DEF Shows
<1>2. one = [a \in Mapped |-> one[a]] /\ other = [a \in Mapped |-> other[a]]
  BY DEF Shows
<1> QED
  BY <1>1, <1>2

\* The lanes of a store are lanes, the pending ones are some of them.
LEMMA StoreLanes ==
    IsaInv /\ Storing
      => /\ Cur.len \in {1, 2, 4, 8} /\ wrOff \in 1..Cur.len /\ Effective \in Int
         /\ FirstPending..(Cur.len - 1) \subseteq Lane
         /\ bus.address = Wrap(Effective + (wrOff - 1))
         /\ Pending = FirstPending..(Cur.len - 1)
<1> SUFFICES ASSUME IsaInv, Storing
             PROVE  /\ Cur.len \in {1, 2, 4, 8} /\ wrOff \in 1..Cur.len /\ Effective \in Int
                    /\ FirstPending..(Cur.len - 1) \subseteq Lane
                    /\ bus.address = Wrap(Effective + (wrOff - 1))
                    /\ Pending = FirstPending..(Cur.len - 1)
  OBVIOUS
<1>1. TypeOK /\ Cur.len \in {1, 2, 4, 8} /\ Effective \in Int
  BY CurFields, OperandsInWord DEF IsaInv, BusInv, IInv, Word
<1>2. wrOff \in 1..Cur.len /\ bus.address = Wrap(Effective + (wrOff - 1))
  <2>1. CASE at = "stepBus"
    BY <2>1 DEF IsaInv, StoreLine, DrivesLane, Storing
  <2>2. CASE Accessing("store") /\ at # "stepBus"
    <3>1. wrOff \in 1..(Cur.len - 1)
      BY <2>2 DEF IsaInv, BusInv, IInv, StallHasOwner, Accessing
    <3> QED
      BY <1>1, <2>2, <3>1 DEF IsaInv, StoreLine
  <2> QED
    BY <2>1, <2>2 DEF Storing
<1>3. FirstPending..(Cur.len - 1) \subseteq Lane
  <2>1. FirstPending \in 0..8
    BY <1>1, <1>2 DEF FirstPending
  <2> QED
    BY <1>1, <2>1 DEF Lane
<1>4. Pending = FirstPending..(Cur.len - 1)
  BY DEF Pending, FirstPending, Storing
<1> QED
  BY <1>1, <1>2, <1>3, <1>4

\* The memory of the manual's machine while a store is in flight.
LEMMA ViewStore ==
    IsaInv /\ Storing
      => /\ Shows(IsaMem, FirstPending)
         /\ IsaRegs = IF stall THEN [regs EXCEPT ![PC] = Wrap(@ + 4)] ELSE regs
<1> SUFFICES ASSUME IsaInv, Storing
             PROVE  /\ Shows(IsaMem, FirstPending)
                    /\ IsaRegs = IF stall THEN [regs EXCEPT ![PC] = Wrap(@ + 4)] ELSE regs
  OBVIOUS
<1> DEFINE lanes == FirstPending..(Cur.len - 1)
<1>1. /\ Cur.len \in {1, 2, 4, 8} /\ wrOff \in 1..Cur.len /\ Effective \in Int
      /\ lanes \subseteq Lane /\ bus.address = Wrap(Effective + (wrOff - 1))
      /\ Pending = lanes
  BY StoreLanes
<1> HIDE DEF lanes
<1>2. ASSUME NEW k \in lanes PROVE Wrap(bus.address - (wrOff - 1) + k) = Wrap(Effective + k)
  <2>1. k \in Int
    BY <1>1 DEF Lane
  <2>2. /\ Effective + (wrOff - 1) \in Int /\ k - (wrOff - 1) \in Int
        /\ Effective + (wrOff - 1) + (k - (wrOff - 1)) = Effective + k
    BY <1>1, <2>1
  <2>3. bus.address - (wrOff - 1) + k = bus.address + (k - (wrOff - 1))
    <3>1. bus.address \in Int
      BY <1>1, <2>2, WrapInWord DEF Word
    <3> QED
      BY <1>1, <2>1, <3>1
  <2> QED
    BY <1>1, <2>2, <2>3, WrapSum
<1>3. \A a : PendingAt(a) = {k \in lanes : a = Wrap(Effective + k)}
  BY <1>1, <1>2 DEF PendingAt
<1>4. ASSUME NEW a \in Mapped, NEW k \in lanes, a = Wrap(Effective + k)
      PROVE  IsaMem[a] = ByteOf(regs[Cur.rs2], k)
  <2>1. k \in PendingAt(a) /\ PendingAt(a) \in SUBSET Lane
    BY <1>1, <1>3, <1>4
  <2>2. Max(PendingAt(a)) \in PendingAt(a)
    BY <2>1, LargestLane
  <2>3. Max(PendingAt(a)) = k
    <3>1. Max(PendingAt(a)) \in lanes /\ a = Wrap(Effective + Max(PendingAt(a)))
      BY <1>3, <2>2
    <3> QED
      BY <1>1, <1>4, <3>1, LanesApart
  <2>4. PendingAt(a) # {}
    BY <2>1
  <2> QED
    BY <2>3, <2>4 DEF IsaMem
<1>5. ASSUME NEW a \in Mapped, \A k \in lanes : a # Wrap(Effective + k)
      PROVE  IsaMem[a] = mem[a]
  <2>1. PendingAt(a) = {}
    BY <1>3, <1>5
  <2> QED
    BY <2>1 DEF IsaMem
<1>6. IsaMem = [a \in Mapped |-> IsaMem[a]]
  BY DEF IsaMem
<1>7. Shows(IsaMem, FirstPending)
  BY <1>4, <1>5, <1>6 DEF Shows, lanes
<1>8. IsaRegs = IF stall THEN [regs EXCEPT ![PC] = Wrap(@ + 4)] ELSE regs
  BY DEF IsaRegs, Accessing, Storing
<1> QED
  BY <1>7, <1>8

\* The same after a step.
LEMMA ViewStoreNext ==
    (IsaInv /\ Storing)'
      => (/\ Shows(IsaMem, FirstPending)
          /\ IsaRegs = IF stall THEN [regs EXCEPT ![PC] = Wrap(@ + 4)] ELSE regs)'
BY ViewStore, PTL

\* The registers do not move while a store runs, and neither does its range.
LEMMA StoreCallView ==
    ASSUME IsaInv, IsaInv', ExecStore
    PROVE  /\ Storing' /\ Shows(IsaMem', IF stall THEN wrOff ELSE 0)
           /\ IsaRegs' = [regs EXCEPT ![PC] = Wrap(@ + 4)]
<1>1. /\ at = "decide" /\ at' = "stepBus" /\ Cur.kind = "store" /\ Cur' = Cur /\ mem' = mem
      /\ Effective' = Effective /\ regs'[Cur.rs2] = regs[Cur.rs2]
      /\ stall \in BOOLEAN /\ Advance(regs, FALSE)
  BY StoreCall
<1>2. wrOff' - 1 = IF stall THEN wrOff ELSE 0
  <2>1. PICK lane \in 0..(Cur.len - 1) : /\ lane = IF stall THEN wrOff ELSE 0
                                         /\ lane \in Lane /\ wrOff' = lane + 1
    BY StoreCall
  <2> QED
    BY <2>1 DEF Lane
<1>3. Storing'
  BY <1>1 DEF Storing
<1>4. FirstPending' = IF stall THEN wrOff ELSE 0
  BY <1>1, <1>2 DEF FirstPending
<1>5. Shows(IsaMem', IF stall THEN wrOff ELSE 0)
  <2>1. Shows(IsaMem, FirstPending)'
    BY <1>3, ViewStoreNext
  <2> QED
    BY <1>1, <1>4, <2>1 DEF Shows
<1>6. IsaRegs' = [regs EXCEPT ![PC] = Wrap(@ + 4)]
  <2>1. IsaRegs' = IF stall' THEN [regs' EXCEPT ![PC] = Wrap(@ + 4)] ELSE regs'
    BY <1>3, ViewStoreNext
  <2> QED
    BY <1>1, <2>1 DEF Advance
<1> QED
  BY <1>3, <1>5, <1>6

\* A call of a store that is not its first is invisible.
LEMMA StoreStutters == ASSUME IsaInv, IsaInv', ExecStore, stall PROVE Stutters
<1>1. at = "decide" /\ at' = "stepBus" /\ Cur.kind = "store"
  BY StoreCall
<1>2. Storing /\ FirstPending = wrOff
  BY <1>1 DEF Storing, Accessing, FirstPending
<1>3. Shows(IsaMem, wrOff) /\ IsaRegs = [regs EXCEPT ![PC] = Wrap(@ + 4)]
  BY <1>2, ViewStore
<1>4. Shows(IsaMem', wrOff) /\ IsaRegs' = [regs EXCEPT ![PC] = Wrap(@ + 4)]
  BY StoreCallView
<1>5. IsaMem' = IsaMem
  BY <1>3, <1>4, ShowsOne
<1> QED
  BY <1>1, <1>3, <1>4, <1>5, StatusRunning DEF Stutters

\* The first call of a store is the store of the manual.
LEMMA StoreImplements ==
    ASSUME IsaInv, IsaInv', ExecStore, ~stall PROVE Arch!Instruction
<1>1. TypeOK /\ regs \in RegFile /\ regs[0] = 0
  BY DEF IsaInv, BusInv, IInv, TypeOK, RegFile, ZeroReg
<1>2. /\ at = "decide" /\ at' = "stepBus" /\ Cur.kind = "store" /\ ins # HALT_MAGIC
  BY StoreCall DEF ExecStore, Executing
<1>3. IsaRegs = regs /\ IsaMem = mem
  BY <1>2, WordRead
<1>4. /\ Cur.len \in {1, 2, 4, 8} /\ regs[Cur.rs1] + Cur.imm \in Int
      /\ regs[PC] \in Int /\ regs[PC] + 4 \in Int
  BY <1>1, CurFields, OperandsInWord DEF Operand, Word
<1> DEFINE n == Cur.len
           base == regs[Cur.rs1] + Cur.imm
           value == regs[Cur.rs2]
           stored == Arch!Stored(base, n, value)
<1>5. \A k \in 0..(n - 1) : k \in Lane /\ Wrap(base + k) = Wrap(Effective + k)
  <2>1. \A k \in 0..(n - 1) : k \in Lane /\ k \in Int
    BY <1>4 DEF Lane
  <2> QED
    BY <1>4, <2>1, WrapSum DEF Effective, Operand
<1>6. stored = [a \in Mapped |->
                  IF \E k \in 0..(n - 1) : a = Wrap(base + k)
                  THEN ByteOf(value, CHOOSE k \in 0..(n - 1) : a = Wrap(base + k))
                  ELSE mem[a]]
  BY <1>3, ArchWords DEF Arch!Stored
<1> HIDE DEF stored, base
<1>7. ASSUME NEW a \in Mapped, NEW k \in 0..(n - 1), a = Wrap(Effective + k)
      PROVE  stored[a] = ByteOf(value, k)
  <2> DEFINE hit == CHOOSE j \in 0..(n - 1) : a = Wrap(base + j)
  <2>1. a = Wrap(base + k)
    BY <1>5, <1>7
  <2>2. hit \in 0..(n - 1) /\ a = Wrap(base + hit)
    BY <2>1
  <2>3. stored[a] = ByteOf(value, hit)
    BY <1>6, <2>1
  <2> HIDE DEF hit
  <2>4. hit = k
    BY <1>4, <1>5, <2>1, <2>2, LanesApart DEF base
  <2> QED
    BY <2>3, <2>4
<1>8. ASSUME NEW a \in Mapped, \A k \in 0..(n - 1) : a # Wrap(Effective + k)
      PROVE  stored[a] = mem[a]
  <2>1. ~\E k \in 0..(n - 1) : a = Wrap(base + k)
    BY <1>5, <1>8
  <2> QED
    BY <1>6, <2>1
<1>9. stored = [a \in Mapped |-> stored[a]]
  BY <1>6
<1>10. Shows(stored, 0)
  BY <1>7, <1>8, <1>9 DEF Shows
<1>11. IsaMem' = stored /\ IsaRegs' = [regs EXCEPT ![PC] = Wrap(@ + 4)]
  <2>1. Shows(IsaMem', 0) /\ IsaRegs' = [regs EXCEPT ![PC] = Wrap(@ + 4)]
    BY StoreCallView
  <2> QED
    BY <1>10, <2>1, ShowsOne
<1>12. Arch!GoTo(Arch!pc + 4)
  <2>1. Arch!pc = regs[PC]
    BY <1>3, ArchWords DEF Arch!pc
  <2>2. SetReg(regs, 0, 0) = regs
    BY DEF SetReg
  <2>3. Arch!After(0, 0, regs[PC] + 4) = [SetReg(regs, 0, 0) EXCEPT ![PC] = Wrap(regs[PC] + 4)]
    BY <1>1, <1>3, <1>4, ZeroIndex, ZeroByte, AfterIs
  <2>4. IsaRegs' = [regs EXCEPT ![PC] = Wrap(regs[PC] + 4)]
    BY <1>1, <1>11 DEF RegFile
  <2> QED
    BY <2>1, <2>2, <2>3, <2>4 DEF Arch!GoTo
<1>13. Arch!Store(Cur)
  BY <1>2, <1>3, <1>11, <1>12 DEF Arch!Store, stored, base
<1> QED
  BY <1>2, <1>13, Executes

\* The bus step of a store puts one lane into the memory that shows them all.
LEMMA StoreBusStutters ==
    ASSUME IsaInv, IsaInv', StepBus, Cur.kind = "store" PROVE Stutters
<1>1. TypeOK /\ TypeOK'
  BY DEF IsaInv, BusInv, IInv
<1>2. /\ at = "stepBus" /\ SysbusStep /\ at' = IF stall THEN "decide" ELSE "fetch"
      /\ UNCHANGED <<regs, stall, pcUpdated, rdOff, wrOff, ins, loaded>>
  BY DEF StepBus
<1>3. Cur' = Cur /\ Effective' = Effective
  BY <1>2 DEF Cur, Effective, Operand
<1>4. Storing /\ FirstPending = wrOff - 1
  BY <1>2 DEF Storing, FirstPending
<1>5. /\ wrOff \in 1..Cur.len /\ Cur.len \in {1, 2, 4, 8} /\ Effective \in Int
      /\ (wrOff - 1)..(Cur.len - 1) \subseteq Lane
      /\ bus.address = Wrap(Effective + (wrOff - 1))
  BY <1>4, StoreLanes
<1>6. bus.memwrite /\ bus.writedata = ByteOf(regs[Cur.rs2], wrOff - 1)
  BY <1>2 DEF IsaInv, StoreLine, DrivesLane
<1>7. Shows(IsaMem, wrOff - 1) /\ IsaRegs = IF stall THEN [regs EXCEPT ![PC] = Wrap(@ + 4)] ELSE regs
  BY <1>4, ViewStore
<1>8. \A a \in Mapped : mem'[a] = IF a = bus.address THEN bus.writedata ELSE mem[a]
  BY <1>1, <1>2, <1>6 DEF SysbusStep, TypeOK
<1>9. /\ IsaMem' = [a \in Mapped |-> IsaMem'[a]]
      /\ \A a \in Mapped :
            /\ \A k \in wrOff..(Cur.len - 1) :
                  a = Wrap(Effective + k) => IsaMem'[a] = ByteOf(regs[Cur.rs2], k)
            /\ (\A k \in wrOff..(Cur.len - 1) : a # Wrap(Effective + k))
                  => IsaMem'[a] = mem'[a]
      /\ IsaRegs' = IF stall THEN [regs EXCEPT ![PC] = Wrap(@ + 4)] ELSE regs
  <2>1. CASE stall
    <3>1. Storing' /\ FirstPending' = wrOff
      BY <1>2, <1>3, <1>4, <2>1 DEF Storing, Accessing, FirstPending
    <3>2. Shows(IsaMem, FirstPending)'
      BY <3>1, ViewStoreNext
    <3>3. IsaRegs' = IF stall' THEN [regs' EXCEPT ![PC] = Wrap(@ + 4)] ELSE regs'
      BY <3>1, ViewStoreNext
    <3> QED
      BY <1>2, <1>3, <3>1, <3>2, <3>3 DEF Shows
  <2>2. CASE ~stall
    <3>1. wrOff..(Cur.len - 1) = {}
      BY <1>2, <1>4, <1>5, <2>2 DEF IsaInv, StoreLine
    <3>2. IsaRegs' = regs' /\ IsaMem' = mem'
      BY <1>1, <1>2, <2>2, ViewFetchNext
    <3> QED
      BY <1>1, <1>2, <2>2, <3>1, <3>2 DEF TypeOK
  <2> QED
    BY <2>1, <2>2
<1>10. ASSUME NEW a \in Mapped, NEW k \in (wrOff - 1)..(Cur.len - 1), a = Wrap(Effective + k)
       PROVE  IsaMem'[a] = ByteOf(regs[Cur.rs2], k)
  <2>1. CASE k = wrOff - 1
    <3>1. \A j \in wrOff..(Cur.len - 1) : a # Wrap(Effective + j)
      <4> SUFFICES ASSUME NEW j \in wrOff..(Cur.len - 1), a = Wrap(Effective + j) PROVE FALSE
        OBVIOUS
      <4>1. j \in (wrOff - 1)..(Cur.len - 1) /\ j # k
        BY <1>5, <2>1
      <4>2. j \in Lane /\ k \in Lane
        BY <1>5, <4>1
      <4> QED
        BY <1>5, <1>10, <4>1, <4>2, LanesApart
    <3>2. mem'[a] = bus.writedata
      BY <1>5, <1>8, <1>10, <2>1
    <3> QED
      BY <1>6, <1>9, <2>1, <3>1, <3>2
  <2>2. CASE k # wrOff - 1
    <3>1. k \in wrOff..(Cur.len - 1)
      BY <1>5, <2>2
    <3> QED
      BY <1>9, <1>10, <3>1
  <2> QED
    BY <2>1, <2>2
<1>11. ASSUME NEW a \in Mapped, \A k \in (wrOff - 1)..(Cur.len - 1) : a # Wrap(Effective + k)
       PROVE  IsaMem'[a] = mem[a]
  <2>1. \A k \in wrOff..(Cur.len - 1) : k \in (wrOff - 1)..(Cur.len - 1)
    BY <1>5
  <2>2. wrOff - 1 \in (wrOff - 1)..(Cur.len - 1)
    BY <1>5
  <2> QED
    BY <1>5, <1>8, <1>9, <1>11, <2>1, <2>2
<1>12. Shows(IsaMem', wrOff - 1)
  BY <1>9, <1>10, <1>11 DEF Shows
<1>13. IsaMem' = IsaMem
  BY <1>7, <1>12, ShowsOne
<1> QED
  BY <1>2, <1>7, <1>9, <1>13, StatusRunning DEF Stutters

------------------------------------------------------------------------------
\* The refinement.

\* Leaving the loop at the all-zero word is the halt of the manual's machine.
LEMMA HaltImplements == ASSUME IsaInv, IsaInv', Halt PROVE Arch!Instruction
<1>1. TypeOK /\ TypeOK'
  BY DEF IsaInv, BusInv, IInv
<1>2. at = "decide" /\ at' = "halted" /\ ins = HALT_MAGIC /\ regs' = regs /\ mem' = mem
  BY DEF Halt
<1>3. ~stall
  BY <1>2 DEF IsaInv, BusInv, IInv, StallHasOwner
<1>4. /\ IsaRegs = regs /\ IsaMem = mem /\ IsaStatus = "running"
      /\ ins \in Arch!Readable(Arch!pc, 4)
  BY <1>2, <1>3, WordRead
<1>5. IsaRegs' = regs' /\ IsaMem' = mem' /\ IsaStatus' = "halted"
  BY <1>1, <1>2, ViewFetchNext DEF IsaStatus
<1>6. ins = Arch!HALT_MAGIC
  BY <1>2, ArchWords
<1> QED
  BY <1>2, <1>4, <1>5, <1>6 DEF Arch!Instruction

\* So is leaving the process at an instruction nobody handles.
LEMMA IllegalImplements == ASSUME IsaInv, IsaInv', ExecIllegal PROVE Arch!Instruction
<1>1. TypeOK /\ TypeOK'
  BY DEF IsaInv, BusInv, IInv
<1>2. /\ at = "decide" /\ at' = "exited" /\ ins # HALT_MAGIC /\ Cur.kind = "illegal"
      /\ regs' = regs /\ mem' = mem
  BY DEF ExecIllegal, Executing
<1>3. ~stall
  BY NoStall DEF IsaInv, BusInv, ExecIllegal
<1>4. /\ IsaRegs = regs /\ IsaMem = mem /\ IsaStatus = "running"
      /\ ins \in Arch!Readable(Arch!pc, 4)
  BY <1>2, <1>3, WordRead
<1>5. IsaRegs' = regs' /\ IsaMem' = mem' /\ IsaStatus' = "illegal"
  BY <1>1, <1>2, ViewFetchNext DEF IsaStatus
<1>6. ins # Arch!HALT_MAGIC
  BY <1>2, ArchWords
<1> QED
  BY <1>2, <1>4, <1>5, <1>6 DEF Arch!Instruction, Cur

\* Every step is an instruction or shows nothing.
LEMMA StepImplements ==
    ASSUME Base % 2 = 0, ExecutesRegular, IsaInv, IsaInv', [Next]_vars
    PROVE  [Arch!Instruction]_(Arch!isaVars)
<1>1. ASSUME Stutters PROVE UNCHANGED Arch!isaVars
  BY <1>1 DEF Stutters, Arch!isaVars
<1>2. CASE UNCHANGED vars
  <2>1. UNCHANGED <<IsaRegs, IsaMem, IsaStatus>>
    BY <1>2 DEF vars, IsaRegs, IsaMem, IsaStatus, Accessing, Cur, Completed, Arriving,
                Pending, PendingAt, SetReg, LoadResult, Value, LowHalf, HighHalf
  <2> QED
    BY <1>1, <2>1 DEF Stutters
<1>3. CASE Done
  BY <1>2, <1>3 DEF Done
<1>4. CASE FetchCycle \/ FetchBus
  BY <1>1, <1>4, FetchStutters
<1>5. CASE Halt
  BY <1>5, HaltImplements
<1>6. CASE ExecAlu
  BY <1>6, AluImplements
<1>7. CASE ExecUpper
  BY <1>7, UpperImplements
<1>8. CASE ExecJal
  BY <1>8, JalImplements
<1>9. CASE ExecJalr
  BY <1>9, JalrImplements
<1>10. CASE ExecBranch
  BY <1>10, BranchImplements
<1>11. CASE ExecLoad
  BY <1>1, <1>11, LoadImplements, LoadStutters
<1>12. CASE ExecStore
  BY <1>1, <1>12, StoreImplements, StoreStutters
<1>13. CASE ExecIllegal
  BY <1>13, IllegalImplements
<1>14. CASE StepBus
  BY <1>1, <1>14, BusStutters, StoreBusStutters
<1> QED
  BY <1>2, <1>3, <1>4, <1>5, <1>6, <1>7, <1>8, <1>9, <1>10, <1>11, <1>12, <1>13, <1>14
     DEF Next

\* The program starts like the manual's machine.
LEMMA InitImplements == Init => Arch!IsaInit
<1> SUFFICES ASSUME Init PROVE Arch!IsaInit
  OBVIOUS
<1>1. TypeOK
  BY InitIInv DEF IInv
<1>2. IsaRegs = regs /\ IsaMem = mem /\ IsaStatus = "running"
  BY <1>1, ViewFetch, StatusRunning DEF Init
<1> QED
  BY <1>2, ArchWords DEF Init, Arch!IsaInit

(***************************************************************************)
(* The cycle-level loop implements the instruction-level machine in every  *)
(* run that executes no instruction the handlers get wrong (a jalr through *)
(* its own link register, a load of several bytes over its own base        *)
(* register, lb and lh), when bytes have a sign bit.  Fetches, loads and   *)
(* stores take their many cycles, with any program and any memory map, and *)
(* each instruction is still seen to happen at once.                       *)
(***************************************************************************)
THEOREM MachineImplementsIsa ==
    ASSUME Base % 2 = 0
    PROVE  Spec /\ []ExecutesRegular => ImplementsIsa
<1>1. Spec /\ []ExecutesRegular => []IsaInv
  BY IsaInvariant
<1>2. ExecutesRegular /\ IsaInv /\ IsaInv' /\ [Next]_vars
        => [Arch!Instruction]_(Arch!isaVars)
  BY StepImplements
<1>3. Init => Arch!IsaInit
  BY InitImplements
<1> QED
  BY <1>1, <1>2, <1>3, PTL DEF Spec, ImplementsIsa, Arch!IsaSpec
=============================================================================
