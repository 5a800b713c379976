--------------------------- MODULE Emulator_proofs ---------------------------
(***************************************************************************)
(* Theorems about the whole emulator: its decoder and its arithmetic are   *)
(* what Machine asks of its parameters, so that the theorems about Machine *)
(* hold for it.  MCDecode's state comes along with the theorems about the  *)
(* decoder and plays no part here.                                         *)
(***************************************************************************)
EXTENDS Emulator, Decode_proofs

M == INSTANCE Machine_proofs
         WITH Base <- 256, NReg <- 32, Fn <- A!AluFn, Cond <- A!AluCond,
              Decode <- Decoded, Alu <- Compute, Taken <- TakesBranch

\* The theorems about the arithmetic; MCAlu's variables play no part here.
P == INSTANCE Alu_proofs WITH XLEN <- 64, x <- 0, y <- 0, result <- 0, taken <- 0

------------------------------------------------------------------------------
\* Sixty-four is a width.

LEMMA PowersOfTwo ==
    /\ A!Pow2[0] = 1
    /\ \A n \in 1..64 : A!Pow2[n] = 2 * A!Pow2[n - 1]
    /\ \A n \in 0..64 : Power(A!Pow2, n)
<1>1. PICK p : IsDoubling(p, 64)
  BY DoublingExists DEF HasDoubling
<1>2. IsDoubling(A!Pow2, 64)
  BY <1>1 DEF A!Pow2, IsDoubling
<1> QED BY <1>2, DoublingIs

LEMMA SamePowers == P!Pow2 = A!Pow2
BY DEF P!Pow2, A!Pow2

LEMMA ByteValues == A!Pow2[6] = 64 /\ A!Pow2[8] = 256
<1>1. A!Pow2[1] = 2 /\ A!Pow2[2] = 4
  BY PowersOfTwo
<1>2. A!Pow2[3] = 8 /\ A!Pow2[4] = 16
  BY <1>1, PowersOfTwo
<1>3. A!Pow2[5] = 32 /\ A!Pow2[6] = 64
  BY <1>2, PowersOfTwo
<1>4. A!Pow2[7] = 128 /\ A!Pow2[8] = 256
  BY <1>3, PowersOfTwo
<1> QED BY <1>3, <1>4

LEMMA Width == P!XlenAssumption
BY SamePowers, ByteValues DEF P!XlenAssumption

\* A word of the machine, eight bytes of 256 values, is one of the arithmetic.
LEMMA SameWords == P!Operands = M!Word
<1>1. \A a, b \in Nat : a + b <= 64 => P!Pow2[a + b] = P!Pow2[a] * P!Pow2[b]
  BY Width, P!PowerSum
<1>2. P!Pow2[16] = 256 * 256
  <2>1. P!Pow2[8 + 8] = P!Pow2[8] * P!Pow2[8]
    BY <1>1
  <2> QED BY <2>1, SamePowers, ByteValues
<1>3. P!Pow2[32] = M!HALF
  <2>1. P!Pow2[16 + 16] = P!Pow2[16] * P!Pow2[16]
    BY <1>1
  <2> QED BY <1>2, <2>1 DEF M!HALF
<1>4. P!Pow2[32 + 32] = P!Pow2[32] * P!Pow2[32]
  BY <1>1
<1>5. P!Pow2[64] = M!XMOD
  BY <1>3, <1>4 DEF M!XMOD, M!HALF
<1> QED BY <1>5 DEF P!Operands, M!Word

\* The functions and conditions of the program, as the theorems about them know them.
LEMMA SameFunctions ==
    /\ P!AluFn = A!AluFn
    /\ \A f \in A!AluFn : \A u, v : P!Compute(f, u, v) = A!Compute(f, u, v)
<1>1. \A u, v : P!BitAnd(u, v) = A!BitAnd(u, v) /\ P!BitOr(u, v) = A!BitOr(u, v)
                  /\ P!BitXor(u, v) = A!BitXor(u, v)
  <2>1. /\ \A v, i : P!BitOf(v, i) = A!BitOf(v, i)
        /\ \A b : P!FromBits(b) = A!FromBits(b)
    BY SamePowers DEF P!BitOf, A!BitOf, P!FromBits, A!FromBits
  <2>2. \A u, v : P!BitAnd(u, v) = A!BitAnd(u, v)
    BY <2>1 DEF P!BitAnd, A!BitAnd
  <2>3. \A u, v : P!BitOr(u, v) = A!BitOr(u, v)
    BY <2>1 DEF P!BitOr, A!BitOr
  <2>4. \A u, v : P!BitXor(u, v) = A!BitXor(u, v)
    BY <2>1 DEF P!BitXor, A!BitXor
  <2> QED BY <2>2, <2>3, <2>4
<1>2. \A v, n, w : P!ShiftArith(v, n, w) = A!ShiftArith(v, n, w)
  BY Zenon DEF P!ShiftArith, A!ShiftArith, P!BitOr, A!BitOr, P!FromBits, A!FromBits,
         P!BitOf, A!BitOf, P!Pow2, A!Pow2
<1>3. \A v : /\ P!Lower(v) = A!Lower(v) /\ P!SignExtend(v) = A!SignExtend(v)
              /\ P!Signed(v) = A!Signed(v) /\ P!Shamt(v) = A!Shamt(v)
              /\ P!ShamtW(v) = A!ShamtW(v)
  BY SamePowers DEF P!Lower, A!Lower, P!SignExtend, A!SignExtend, P!Signed, A!Signed,
         P!Shamt, A!Shamt, P!ShamtW, A!ShamtW, P!H, A!H
<1>4. \A u, v : /\ P!Add(u, v) = A!Add(u, v) /\ P!Sub(u, v) = A!Sub(u, v)
                 /\ P!Slt(u, v) = A!Slt(u, v) /\ P!Sltu(u, v) = A!Sltu(u, v)
                 /\ P!Sll(u, v) = A!Sll(u, v) /\ P!Srl(u, v) = A!Srl(u, v)
                 /\ P!Sra(u, v) = A!Sra(u, v)
  BY <1>2, <1>3, SamePowers DEF P!Add, A!Add, P!Sub, A!Sub, P!Slt, A!Slt, P!Sltu, A!Sltu,
         P!Sll, A!Sll, P!Srl, A!Srl, P!Sra, A!Sra, P!Bit, A!Bit
<1>5. \A u, v : /\ P!Addw(u, v) = A!Addw(u, v) /\ P!Subw(u, v) = A!Subw(u, v)
                 /\ P!Sllw(u, v) = A!Sllw(u, v) /\ P!Srlw(u, v) = A!Srlw(u, v)
                 /\ P!Sraw(u, v) = A!Sraw(u, v)
  BY <1>2, <1>3, SamePowers DEF P!Addw, A!Addw, P!Subw, A!Subw, P!Sllw, A!Sllw,
         P!Srlw, A!Srlw, P!Sraw, A!Sraw, P!H, A!H
<1>6. P!AluFn = A!AluFn
  BY DEF P!AluFn, A!AluFn
<1>7. \A f \in A!AluFn : \A u, v : P!Compute(f, u, v) = A!Compute(f, u, v)
  BY <1>1, <1>4, <1>5 DEF P!Compute, A!Compute, A!AluFn
<1> QED BY <1>6, <1>7

\* What Machine assumes of the arithmetic and of the branch conditions.
LEMMA ArithmeticFits == M!AluAssumption /\ M!TakenAssumption
<1>1. M!AluAssumption
  BY Width, P!ComputesWords, SameFunctions, SameWords DEF M!AluAssumption, Compute
<1>2. M!TakenAssumption
  <2> SUFFICES ASSUME NEW c \in A!AluCond, NEW u, NEW v PROVE A!Holds(c, u, v) \in BOOLEAN
    BY DEF M!TakenAssumption, TakesBranch
  <2>1. /\ A!Holds("eq", u, v) \in BOOLEAN /\ A!Holds("ne", u, v) \in BOOLEAN
        /\ A!Holds("lt", u, v) \in BOOLEAN /\ A!Holds("ge", u, v) \in BOOLEAN
        /\ A!Holds("ltu", u, v) \in BOOLEAN /\ A!Holds("geu", u, v) \in BOOLEAN
    BY DEF A!Holds
  <2> QED BY <2>1 DEF A!AluCond
<1> QED BY <1>1, <1>2

------------------------------------------------------------------------------
\* The decoder gives instructions.

\* Four bytes are the thirty-two bits of a word.
LEMMA InsBits ==
    ASSUME NEW lanes \in [0..3 -> 0..255]
    PROVE  BitsOfIns(lanes) \in AnyWord
<1>1. ASSUME NEW n \in InsBit PROVE (lanes[n \div 8] \div A!Pow2[n % 8]) % 2 \in {0, 1}
  <2>1. n \div 8 \in 0..3 /\ n % 8 \in 0..64
    BY DEF InsBit
  <2>2. lanes[n \div 8] \in Int /\ A!Pow2[n % 8] \in Int /\ A!Pow2[n % 8] > 0
    BY <2>1, PowersOfTwo DEF Power
  <2>3. \A i, p \in Int : p > 0 => (i \div p) % 2 \in {0, 1}
    <3>1. \A i \in Int : i % 2 \in {0, 1}
      OBVIOUS
    <3>2. \A i, p \in Int : p > 0 => i \div p \in Int
      OBVIOUS
    <3> QED BY <3>1, <3>2
  <2> QED BY <2>2, <2>3
<1> QED BY <1>1 DEF BitsOfIns, AnyWord

\* A register field is the number of a register.
LEMMA Extract5 ==
    ASSUME NEW w \in AnyWord, NEW pos \in 0..27
    PROVE  Extract(w, pos, 5) \in 0..31
<1>1. \A k \in 1..5 : w[pos + 5 - k] \in {0, 1}
  BY DEF AnyWord, InsBit
<1>2. PICK top : /\ Extract(w, pos, 5) = top[5]
                 /\ top[0] = 0
                 /\ \A n \in 1..5 : top[n] = 2 * top[n - 1] + w[pos + 5 - n]
  BY <1>1, ExtractUnfolds
<1>3. \A n \in 1..5, t \in Nat :
          top[n - 1] \in 0..t => top[n] \in 0..(2 * t + 1)
  <2> SUFFICES ASSUME NEW n \in 1..5, NEW t \in Nat, top[n - 1] \in 0..t
               PROVE  top[n] \in 0..(2 * t + 1)
    OBVIOUS
  <2>1. w[pos + 5 - n] \in {0, 1} /\ top[n] = 2 * top[n - 1] + w[pos + 5 - n]
    BY <1>1, <1>2
  <2> QED BY <2>1
<1>4. top[1] \in 0..1
  <2>1. top[1 - 1] \in 0..0 /\ 1 \in 1..5
    BY <1>2
  <2>2. top[1] \in 0..(2 * 0 + 1)
    BY <1>3, <2>1
  <2> QED BY <2>2
<1>5. top[2] \in 0..3
  <2>1. top[2 - 1] \in 0..1 /\ 2 \in 1..5
    BY <1>4
  <2>2. top[2] \in 0..(2 * 1 + 1)
    BY <1>3, <2>1
  <2> QED BY <2>2
<1>6. top[3] \in 0..7
  <2>1. top[3 - 1] \in 0..3 /\ 3 \in 1..5
    BY <1>5
  <2>2. top[3] \in 0..(2 * 3 + 1)
    BY <1>3, <2>1
  <2> QED BY <2>2
<1>7. top[4] \in 0..15
  <2>1. top[4 - 1] \in 0..7 /\ 4 \in 1..5
    BY <1>6
  <2>2. top[4] \in 0..(2 * 7 + 1)
    BY <1>3, <2>1
  <2> QED BY <2>2
<1>8. top[5] \in 0..31
  <2>1. top[5 - 1] \in 0..15 /\ 5 \in 1..5
    BY <1>7
  <2>2. top[5] \in 0..(2 * 15 + 1)
    BY <1>3, <2>1
  <2> QED BY <2>2
<1> QED BY <1>2, <1>8

\* An immediate has sixty-four bits.
LEMMA ImmBits ==
    ASSUME NEW w \in AnyWord, NEW fmt \in DOMAIN Pieces
    PROVE  Imm(fmt, w) \in [ImmBit -> {0, 1}]
<1>1. \A n \in InsBit : w[n] \in {0, 1}
  BY DEF AnyWord
<1>2. ASSUME NEW n \in ImmBit PROVE PieceBit(fmt, w, n) \in {0, 1}
  <2> DEFINE holding == {p \in Pieces[fmt] : n \in p[3]..(p[3] + p[1] - 1)}
             p == CHOOSE p \in holding : TRUE
  <2>1. CASE holding = {}
    BY <2>1 DEF PieceBit
  <2>2. CASE holding # {}
    <3>1. p \in Pieces[fmt] /\ n \in p[3]..(p[3] + p[1] - 1)
      BY <2>2
    <3>2. PieceBit(fmt, w, n) = w[p[2] + n - p[3]]
      BY <2>2 DEF PieceBit
    <3> HIDE DEF p
    <3>3. p[2] + n - p[3] \in InsBit
      BY <3>1 DEF Pieces, InsBit, ImmBit
    <3> QED BY <1>1, <3>2, <3>3
  <2> QED BY <2>1, <2>2
<1> QED BY <1>2 DEF Imm


\* The handlers there are, the two halves of execute_srlai and its likes apart.
Handlers ==
    {"lui", "auipc", "jal", "jalr", "illegal",
     "beq", "bne", "blt", "bge", "bltu", "bgeu",
     "lb", "lh", "lw", "ld", "lbu", "lhu", "lwu", "sb", "sh", "sw", "sd",
     "addi", "slti", "sltiu", "xori", "ori", "andi", "slli", "srli", "srai",
     "addiw", "slliw", "srliw", "sraiw",
     "add", "sub", "sll", "slt", "sltu", "xor", "srl", "sra", "or", "and",
     "addw", "subw", "sllw", "srlw", "sraw"}
Shared == {"srlai", "srlaiw", "srla", "srlaw"}

LEMMA HandlerOfWord == ASSUME NEW w PROVE Resolved(w) \in Handlers
<1>1. ASSUME NEW r \in 1..49 PROVE Registrations[r].handler \in Handlers \cup Shared
  <2>1. \/ r \in 1..2 \/ r = 3 \/ r \in {4} \cup (11..17) \cup (22..34)
        \/ r \in 5..10 \/ r \in 18..21 \/ r \in 35..49
    OBVIOUS
  <2> QED BY <2>1, RowHandlers DEF Handlers, Shared
<1>2. Lookup(w) \in Handlers \cup Shared
  <2>1. CASE Lookup(w) = "illegal"
    BY <2>1 DEF Handlers
  <2>2. CASE Lookup(w) # "illegal"
    <3>1. PICK func3, func7 : Lookup(w) = Entry(decode_opcode(w), func3, func7)
      BY <2>2, LookupIsEntry
    <3>2. \E r \in 1..49 : Lookup(w) = Registrations[r].handler
      BY <2>2, <3>1, EntryFrom
    <3> QED BY <1>1, <3>2
  <2> QED BY <2>1, <2>2
<1>3. CASE Lookup(w) \in Shared
  BY <1>3, ResolvedOf DEF Handlers, Shared
<1>4. CASE Lookup(w) \in Handlers
  <2>1. Lookup(w) \notin Shared
    BY <1>4 DEF Handlers, Shared
  <2> QED BY <1>4, <2>1, ResolvedOf DEF Shared
<1> QED BY <1>2, <1>3, <1>4

\* The fields each kind of handler uses are of their types.
LEMMA HandlerFields ==
    ASSUME NEW h \in Handlers
    PROVE  /\ KindOf(h) \in M!Kinds
           /\ h \in RegisterForms => h \in A!AluFn
           /\ h \in DOMAIN ImmediateFn => ImmediateFn[h] \in A!AluFn
           /\ h \in DOMAIN BranchCond => BranchCond[h] \in A!AluCond
           /\ h \in DOMAIN LoadLen => LoadLen[h] \in {1, 2, 4, 8}
           /\ h \in DOMAIN StoreLen => StoreLen[h] \in {1, 2, 4, 8}
<1>1. KindOf(h) \in M!Kinds
  BY DEF KindOf, M!Kinds, Handlers, RegisterForms, ImmediateFn, BranchCond, LoadLen, StoreLen
<1>2. h \in RegisterForms => h \in A!AluFn
  BY DEF RegisterForms, A!AluFn
<1>3. h \in DOMAIN ImmediateFn => ImmediateFn[h] \in A!AluFn
  BY DEF ImmediateFn, A!AluFn
<1>4. h \in DOMAIN BranchCond => BranchCond[h] \in A!AluCond
  BY DEF BranchCond, A!AluCond
<1>5. /\ h \in DOMAIN LoadLen => LoadLen[h] \in {1, 2, 4, 8}
      /\ h \in DOMAIN StoreLen => StoreLen[h] \in {1, 2, 4, 8}
  BY DEF LoadLen, StoreLen
<1> QED BY <1>1, <1>2, <1>3, <1>4, <1>5

\* The immediate of a word is a word of the machine.
LEMMA ImmIsWord ==
    ASSUME NEW w \in AnyWord
    PROVE  A!FromBits(DecodedIns(w).imm) \in M!Word
<1>1. DecodedIns(w).imm \in [0..63 -> {0, 1}]
  <2>1. CASE Format(decode_opcode(w)) \in DOMAIN Pieces
    BY <2>1, ImmBits DEF DecodedIns, ImmBit
  <2>2. CASE Format(decode_opcode(w)) \notin DOMAIN Pieces
    BY <2>2 DEF DecodedIns, ImmBit
  <2> QED BY <2>1, <2>2
<1>2. P!FromBits(DecodedIns(w).imm) \in P!Operands
  BY <1>1, Width, P!WordOfBits
<1>3. \A b : P!FromBits(b) = A!FromBits(b)
  BY SamePowers DEF P!FromBits, A!FromBits
<1> QED BY <1>2, <1>3, SameWords

\* What Machine assumes of the decoder.
LEMMA DecoderFits == M!DecodeAssumption
<1>1. ASSUME NEW lanes \in [0..3 -> 0..255] PROVE InstrOf(BitsOfIns(lanes)) \in M!Instr
  <2> DEFINE w == BitsOfIns(lanes)
             h == Resolved(w)
  <2>1. w \in AnyWord
    BY InsBits
  <2>2. h \in Handlers
    BY HandlerOfWord
  <2> HIDE DEF w, h
  <2>3. /\ DecodedIns(w).handler = h
        /\ DecodedIns(w).rd = Extract(w, 7, 5)
        /\ DecodedIns(w).rs1 = Extract(w, 15, 5)
        /\ DecodedIns(w).rs2 = Extract(w, 20, 5)
    BY DEF DecodedIns, decode_rd, decode_rs1, decode_rs2, h
  <2>4. /\ DecodedIns(w).rd \in M!Reg /\ DecodedIns(w).rs1 \in M!Reg
        /\ DecodedIns(w).rs2 \in M!Reg
    BY <2>1, <2>3, Extract5 DEF M!Reg
  <2>5. A!FromBits(DecodedIns(w).imm) \in M!Word
    BY <2>1, ImmIsWord
  <2>6. /\ InstrOf(w).fn \in A!AluFn /\ InstrOf(w).cond \in A!AluCond
        /\ InstrOf(w).len \in {1, 2, 4, 8}
    <3>1. "add" \in A!AluFn /\ "eq" \in A!AluCond /\ 1 \in {1, 2, 4, 8}
      BY DEF A!AluFn, A!AluCond
    <3> QED BY <2>2, <2>3, <3>1, HandlerFields DEF InstrOf
  <2>7. KindOf(h) \in M!Kinds /\ InstrOf(w).sext \in BOOLEAN
    BY <2>2, HandlerFields DEF InstrOf
  <2>8. InstrOf(w) = [kind |-> KindOf(h),
                      rd |-> DecodedIns(w).rd, rs1 |-> DecodedIns(w).rs1,
                      rs2 |-> DecodedIns(w).rs2, imm |-> A!FromBits(DecodedIns(w).imm),
                      fn |-> InstrOf(w).fn, cond |-> InstrOf(w).cond,
                      len |-> InstrOf(w).len, sext |-> InstrOf(w).sext]
    BY <2>3 DEF InstrOf
  <2>9. InstrOf(w) \in M!Instr
    BY <2>4, <2>5, <2>6, <2>7, <2>8 DEF M!Instr
  <2> QED BY <2>9 DEF w
<1>2. [M!InsLane -> M!Byte] = [0..3 -> 0..255]
  BY DEF M!InsLane, M!Byte
<1> QED BY <1>1, <1>2 DEF M!DecodeAssumption, Decoded

------------------------------------------------------------------------------
\* The emulator.

LEMMA Parameters ==
    /\ M!BaseAssumption /\ M!NRegAssumption /\ M!DecodeAssumption
    /\ M!AluAssumption /\ M!TakenAssumption
<1>1. M!BaseAssumption /\ M!NRegAssumption
  BY DEF M!BaseAssumption, M!NRegAssumption
<1> QED BY <1>1, DecoderFits, ArithmeticFits

\* Whatever devices are mapped and whatever program is loaded, the program's own
\* decoder and arithmetic keep registers, bus lines and memory in their widths.
THEOREM EmulatorTyped ==
    ASSUME M!MemAssumption
    PROVE  M!Spec => []M!TypeOK
BY Parameters, M!TypeCorrect, PTL

\* The word the mapped memory holds at the pc.
WordAtPc == BitsOfIns([k \in 0..3 |-> mem[M!Wrap(regs[32] + k)]])

\* What step_rv64_cpu starts is the handler of the instruction the manual encodes in
\* that word, with the operands decoded from it; the illegal instruction handler if it
\* encodes none, or one that has no handler (FENCE, ECALL, EBREAK).
StartsWhatIsThere ==
    at = "decide" /\ ~stall /\ (\A k \in 0..3 : M!Wrap(regs[32] + k) \in Mapped)
        => M!Cur = InstrOf(WordAtPc) /\ Dispatched(WordAtPc)

(***************************************************************************)
(* From the bytes of memory to the handler: fetched one by one, put        *)
(* together in current_instruction, taken apart by decode_ins_* and looked *)
(* up in the handler table, the four bytes at the pc are the instruction   *)
(* the manual encodes in them.  FENCE, ECALL and EBREAK, which the program *)
(* does not have, end at the illegal instruction handler like the words    *)
(* that encode nothing.                                                    *)
(***************************************************************************)
THEOREM MemoryToHandler ==
    ASSUME M!MemAssumption
    PROVE  M!Spec => []StartsWhatIsThere
<1>1. ASSUME M!TypeOK, M!FetchFaithful PROVE StartsWhatIsThere
  <2> SUFFICES ASSUME at = "decide", ~stall, \A k \in 0..3 : M!Wrap(regs[32] + k) \in Mapped
               PROVE  M!Cur = InstrOf(WordAtPc) /\ Dispatched(WordAtPc)
    BY DEF StartsWhatIsThere
  <2>1. ins \in [0..3 -> 0..255]
    BY <1>1 DEF M!TypeOK, M!InsLane, M!Byte
  <2>2. \A k \in 0..3 : ins[k] = mem[M!Wrap(regs[32] + k)]
    BY <1>1 DEF M!FetchFaithful, M!Fetched, M!InsLane, M!PC
  <2>3. ins = [k \in 0..3 |-> mem[M!Wrap(regs[32] + k)]]
    BY <2>1, <2>2
  <2>4. WordAtPc = BitsOfIns(ins)
    BY <2>3 DEF WordAtPc
  <2>5. M!Cur = InstrOf(BitsOfIns(ins))
    BY <2>1 DEF M!Cur, Decoded
  <2>6. Dispatched(BitsOfIns(ins))
    BY <2>1, InsBits, EveryWordDispatched
  <2> QED BY <2>4, <2>5, <2>6
<1>2. M!Spec => []M!FetchFaithful
  BY Parameters, M!FetchDeliversMemory, PTL
<1>3. M!Spec => []M!TypeOK
  BY EmulatorTyped
<1> QED BY <1>1, <1>2, <1>3, PTL

(***************************************************************************)
(* The emulator with its own decoder, handlers and memory routines is an   *)
(* instruction-level machine for every program that executes no jalr       *)
(* through its own link register, no load of several bytes over its own    *)
(* base register and no lb or lh: machine_mainloop, cycle by cycle, on     *)
(* 64-bit words.                                                           *)
(***************************************************************************)
THEOREM EmulatorImplementsIsa ==
    ASSUME M!MemAssumption
    PROVE  M!Spec /\ []M!ExecutesRegular => M!ImplementsIsa
<1>1. 256 % 2 = 0
  OBVIOUS
<1> QED BY <1>1, Parameters, M!MachineImplementsIsa, PTL
===============================================================================
