------------------------------- MODULE MCDecode -------------------------------
(***************************************************************************)
(* The decoder against the RV64I manual.  Two families of words: every     *)
(* opcode, func3 and func7; and, for each format, the encodings of         *)
(* immediates with few bits set or few bits clear.  Each word is tried     *)
(* with all the bits the family leaves open clear, then with all set.      *)
(***************************************************************************)
EXTENDS Decode, FiniteSets

CONSTANT Weights  \* how many bits of a tried immediate differ from the others

VARIABLES
    fixed,  \* the bits of the word that are given, a partial function
    open,   \* the value of the other bits
    what    \* what the word encodes

vars == <<fixed, open, what>>

Word == [n \in InsBit |-> IF n \in DOMAIN fixed THEN fixed[n] ELSE open]

\* The manual's layouts: the immediate bit that bit 31 of the word holds, then
\* the one of bit 30, and so on; -1 where the word holds something else.
Gap(n) == [k \in 1..n |-> -1]
Down(hi, lo) == [k \in 1..(hi - lo + 1) |-> hi + 1 - k]
Layout == [i |-> Down(11, 0) \o Gap(20),
           s |-> Down(11, 5) \o Gap(13) \o Down(4, 0) \o Gap(7),
           b |-> <<12>> \o Down(10, 5) \o Gap(13) \o Down(4, 1) \o <<11>> \o Gap(7),
           u |-> Down(31, 12) \o Gap(12),
           j |-> <<20>> \o Down(10, 1) \o <<11>> \o Down(19, 12) \o Gap(12)]
Opcode == [i |-> OP_IMM, s |-> STORE, b |-> BRANCH, u |-> LUI, j |-> JAL]

\* The immediate bits a format encodes, and the words of an immediate given by
\* the set of its encoded bits that are 1.
Encoded(fmt) == {Layout[fmt][k] : k \in 1..32} \ {-1}
Bits(n, pos, size) ==
    LET half == <<1, 2, 4, 8, 16, 32, 64>>
    IN  [k \in pos..(pos + size - 1) |-> (n \div half[k - pos + 1]) % 2]
Encode(fmt, ones) ==
    LET opcode == Bits(Opcode[fmt], 0, 7)
        places == {n \in InsBit : Layout[fmt][32 - n] # -1}
    IN  [n \in (0..6) \cup places |->
            IF n \in places THEN IF Layout[fmt][32 - n] \in ones THEN 1 ELSE 0
            ELSE opcode[n]]

Tried(fmt) ==
    UNION {{ones, Encoded(fmt) \ ones} :
               ones \in UNION {kSubset(w, Encoded(fmt)) : w \in Weights}}

ImmInit ==
    /\ open = 0
    /\ \E fmt \in DOMAIN Layout : \E ones \in Tried(fmt) :
           /\ what = [fmt |-> fmt, ones |-> ones]
           /\ fixed = Encode(fmt, ones)

DispatchInit ==
    /\ open = 0
    /\ \E opcode \in 0..127, func3 \in Func3, func7 \in Func7 :
           /\ what = [opcode |-> opcode, func3 |-> func3, func7 |-> func7]
           /\ LET op == Bits(opcode, 0, 7)
                  f3 == Bits(func3, 12, 3)
                  f7 == Bits(func7, 25, 7)
              IN  fixed = [n \in (0..6) \cup (12..14) \cup (25..31) |->
                              IF n <= 6 THEN op[n] ELSE IF n <= 14 THEN f3[n] ELSE f7[n]]

\* The same word with its open bits turned over.
Refill == open' = 1 - open /\ UNCHANGED <<fixed, what>>

Spec == (ImmInit \/ DispatchInit) /\ [][Refill]_vars

\* The two families of words.
OfImmediate == "ones" \in DOMAIN what
OfFields == "opcode" \in DOMAIN what

(***************************************************************************)
(* decode_imm_* inverts the manual's encoding: an encoded bit comes out    *)
(* where it went in, every higher bit is the highest encoded one, and the  *)
(* others are zero, whatever the rest of the word holds.                   *)
(***************************************************************************)
DecodeInvertsEncode ==
    OfImmediate =>
        LET imm == DecodedIns(Word).imm
            top == Max(Encoded(what.fmt))
        IN  \A n \in ImmBit :
                imm[n] = IF n \in what.ones \/ (n > top /\ top \in what.ones)
                         THEN 1 ELSE 0

\* The manual's names by func3, "" for a reserved one.
Loads == <<"lb", "lh", "lw", "ld", "lbu", "lhu", "lwu", "">>
Stores == <<"sb", "sh", "sw", "sd", "", "", "", "">>
Branches == <<"beq", "bne", "", "", "blt", "bge", "bltu", "bgeu">>
Ops == <<"add", "sll", "slt", "sltu", "xor", "srl", "or", "and">>
Alternate == [add |-> "sub", srl |-> "sra"]

\* The manual's name of a register operation: func7 selects the alternate form.
OpName(func3, func7) ==
    LET op == Ops[func3 + 1]
    IN  CASE func7 = 0 -> op
          [] func7 = 32 /\ op \in DOMAIN Alternate -> Alternate[op]
          [] OTHER -> ""

IsShift(func3) == Ops[func3 + 1] \in {"sll", "srl"}

\* The immediate forms by the name of the register form.
ImmName == [add |-> "addi", slt |-> "slti", sltu |-> "sltiu", xor |-> "xori",
            or |-> "ori", and |-> "andi", sll |-> "slli", srl |-> "srli",
            sra |-> "srai"]
WordName == [add |-> "addw", sub |-> "subw", sll |-> "sllw", srl |-> "srlw",
             sra |-> "sraw"]
WordImmName == [add |-> "addiw", sll |-> "slliw", srl |-> "srliw", sra |-> "sraiw"]

\* A name of a family, "" where the family does not have it.
In(names, op) == IF op \in DOMAIN names THEN names[op] ELSE ""

\* The instruction of the manual with these fields.  A shift by an immediate has
\* six bits of amount, so that only the upper six bits of func7 select it.  The
\* W forms have five, and the manual reserves a sixth; the table does not.
\* "environment" is ECALL and EBREAK: they differ in bit 20, and the manual reserves
\* the words with these fields in which another open bit is set.
Manual(opcode, func3, func7) ==
    LET immediate == OpName(func3, IF IsShift(func3) THEN (func7 \div 2) * 2 ELSE 0)
    IN  CASE opcode = LUI -> "lui"
          [] opcode = AUIPC -> "auipc"
          [] opcode = JAL -> "jal"
          [] opcode = JALR -> IF func3 = 0 THEN "jalr" ELSE ""
          [] opcode = LOAD -> Loads[func3 + 1]
          [] opcode = STORE -> Stores[func3 + 1]
          [] opcode = BRANCH -> Branches[func3 + 1]
          [] opcode = OP -> OpName(func3, func7)
          [] opcode = OP_32 -> In(WordName, OpName(func3, func7))
          [] opcode = OP_IMM -> In(ImmName, immediate)
          [] opcode = OP_IMM_32 -> In(WordImmName, immediate)
          [] opcode = MISC_MEM -> IF func3 = 0 THEN "fence" ELSE ""
          [] opcode = SYSTEM -> IF func3 = 0 /\ func7 = 0 THEN "environment" ELSE ""
          [] OTHER -> ""

\* The instructions of base RV64I that init_execution_handlers has a TODO for.
Unimplemented == {"fence", "environment"}

\* The handler of an instruction of the manual.
HandlerOf(name) == IF name \in {""} \cup Unimplemented THEN "illegal" ELSE name

(***************************************************************************)
(* Every word is given to the handler of the instruction the manual        *)
(* encodes in it, whatever its operands, and a word that encodes none to   *)
(* illegal_instruction_handler.  So are FENCE, ECALL and EBREAK, the part  *)
(* of base RV64I that init_execution_handlers leaves to be done.           *)
(***************************************************************************)
DispatchMatchesManual ==
    OfFields =>
        DecodedIns(Word).handler =
            HandlerOf(Manual(what.opcode, what.func3, what.func7))

(***************************************************************************)
(* The decoded instruction reaches its handler as a void pointer.  The     *)
(* decoder the opcode selects and the handler the table holds agree on the *)
(* struct behind it, for every word.                                       *)
(***************************************************************************)
HandlerTakesItsFormat ==
    LET handler == Lookup(Word)
    IN  handler # "illegal" => Takes(handler) = Format(decode_opcode(Word))
=============================================================================
