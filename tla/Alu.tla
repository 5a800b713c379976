--------------------------------- MODULE Alu ---------------------------------
(***************************************************************************)
(* The arithmetic of the execute_* handlers and the conditions of the      *)
(* branch handlers, at register width XLEN (64 in the program, any power   *)
(* of two here; the "32-bit" half is XLEN \div 2).  The immediate and the  *)
(* register form of an operation compute the same function and share one   *)
(* operator; srl and sra, which share their func3, are told apart by the   *)
(* decoder (bit 10 of the immediate, bit 5 of func7).                      *)
(***************************************************************************)
EXTENDS Integers

CONSTANT XLEN

\* 1 << n.
Pow2[n \in 0..XLEN] == IF n = 0 THEN 1 ELSE 2 * Pow2[n - 1]

ASSUME XlenAssumption == XLEN \in Nat /\ XLEN >= 2 /\ \E k \in 0..XLEN : Pow2[k] = XLEN

H == XLEN \div 2

\* A cast to uint32_t, and sign_extend_u32_to_u64 with its repeat_bit_in_num.
Lower(x) == x % Pow2[H]
SignExtend(v) == IF v \div Pow2[H - 1] = 1 THEN v + (Pow2[XLEN] - Pow2[H]) ELSE v

\* A cast to int64_t.
Signed(v) == IF v >= Pow2[XLEN - 1] THEN v - Pow2[XLEN] ELSE v

\* The shift amount: the low six bits of the operand, five for the W forms.
Shamt(y) == y % XLEN
ShamtWSixBits(y) == y % XLEN
ShamtW(y) == y % H

\* The bits of a word, and the word of some bits: &, | and ^ work bit by bit.
BitOf(v, i) == (v \div Pow2[i]) % 2
FromBits(b) ==
    LET low[n \in 0..XLEN] == IF n = 0 THEN 0 ELSE low[n - 1] + Pow2[n - 1] * b[n - 1]
    IN  low[XLEN]

BitAnd(x, y) == FromBits([i \in 0..(XLEN - 1) |-> BitOf(x, i) * BitOf(y, i)])
BitOr(x, y) ==
    FromBits([i \in 0..(XLEN - 1) |-> BitOf(x, i) + BitOf(y, i) - BitOf(x, i) * BitOf(y, i)])
BitXor(x, y) == FromBits([i \in 0..(XLEN - 1) |-> (BitOf(x, i) + BitOf(y, i)) % 2])

\* The loop of execute_sra, execute_srai, execute_sraw and execute_sraiw at
\* width w: shift right one place and put the sign bit back, n times.
ShiftArith(v, n, w) ==
    LET sign_bit == (v \div Pow2[w - 1]) * Pow2[w - 1]
        val[i \in 0..n] == IF i = 0 THEN v ELSE BitOr(val[i - 1] \div 2, sign_bit)
    IN  val[n]

Bit(b) == IF b THEN 1 ELSE 0

Add(x, y) == (x + y) % Pow2[XLEN]
Sub(x, y) == (x - y) % Pow2[XLEN]
SltUnsigned(x, y) == Bit(x < y)
Slt(x, y) == Bit(Signed(x) < Signed(y))
Sltu(x, y) == Bit(x < y)
Sll(x, y) == (x * Pow2[Shamt(y)]) % Pow2[XLEN]
Srl(x, y) == x \div Pow2[Shamt(y)]
Sra(x, y) == ShiftArith(x, Shamt(y), XLEN)
Addw(x, y) == SignExtend((Lower(x) + Lower(y)) % Pow2[H])
Subw(x, y) == SignExtend((Lower(x) - Lower(y)) % Pow2[H])
Sllw(x, y) == SignExtend((Lower(x) * Pow2[ShamtW(y)]) % Pow2[H])
Srlw(x, y) == SignExtend(Lower(x) \div Pow2[ShamtW(y)])
Sraw(x, y) == SignExtend(ShiftArith(Lower(x), ShamtW(y), H))

AluFn == {"add", "sub", "slt", "sltu", "and", "or", "xor", "sll", "srl", "sra",
          "addw", "subw", "sllw", "srlw", "sraw"}

Compute(f, x, y) ==
    CASE f = "add" -> Add(x, y)     [] f = "sub" -> Sub(x, y)
      [] f = "slt" -> Slt(x, y)     [] f = "sltu" -> Sltu(x, y)
      [] f = "and" -> BitAnd(x, y)     [] f = "or" -> BitOr(x, y)
      [] f = "xor" -> BitXor(x, y)     [] f = "sll" -> Sll(x, y)
      [] f = "srl" -> Srl(x, y)     [] f = "sra" -> Sra(x, y)
      [] f = "addw" -> Addw(x, y)   [] f = "subw" -> Subw(x, y)
      [] f = "sllw" -> Sllw(x, y)   [] f = "srlw" -> Srlw(x, y)
      [] f = "sraw" -> Sraw(x, y)

AluCond == {"eq", "ne", "lt", "ltu", "ge", "geu"}

\* The conditions of execute_beq, bne, blt, bltu, bge and bgeu.
Holds(c, x, y) ==
    CASE c = "eq" -> x = y   [] c = "lt" -> Signed(x) < Signed(y)
      [] c = "ne" -> x # y   [] c = "ge" -> Signed(x) >= Signed(y)
      [] c = "ltu" -> x < y  [] c = "geu" -> x >= y
=============================================================================
