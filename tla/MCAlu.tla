-------------------------------- MODULE MCAlu --------------------------------
(***************************************************************************)
(* Every function and condition of Alu on every pair of operands, against  *)
(* the RV64I manual's definitions, which are about integers and bits where *)
(* the handlers' are about loops, casts and masks.                         *)
(***************************************************************************)
EXTENDS Alu

VARIABLES x, y, result, taken

Operands == 0..(Pow2[XLEN] - 1)

\* The handlers run on one pair of operands after another.
AluInit ==
    /\ x \in Operands /\ y = 0
    /\ result = [f \in AluFn |-> Compute(f, x, 0)]
    /\ taken = [c \in AluCond |-> Holds(c, x, 0)]

AluNext ==
    /\ y' = (y + 1) % Pow2[XLEN]
    /\ result' = [f \in AluFn |-> Compute(f, x, y')]
    /\ taken' = [c \in AluCond |-> Holds(c, x, y')]
    /\ UNCHANGED x

AluSpec == AluInit /\ [][AluNext]_<<x, y, result, taken>>

\* v read as a two's complement number of w bits, and back at width XLEN.
AsInt(v, w) == ((v + Pow2[w - 1]) % Pow2[w]) - Pow2[w - 1]
ToWord(n) == n % Pow2[XLEN]
Log2(n) == CHOOSE i \in 0..n : Pow2[i] = n
LowBits(v, n) == v % Pow2[n]
IsSet(v, i) == BitOf(v, i) = 1

(***************************************************************************)
(* Arithmetic is two's complement, a right shift is a floored division of  *)
(* the signed or unsigned value, the W forms compute on the low half and   *)
(* extend its sign, and the shift amount is the low six (five) bits.       *)
(***************************************************************************)
ArithmeticMatchesManual ==
    LET shamt == LowBits(y, Log2(XLEN))
        shamtw == LowBits(y, Log2(H))
        Word32(n) == ToWord(AsInt(n, H))
    IN  /\ result["add"] = ToWord(AsInt(x, XLEN) + AsInt(y, XLEN))
        /\ result["sub"] = ToWord(AsInt(x, XLEN) - AsInt(y, XLEN))
        /\ result["sll"] = ToWord(x * Pow2[shamt])
        /\ result["srl"] = x \div Pow2[shamt]
        /\ result["sra"] = ToWord(AsInt(x, XLEN) \div Pow2[shamt])
        /\ result["addw"] = Word32(x + y)
        /\ result["subw"] = Word32(x - y)
        /\ result["sllw"] = Word32(x * Pow2[shamtw])
        /\ result["srlw"] = Word32(LowBits(x, H) \div Pow2[shamtw])
        /\ result["sraw"] = ToWord(AsInt(x, H) \div Pow2[shamtw])
        /\ \A i \in 0..(XLEN - 1) :
               /\ IsSet(result["and"], i) = (IsSet(x, i) /\ IsSet(y, i))
               /\ IsSet(result["or"], i) = (IsSet(x, i) \/ IsSet(y, i))
               /\ IsSet(result["xor"], i) = (IsSet(x, i) # IsSet(y, i))

(***************************************************************************)
(* slt, sltu and the branches order operands as the manual does: unsigned  *)
(* by the first bit that differs, signed with the sign bit reversed, and   *)
(* each condition is the negation of its partner.                          *)
(***************************************************************************)
ComparisonsMatchManual ==
    LET differ == {i \in 0..(XLEN - 1) : IsSet(x, i) # IsSet(y, i)}
        top == CHOOSE i \in differ : \A j \in differ : j <= i
        below == differ # {} /\ IsSet(y, top)
        belowSigned ==
            differ # {} /\ (IF top = XLEN - 1 THEN IsSet(x, top) ELSE IsSet(y, top))
    IN  /\ taken["eq"] = (differ = {}) /\ taken["ne"] = ~taken["eq"]
        /\ taken["ltu"] = below /\ taken["geu"] = ~taken["ltu"]
        /\ taken["lt"] = belowSigned /\ taken["ge"] = ~taken["lt"]
        /\ result["sltu"] = Bit(below) /\ result["slt"] = Bit(belowSigned)
=============================================================================
