------------------------------ MODULE Alu_proofs ------------------------------
(***************************************************************************)
(* Theorems about the arithmetic, at every register width: what MCAlu      *)
(* tries on all words of eight bits holds for words of any power of two    *)
(* of bits, 64 included.                                                   *)
(***************************************************************************)
EXTENDS MCAlu, Recursion_proofs

------------------------------------------------------------------------------
\* Powers of two.

LEMMA Powers ==
    /\ XLEN \in Nat
    /\ Pow2[0] = 1
    /\ \A n \in 1..XLEN : Pow2[n] = 2 * Pow2[n - 1]
    /\ \A n \in 0..XLEN : Power(Pow2, n)
<1>1. XLEN \in Nat
  BY XlenAssumption
<1>2. PICK p : IsDoubling(p, XLEN)
  BY <1>1, DoublingExists DEF HasDoubling
<1>3. IsDoubling(Pow2, XLEN)
  BY <1>2 DEF Pow2, IsDoubling
<1> QED BY <1>1, <1>3, DoublingIs

\* Exponents add.
LEMMA PowerSum ==
    ASSUME NEW a \in Nat, NEW b \in Nat, a + b <= XLEN
    PROVE  Pow2[a + b] = Pow2[a] * Pow2[b]
<1> DEFINE S == {n \in Nat : a + n <= XLEN => Pow2[a + n] = Pow2[a] * Pow2[n]}
<1>1. 0 \in S
  <2>1. a + 0 <= XLEN => a + 0 = a /\ Power(Pow2, a)
    BY Powers
  <2> QED BY <2>1, Powers DEF Power
<1>2. ASSUME NEW n \in Nat, n \in S PROVE n + 1 \in S
  <2> SUFFICES ASSUME a + (n + 1) <= XLEN
               PROVE  Pow2[a + (n + 1)] = Pow2[a] * Pow2[n + 1]
    OBVIOUS
  <2>1. /\ a + (n + 1) \in 1..XLEN /\ n + 1 \in 1..XLEN /\ a + n <= XLEN
        /\ (a + (n + 1)) - 1 = a + n /\ (n + 1) - 1 = n
        /\ a \in 0..XLEN /\ n \in 0..XLEN
    BY Powers
  <2>2. Pow2[a + (n + 1)] = 2 * Pow2[a + n] /\ Pow2[n + 1] = 2 * Pow2[n]
    BY <2>1, Powers
  <2>3. Pow2[a + n] = Pow2[a] * Pow2[n]
    BY <1>2, <2>1
  <2>4. Pow2[a] \in Int /\ Pow2[n] \in Int
    BY <2>1, Powers DEF Power
  <2>5. \A u, v \in Int : 2 * (u * v) = u * (2 * v)
    OBVIOUS
  <2> QED BY <2>2, <2>3, <2>4, <2>5
<1>3. Nat \subseteq S
  <2> HIDE DEF S
  <2> QED BY <1>1, <1>2, AllNumbers
<1> QED BY <1>3

\* A smaller power divides a larger one.
LEMMA PowerOver ==
    ASSUME NEW a \in 0..XLEN, NEW b \in 0..a
    PROVE  /\ Pow2[a] = Pow2[a - b] * Pow2[b]
           /\ Pow2[a] \in Nat /\ Pow2[b] \in Nat /\ Pow2[a - b] \in Nat
           /\ Pow2[b] > 0 /\ Pow2[a - b] > 0 /\ Pow2[b] <= Pow2[a]
           /\ a # b => Pow2[a - b] = 2 * Pow2[(a - b) - 1] /\ Pow2[(a - b) - 1] \in Nat
<1>1. a \in Nat /\ b \in Nat /\ a - b \in Nat /\ (a - b) + b = a /\ a <= XLEN /\ XLEN \in Nat
  BY Powers
<1>2. Pow2[a] = Pow2[a - b] * Pow2[b]
  BY <1>1, PowerSum
<1>3. Power(Pow2, a) /\ Power(Pow2, b) /\ Power(Pow2, a - b)
  BY <1>1, Powers
<1>4. a # b => a - b \in 1..XLEN /\ (a - b) - 1 \in 0..XLEN
  BY <1>1
<1>5. Pow2[b] <= Pow2[a]
  <2>1. \A u, v \in Nat : u > 0 => v <= u * v
    <3> SUFFICES ASSUME NEW u \in Nat, NEW v \in Nat, u > 0 PROVE v <= u * v
      OBVIOUS
    <3>1. u * v = v + (u - 1) * v /\ (u - 1) * v >= 0
      OBVIOUS
    <3> QED BY <3>1
  <2> QED BY <1>2, <1>3, <2>1 DEF Power
<1> QED BY <1>2, <1>3, <1>4, <1>5, Powers DEF Power

\* The exponents of the program: half the width, and the number of bits of a
\* shift amount.
LEMMA Widths ==
    /\ H \in 1..(XLEN - 1) /\ XLEN = 2 * H /\ XLEN - 1 \in 0..XLEN
    /\ Log2(XLEN) \in 0..XLEN /\ Pow2[Log2(XLEN)] = XLEN
    /\ Log2(H) \in 0..H /\ Pow2[Log2(H)] = H
<1>1. PICK k \in 0..XLEN : Pow2[k] = XLEN
  BY XlenAssumption
<1>2. XLEN \in Nat /\ XLEN >= 2
  BY XlenAssumption
<1>3. k # 0 /\ k \in 1..XLEN /\ k - 1 \in 0..XLEN
  BY <1>1, <1>2, Powers
<1>4. XLEN = 2 * Pow2[k - 1] /\ Pow2[k - 1] \in Nat
  BY <1>1, <1>3, Powers DEF Power
<1>5. H = Pow2[k - 1]
  BY <1>4 DEF H
<1>6. H \in 1..(XLEN - 1) /\ XLEN = 2 * H
  BY <1>2, <1>4, <1>5
<1>7. Log2(XLEN) \in 0..XLEN /\ Pow2[Log2(XLEN)] = XLEN
  BY <1>1 DEF Log2
<1>8. k - 1 <= H
  <2> DEFINE S == {n \in Nat : n <= XLEN => n <= Pow2[n]}
  <2>1. 0 \in S
    BY Powers
  <2>2. ASSUME NEW n \in Nat, n \in S PROVE n + 1 \in S
    <3> SUFFICES ASSUME n + 1 <= XLEN PROVE n + 1 <= Pow2[n + 1]
      OBVIOUS
    <3>1. n \in 0..XLEN /\ n + 1 \in 1..XLEN /\ (n + 1) - 1 = n /\ n <= Pow2[n]
      BY <1>2, <2>2
    <3>2. Pow2[n + 1] = 2 * Pow2[n] /\ Pow2[n] \in Nat /\ Pow2[n] > 0
      BY <3>1, Powers DEF Power
    <3> QED BY <3>1, <3>2
  <2>3. Nat \subseteq S
    <3> HIDE DEF S
    <3> QED BY <2>1, <2>2, AllNumbers
  <2>4. k - 1 \in Nat /\ k - 1 <= XLEN
    BY <1>2, <1>3
  <2> QED BY <1>5, <2>3, <2>4
<1>9. Log2(H) \in 0..H /\ Pow2[Log2(H)] = H
  <2>1. k - 1 \in 0..H
    BY <1>3, <1>6, <1>8
  <2> QED BY <1>5, <2>1 DEF Log2
<1> QED BY <1>2, <1>6, <1>7, <1>9

------------------------------------------------------------------------------
\* Division.

LEMMA Division ==
    ASSUME NEW v \in Int, NEW d \in Nat, d > 0
    PROVE  v \div d \in Int /\ v % d \in 0..(d - 1) /\ v = (v \div d) * d + (v % d)
<1>1. v \div d \in Int
  OBVIOUS
<1>2. v = (v \div d) * d + (v % d)
  OBVIOUS
<1>3. v % d \in 0..(d - 1)
  OBVIOUS
<1> QED BY <1>1, <1>2, <1>3

LEMMA Quotient ==
    ASSUME NEW v \in Int, NEW d \in Nat, NEW q \in Int, NEW r \in 0..(d - 1), v = q * d + r
    PROVE  v \div d = q /\ v % d = r
OBVIOUS

\* Whole multiples of the divisor go to the quotient.
LEMMA Multiples ==
    ASSUME NEW v \in Int, NEW d \in Nat, d > 0, NEW k \in Int
    PROVE  (v + k * d) % d = v % d /\ (v + k * d) \div d = v \div d + k
<1> DEFINE q == v \div d
           r == v % d
<1>1. q \in Int /\ r \in 0..(d - 1) /\ v = q * d + r
  BY Division
<1> HIDE DEF q, r
<1>2. q * d + k * d = (q + k) * d
  BY <1>1
<1>3. v + k * d = (q + k) * d + r
  BY <1>1, <1>2
<1>4. v + k * d \in Int /\ q + k \in Int
  BY <1>1
<1> HIDE DEF Quotient
<1> QED BY <1>1, <1>3, <1>4, Quotient DEF q, r

\* Dividing twice is dividing by the product.
LEMMA Twice ==
    ASSUME NEW v \in Int, NEW d \in Nat, d > 0, NEW e \in Nat, e > 0
    PROVE  (v \div d) \div e = v \div (e * d)
<1> DEFINE q == v \div d
           r == v % d
           t == q \div e
           s == q % e
<1>1. q \in Int /\ r \in 0..(d - 1) /\ v = q * d + r
  BY Division
<1>2. t \in Int /\ s \in 0..(e - 1) /\ q = t * e + s
  <2> HIDE DEF q
  <2> QED BY <1>1, Division
<1> HIDE DEF q, r, t, s
<1>3. v = t * (e * d) + (s * d + r)
  <2>1. (t * e + s) * d = t * (e * d) + s * d
    BY <1>2
  <2> QED BY <1>1, <1>2, <2>1
<1>4. s * d + r \in 0..(e * d - 1)
  <2>1. s * d >= 0
    BY <1>2
  <2>2. s * d <= (e - 1) * d
    BY <1>2
  <2>3. (e - 1) * d = e * d - d
    OBVIOUS
  <2> QED BY <1>1, <1>2, <2>1, <2>2, <2>3
<1>5. e * d \in Nat
  OBVIOUS
<1>6. v \div (e * d) = t
  BY <1>2, <1>3, <1>4, <1>5, Quotient
<1> QED BY <1>6 DEF q, t

\* A number below the divisor is its own remainder.
LEMMA Small ==
    ASSUME NEW d \in Nat, NEW v \in 0..(d - 1)
    PROVE  v \div d = 0 /\ v % d = v
OBVIOUS

------------------------------------------------------------------------------
\* Two's complement.

InRange(a, w) == a \in Int /\ -Pow2[w - 1] <= a /\ a < Pow2[w - 1]

LEMMA Half ==
    ASSUME NEW w \in 1..XLEN
    PROVE  /\ Pow2[w] = 2 * Pow2[w - 1] /\ Pow2[w] \in Nat /\ Pow2[w] > 0
           /\ Pow2[w - 1] \in Nat /\ Pow2[w - 1] > 0
<1>1. w \in 0..XLEN /\ w - 1 \in 0..XLEN
  BY Powers
<1> QED BY <1>1, Powers DEF Power

\* The signed reading of n differs from n by whole words.
LEMMA AsIntReads ==
    ASSUME NEW n \in Int, NEW w \in 1..XLEN
    PROVE  InRange(AsInt(n, w), w) /\ \E k \in Int : n = AsInt(n, w) + k * Pow2[w]
<1> DEFINE s == Pow2[w - 1]
           m == Pow2[w]
           k == (n + s) \div m
<1>1. m = 2 * s /\ m \in Nat /\ m > 0 /\ s \in Nat /\ s > 0
  BY Half
<1> HIDE DEF s, m
<1>2. n + s = k * m + ((n + s) % m) /\ k \in Int /\ (n + s) % m \in 0..(m - 1)
  BY <1>1, Division
<1>3. AsInt(n, w) = ((n + s) % m) - s
  BY DEF AsInt, s, m
<1> HIDE DEF k
<1>4. n = AsInt(n, w) + k * m
  <2>1. k * m \in Int
    BY <1>1, <1>2
  <2> QED BY <1>1, <1>2, <1>3, <2>1
<1>5. InRange(AsInt(n, w), w)
  <2>1. ((n + s) % m) - s \in Int /\ -s <= ((n + s) % m) - s /\ ((n + s) % m) - s < s
    BY <1>1, <1>2
  <2> QED BY <1>3, <2>1 DEF InRange, s
<1>6. \E j \in Int : n = AsInt(n, w) + j * m
  BY <1>2, <1>4
<1> QED BY <1>5, <1>6 DEF m

\* It is the only number in its range that does.
LEMMA AsIntOnly ==
    ASSUME NEW a, NEW k \in Int, NEW w \in 1..XLEN, InRange(a, w)
    PROVE  AsInt(a + k * Pow2[w], w) = a
<1> DEFINE s == Pow2[w - 1]
           m == Pow2[w]
<1>1. m = 2 * s /\ m \in Nat /\ m > 0 /\ s \in Nat /\ s > 0
  BY Half
<1>2. a \in Int /\ a + s \in 0..(m - 1)
  BY <1>1 DEF InRange
<1> HIDE DEF s, m
<1>3. k * m \in Int /\ (a + k * m) + s = (a + s) + k * m
  BY <1>1, <1>2
<1>4. ((a + k * m) + s) % m = a + s
  <2>1. ((a + s) + k * m) % m = (a + s) % m
    BY <1>1, <1>2, Multiples
  <2>2. (a + s) % m = a + s
    BY <1>1, <1>2, Small
  <2> QED BY <1>3, <2>1, <2>2
<1> QED BY <1>1, <1>2, <1>4 DEF AsInt, s, m

\* A word is negative if its highest bit is set.
LEMMA WordAsInt ==
    ASSUME NEW w \in 1..XLEN, NEW v \in 0..(Pow2[w] - 1)
    PROVE  AsInt(v, w) = IF v >= Pow2[w - 1] THEN v - Pow2[w] ELSE v
<1>1. Pow2[w] = 2 * Pow2[w - 1] /\ Pow2[w] \in Nat /\ Pow2[w - 1] \in Nat /\ Pow2[w - 1] > 0
  BY Half
<1>2. CASE v >= Pow2[w - 1]
  <2>1. InRange(v - Pow2[w], w)
    BY <1>1, <1>2 DEF InRange
  <2>2. v = (v - Pow2[w]) + 1 * Pow2[w] /\ 1 \in Int
    BY <1>1
  <2> QED BY <1>2, <2>1, <2>2, AsIntOnly
<1>3. CASE ~(v >= Pow2[w - 1])
  <2>1. InRange(v, w)
    BY <1>1, <1>3 DEF InRange
  <2>2. v = v + 0 * Pow2[w] /\ 0 \in Int
    BY <1>1
  <2> QED BY <1>3, <2>1, <2>2, AsIntOnly
<1> QED BY <1>2, <1>3

\* Words of numbers that differ by whole words are the same.
LEMMA SameWord ==
    ASSUME NEW n \in Int, NEW k \in Int
    PROVE  ToWord(n + k * Pow2[XLEN]) = ToWord(n) /\ ToWord(n) \in Operands
<1>1. XLEN \in 1..XLEN
  BY XlenAssumption
<1>2. Pow2[XLEN] \in Nat /\ Pow2[XLEN] > 0
  BY <1>1, Half
<1> QED BY <1>2, Multiples, Division DEF ToWord, Operands

\* sign_extend_u32_to_u64 is the manual's sign extension.
LEMMA SignExtends ==
    ASSUME NEW v \in 0..(Pow2[H] - 1)
    PROVE  SignExtend(v) = ToWord(AsInt(v, H)) /\ SignExtend(v) \in Operands
<1> DEFINE h == Pow2[H]
           s == Pow2[H - 1]
           m == Pow2[XLEN]
<1>1. H \in 1..XLEN /\ XLEN \in 0..XLEN /\ H \in 0..XLEN /\ XLEN - H \in Nat
  BY Widths, Powers
<1>2. h = 2 * s /\ h \in Nat /\ s \in Nat /\ s > 0
  BY <1>1, Half
<1>3. m \in Nat /\ h <= m
  BY <1>1, PowerOver
<1>4. AsInt(v, H) = IF v >= s THEN v - h ELSE v
  BY <1>1, WordAsInt
<1>5. SignExtend(v) = IF v \div s = 1 THEN v + (m - h) ELSE v
  BY DEF SignExtend
<1>6. ToWord(AsInt(v, H)) = AsInt(v, H) % m
  BY DEF ToWord
<1> HIDE DEF h, s, m
<1>7. v \in 0..(h - 1)
  BY DEF h
<1>8. CASE v >= s
  <2>1. v = 1 * s + (v - s) /\ v - s \in 0..(s - 1)
    BY <1>2, <1>7, <1>8
  <2>2. v \div s = 1
    BY <1>2, <1>7, <2>1, Quotient
  <2>3. v + (m - h) \in 0..(m - 1)
    BY <1>2, <1>3, <1>7, <1>8
  <2>4. (v - h) % m = v + (m - h)
    <3>1. v - h = (-1) * m + (v + (m - h)) /\ v - h \in Int /\ -1 \in Int
      BY <1>2, <1>3, <1>7
    <3> QED BY <1>3, <2>3, <3>1, Quotient
  <2> QED BY <1>4, <1>5, <1>6, <1>8, <2>2, <2>3, <2>4 DEF Operands, m
<1>9. CASE ~(v >= s)
  <2>1. v \in 0..(s - 1) /\ v \in 0..(m - 1)
    BY <1>2, <1>3, <1>7, <1>9
  <2>2. v \div s = 0 /\ v % m = v
    BY <1>2, <1>3, <2>1, Small
  <2> QED BY <1>4, <1>5, <1>6, <1>9, <2>1, <2>2 DEF Operands, m
<1> QED BY <1>8, <1>9

------------------------------------------------------------------------------
\* Bits.

LEMMA WordPlaces ==
    /\ XLEN \in 1..XLEN /\ 0 \in 0..XLEN /\ XLEN \in 0..XLEN
    /\ Operands = 0..(Pow2[XLEN] - 1) /\ Operands \subseteq Nat
    /\ Pow2[XLEN] \in Nat /\ Pow2[XLEN] > 0
    /\ \A i \in 0..(XLEN - 1) : i \in 0..XLEN /\ i + 1 \in 1..XLEN /\ (i + 1) - 1 = i
<1>1. XLEN \in Nat /\ XLEN >= 2
  BY XlenAssumption
<1>2. XLEN \in 1..XLEN /\ 0 \in 0..XLEN /\ XLEN \in 0..XLEN
  BY <1>1
<1>3. Pow2[XLEN] \in Nat /\ Pow2[XLEN] > 0
  BY <1>2, Half
<1>4. \A i \in 0..(XLEN - 1) : i \in 0..XLEN /\ i + 1 \in 1..XLEN /\ (i + 1) - 1 = i
  BY <1>1
<1> QED BY <1>2, <1>3, <1>4 DEF Operands

LEMMA BitRange ==
    ASSUME NEW v \in Int, NEW i \in 0..XLEN
    PROVE  /\ BitOf(v, i) \in {0, 1}
           /\ v \div Pow2[i] \in Int
<1>1. Pow2[i] \in Nat /\ Pow2[i] > 0
  BY Powers DEF Power
<1>2. v \div Pow2[i] \in Int
  BY <1>1, Division
<1>3. \A q \in Int : q % 2 \in {0, 1}
  OBVIOUS
<1> QED BY <1>2, <1>3 DEF BitOf

\* One more bit of a number.
LEMMA NextBit ==
    ASSUME NEW v \in Int, NEW i \in 0..(XLEN - 1)
    PROVE  v \div Pow2[i] = 2 * (v \div Pow2[i + 1]) + BitOf(v, i)
<1>1. i \in 0..XLEN /\ i + 1 \in 1..XLEN /\ (i + 1) - 1 = i
  BY WordPlaces
<1>2. Pow2[i] \in Nat /\ Pow2[i] > 0 /\ Pow2[i + 1] = 2 * Pow2[i]
  BY <1>1, Powers DEF Power
<1>3. (v \div Pow2[i]) \div 2 = v \div Pow2[i + 1]
  BY <1>2, Twice
<1>4. v \div Pow2[i] \in Int
  BY <1>1, BitRange
<1>5. \A q \in Int : q = 2 * (q \div 2) + (q % 2)
  OBVIOUS
<1> QED BY <1>3, <1>4, <1>5 DEF BitOf

\* Words with the same bits from j on are the same from j on.
LEMMA SameAbove ==
    ASSUME NEW u \in Operands, NEW v \in Operands, NEW j \in 0..XLEN,
           \A i \in j..(XLEN - 1) : BitOf(u, i) = BitOf(v, i)
    PROVE  u \div Pow2[j] = v \div Pow2[j]
<1> DEFINE S == {n \in Nat : n <= XLEN - j => u \div Pow2[XLEN - n] = v \div Pow2[XLEN - n]}
<1>0. XLEN \in Nat /\ u \in Int /\ v \in Int
  BY WordPlaces, Powers
<1>1. 0 \in S
  <2>1. u \div Pow2[XLEN] = 0 /\ v \div Pow2[XLEN] = 0
    BY WordPlaces, Small
  <2>2. XLEN - 0 = XLEN
    BY <1>0
  <2> QED BY <2>1, <2>2
<1>2. ASSUME NEW n \in Nat, n \in S PROVE n + 1 \in S
  <2> SUFFICES ASSUME n + 1 <= XLEN - j
               PROVE  u \div Pow2[XLEN - (n + 1)] = v \div Pow2[XLEN - (n + 1)]
    OBVIOUS
  <2> DEFINE i == XLEN - (n + 1)
  <2>1. i \in j..(XLEN - 1) /\ i \in 0..(XLEN - 1) /\ i + 1 = XLEN - n /\ n <= XLEN - j
    BY <1>0
  <2>2. u \div Pow2[i + 1] = v \div Pow2[i + 1]
    BY <1>2, <2>1
  <2>3. BitOf(u, i) = BitOf(v, i)
    BY <2>1
  <2> HIDE DEF i
  <2>4. u \div Pow2[i] = v \div Pow2[i]
    BY <1>0, <2>1, <2>2, <2>3, NextBit
  <2> QED BY <2>4 DEF i
<1>3. Nat \subseteq S
  <2> HIDE DEF S
  <2> QED BY <1>1, <1>2, AllNumbers
<1>4. XLEN - j \in Nat /\ XLEN - (XLEN - j) = j
  BY <1>0
<1> QED BY <1>3, <1>4

LEMMA SameBits ==
    ASSUME NEW u \in Operands, NEW v \in Operands,
           \A i \in 0..(XLEN - 1) : BitOf(u, i) = BitOf(v, i)
    PROVE  u = v
<1>1. u \div Pow2[0] = v \div Pow2[0]
  BY SameAbove, WordPlaces
<1>2. \A w \in Operands : w \div Pow2[0] = w
  <2>1. \A w \in Nat : w \div 1 = w
    OBVIOUS
  <2> QED BY <2>1, Powers, WordPlaces
<1> QED BY <1>1, <1>2

\* A bit put on top of a number of n bits.
LEMMA TopBit ==
    ASSUME NEW n \in 0..(XLEN - 1), NEW low \in 0..(Pow2[n] - 1), NEW b \in {0, 1}
    PROVE  /\ low + Pow2[n] * b \in 0..(Pow2[n + 1] - 1)
           /\ BitOf(low + Pow2[n] * b, n) = b
           /\ \A i \in 0..(n - 1) : BitOf(low + Pow2[n] * b, i) = BitOf(low, i)
           /\ \A i \in (n + 1)..(XLEN - 1) : BitOf(low + Pow2[n] * b, i) = 0
<1> DEFINE t == low + Pow2[n] * b
<1>1. /\ n \in 0..XLEN /\ n + 1 \in 1..XLEN /\ (n + 1) - 1 = n
      /\ Pow2[n] \in Nat /\ Pow2[n] > 0 /\ Pow2[n + 1] = 2 * Pow2[n]
  BY WordPlaces, Powers DEF Power
<1>2. t \in 0..(Pow2[n + 1] - 1) /\ t = b * Pow2[n] + low /\ t \in Int
  BY <1>1
<1>3. BitOf(t, n) = b
  <2>1. t \div Pow2[n] = b
    BY <1>1, <1>2, Quotient
  <2> QED BY <2>1 DEF BitOf
<1>4. ASSUME NEW i \in 0..(n - 1) PROVE BitOf(t, i) = BitOf(low, i)
  <2>1. i \in 0..n /\ n # i /\ i \in 0..XLEN
    BY <1>1, Powers
  <2> DEFINE c == Pow2[(n - i) - 1]
             d == Pow2[i]
  <2>2. Pow2[n] = (2 * c) * d /\ c \in Nat /\ d \in Nat /\ d > 0
    BY <1>1, <2>1, PowerOver
  <2> HIDE DEF c, d
  <2>3. t = low + (2 * c * b) * d
    BY <1>2, <2>2
  <2>4. t \div d = (low \div d) + 2 * (c * b)
    <3>1. 2 * c * b \in Int /\ 2 * c * b = 2 * (c * b) /\ low \in Int
      BY <2>2
    <3>2. t \div d = (low \div d) + 2 * c * b
      BY <2>2, <2>3, <3>1, Multiples
    <3> QED BY <3>1, <3>2
  <2>5. low \div d \in Int /\ c * b \in Int
    BY <2>1, <2>2, Division
  <2>6. \A q, k \in Int : (q + 2 * k) % 2 = q % 2
    OBVIOUS
  <2> QED BY <2>4, <2>5, <2>6 DEF BitOf, d
<1>5. ASSUME NEW i \in (n + 1)..(XLEN - 1) PROVE BitOf(t, i) = 0
  <2>1. i \in 0..XLEN /\ n + 1 \in 0..i
    BY <1>1, Powers
  <2>2. Pow2[n + 1] <= Pow2[i] /\ Pow2[i] \in Nat
    BY <2>1, PowerOver
  <2>3. t \in 0..(Pow2[i] - 1)
    BY <1>1, <1>2, <2>2
  <2>4. t \div Pow2[i] = 0
    BY <2>2, <2>3, Small
  <2> QED BY <2>4 DEF BitOf
<1> QED BY <1>2, <1>3, <1>4, <1>5

\* FromBits makes a word of bits.
LEMMA WordOfBits ==
    ASSUME NEW b \in [0..(XLEN - 1) -> {0, 1}]
    PROVE  /\ FromBits(b) \in Operands
           /\ \A i \in 0..(XLEN - 1) : BitOf(FromBits(b), i) = b[i]
<1> DEFINE Step(f) == [n \in 0..XLEN |-> IF n = 0 THEN 0
                                         ELSE f[n - 1] + Pow2[n - 1] * b[n - 1]]
           g == [n \in 1..XLEN |-> [v \in Int |-> v + Pow2[n - 1] * b[n - 1]]]
<1>0. XLEN \in Nat /\ \A n \in 1..XLEN : n - 1 \in 0..(XLEN - 1) /\ n \in 0..XLEN /\ n # 0
  BY Powers
<1>1. \A n \in 1..XLEN : Pow2[n - 1] * b[n - 1] \in Int
  <2> SUFFICES ASSUME NEW n \in 1..XLEN PROVE Pow2[n - 1] * b[n - 1] \in Int
    OBVIOUS
  <2>1. Pow2[n - 1] \in Nat /\ b[n - 1] \in {0, 1}
    BY <1>0, WordPlaces, Powers DEF Power
  <2> QED BY <2>1
<1>2. \E f : f = Step(f)
  <2>1. g \in [1..XLEN -> [Int -> Int]]
    BY <1>1
  <2>2. 0 \in Int
    OBVIOUS
  <2>3. PICK f : IsRun(f, XLEN, Int, 0, g)
    <3> HIDE DEF g
    <3> QED BY <1>0, <2>1, <2>2, StepsExist DEF HasRun
  <2>4. ASSUME NEW n \in 0..XLEN
        PROVE  f[n] = IF n = 0 THEN 0 ELSE f[n - 1] + Pow2[n - 1] * b[n - 1]
    <3>1. CASE n = 0
      BY <2>3, <3>1 DEF IsRun
    <3>2. CASE n # 0
      <4>1. n \in 1..XLEN /\ n - 1 \in 0..XLEN
        BY <1>0, <3>2
      <4>2. f[n - 1] \in Int /\ f[n] = g[n][f[n - 1]]
        BY <2>3, <4>1 DEF IsRun
      <4> QED BY <3>2, <4>1, <4>2
    <3> QED BY <3>1, <3>2
  <2>5. f = [n \in 0..XLEN |-> f[n]]
    BY <2>3 DEF IsRun
  <2>6. f = Step(f)
    BY <2>4, <2>5
  <2> QED BY <2>6
<1> DEFINE low == CHOOSE f : f = Step(f)
<1>3. low = Step(low)
  <2> HIDE DEF Step
  <2> QED BY <1>2
<1>4. FromBits(b) = low[XLEN]
  BY DEF FromBits
<1> HIDE DEF low
<1>5. \A n \in 0..XLEN : low[n] = IF n = 0 THEN 0 ELSE low[n - 1] + Pow2[n - 1] * b[n - 1]
  BY Zenon, <1>3
<1> DEFINE Good(n) == /\ low[n] \in 0..(Pow2[n] - 1)
                      /\ \A i \in 0..(n - 1) : BitOf(low[n], i) = b[i]
           S == {n \in Nat : n <= XLEN => Good(n)}
<1>6. 0 \in S
  <2>1. low[0] = 0
    BY <1>0, <1>5
  <2> QED BY <2>1, Powers
<1>7. ASSUME NEW n \in Nat, n \in S PROVE n + 1 \in S
  <2> SUFFICES ASSUME n + 1 <= XLEN PROVE Good(n + 1)
    OBVIOUS
  <2>1. /\ n \in 0..(XLEN - 1) /\ n + 1 \in 0..XLEN /\ n + 1 # 0 /\ (n + 1) - 1 = n
        /\ \A i \in 0..n : i \in 0..(n - 1) \/ i = n
    BY <1>0
  <2>2. Good(n) /\ b[n] \in {0, 1}
    <3>1. n <= XLEN
      BY <1>0
    <3> HIDE DEF Good
    <3>2. Good(n)
      BY <1>7, <3>1
    <3> QED BY <2>1, <3>2
  <2>3. low[n + 1] = low[n] + Pow2[n] * b[n]
    BY <1>5, <2>1
  <2>4. /\ low[n + 1] \in 0..(Pow2[n + 1] - 1)
        /\ BitOf(low[n + 1], n) = b[n]
        /\ \A i \in 0..(n - 1) : BitOf(low[n + 1], i) = BitOf(low[n], i)
    BY <2>1, <2>2, <2>3, TopBit
  <2>5. \A i \in 0..n : BitOf(low[n + 1], i) = b[i]
    BY <2>1, <2>2, <2>4
  <2> QED BY <2>1, <2>4, <2>5
<1>8. Nat \subseteq S
  <2> HIDE DEF S
  <2> QED BY <1>6, <1>7, AllNumbers
<1>9. Good(XLEN)
  BY <1>0, <1>8
<1> QED BY <1>4, <1>9, WordPlaces

\* The bits of the bitwise operations.
LEMMA BitwiseBits ==
    ASSUME NEW u \in Operands, NEW v \in Operands
    PROVE  /\ BitAnd(u, v) \in Operands /\ BitOr(u, v) \in Operands /\ BitXor(u, v) \in Operands
           /\ \A i \in 0..(XLEN - 1) :
                 /\ BitOf(u, i) \in {0, 1} /\ BitOf(v, i) \in {0, 1}
                 /\ BitOf(BitAnd(u, v), i) = BitOf(u, i) * BitOf(v, i)
                 /\ BitOf(BitOr(u, v), i) = BitOf(u, i) + BitOf(v, i) - BitOf(u, i) * BitOf(v, i)
                 /\ BitOf(BitXor(u, v), i) = (BitOf(u, i) + BitOf(v, i)) % 2
<1> DEFINE B == 0..(XLEN - 1)
           a == [i \in B |-> BitOf(u, i) * BitOf(v, i)]
           o == [i \in B |-> BitOf(u, i) + BitOf(v, i) - BitOf(u, i) * BitOf(v, i)]
           e == [i \in B |-> (BitOf(u, i) + BitOf(v, i)) % 2]
<1>1. \A i \in B : BitOf(u, i) \in {0, 1} /\ BitOf(v, i) \in {0, 1}
  <2> SUFFICES ASSUME NEW i \in B PROVE BitOf(u, i) \in {0, 1} /\ BitOf(v, i) \in {0, 1}
    OBVIOUS
  <2>1. u \in Int /\ v \in Int /\ i \in 0..XLEN
    BY WordPlaces
  <2> QED BY <2>1, BitRange
<1>2. \A r, s \in {0, 1} : r * s \in {0, 1} /\ r + s - r * s \in {0, 1} /\ (r + s) % 2 \in {0, 1}
  OBVIOUS
<1>3. a \in [B -> {0, 1}] /\ o \in [B -> {0, 1}] /\ e \in [B -> {0, 1}]
  BY <1>1, <1>2
<1>4. /\ \A i \in B : a[i] = BitOf(u, i) * BitOf(v, i)
      /\ \A i \in B : o[i] = BitOf(u, i) + BitOf(v, i) - BitOf(u, i) * BitOf(v, i)
      /\ \A i \in B : e[i] = (BitOf(u, i) + BitOf(v, i)) % 2
  OBVIOUS
<1>5. BitAnd(u, v) = FromBits(a) /\ BitOr(u, v) = FromBits(o) /\ BitXor(u, v) = FromBits(e)
  BY DEF BitAnd, BitOr, BitXor
<1> HIDE DEF a, o, e
<1>6. /\ FromBits(a) \in Operands /\ \A i \in B : BitOf(FromBits(a), i) = a[i]
      /\ FromBits(o) \in Operands /\ \A i \in B : BitOf(FromBits(o), i) = o[i]
      /\ FromBits(e) \in Operands /\ \A i \in B : BitOf(FromBits(e), i) = e[i]
  BY <1>3, WordOfBits
<1> QED BY <1>1, <1>4, <1>5, <1>6

------------------------------------------------------------------------------
\* Shifts that keep the sign.

\* An or with a sign bit above a number adds it.
LEMMA OrSign ==
    ASSUME NEW n \in 0..(XLEN - 1), NEW low \in 0..(Pow2[n] - 1), NEW b \in {0, 1}
    PROVE  BitOr(low, b * Pow2[n]) = low + b * Pow2[n]
<1> DEFINE s == b * Pow2[n]
           t == low + Pow2[n] * b
<1>1. /\ n \in 0..XLEN /\ n + 1 \in 0..XLEN /\ XLEN \in 0..XLEN /\ XLEN \in Nat
      /\ Pow2[n] \in Nat /\ Pow2[n] > 0
  BY WordPlaces, Powers DEF Power
<1>2. /\ 0 \in 0..(Pow2[n] - 1) /\ low \in Nat
      /\ 0 + Pow2[n] * b = s /\ low + Pow2[n] * 0 = low /\ low + s = t
  BY <1>1
<1>3. n + 1 \in 0..XLEN /\ Pow2[n + 1] <= Pow2[XLEN] /\ Pow2[n + 1] \in Nat
  BY <1>1, PowerOver
<1>4. /\ t \in 0..(Pow2[n + 1] - 1) /\ BitOf(t, n) = b
      /\ \A i \in 0..(n - 1) : BitOf(t, i) = BitOf(low, i)
      /\ \A i \in (n + 1)..(XLEN - 1) : BitOf(t, i) = 0
  BY TopBit
<1>5. /\ s \in 0..(Pow2[n + 1] - 1) /\ BitOf(s, n) = b
      /\ \A i \in 0..(n - 1) : BitOf(s, i) = BitOf(0, i)
      /\ \A i \in (n + 1)..(XLEN - 1) : BitOf(s, i) = 0
  <2> HIDE DEF s
  <2> QED BY <1>2, TopBit
<1>6. /\ low + Pow2[n] * 0 \in 0..(Pow2[n + 1] - 1) /\ BitOf(low + Pow2[n] * 0, n) = 0
      /\ \A i \in (n + 1)..(XLEN - 1) : BitOf(low + Pow2[n] * 0, i) = 0
  <2>1. 0 \in {0, 1}
    OBVIOUS
  <2> QED BY <2>1, TopBit
<1>7. /\ low \in 0..(Pow2[n + 1] - 1) /\ BitOf(low, n) = 0
      /\ \A i \in (n + 1)..(XLEN - 1) : BitOf(low, i) = 0
  BY <1>2, <1>6
<1> HIDE DEF s, t
<1>8. low \in Operands /\ s \in Operands /\ t \in Operands
  BY <1>1, <1>3, <1>4, <1>5, <1>7, WordPlaces
<1>9. \A i \in 0..(XLEN - 1) : BitOf(0, i) = 0
  <2> SUFFICES ASSUME NEW i \in 0..(XLEN - 1) PROVE BitOf(0, i) = 0
    OBVIOUS
  <2>1. Pow2[i] \in Nat /\ 0 \in 0..(Pow2[i] - 1)
    BY WordPlaces, Powers DEF Power
  <2>2. 0 \div Pow2[i] = 0
    BY <2>1, Small
  <2> QED BY <2>2 DEF BitOf
<1>10. ASSUME NEW i \in 0..(XLEN - 1) PROVE BitOf(BitOr(low, s), i) = BitOf(t, i)
  <2>1. /\ BitOf(BitOr(low, s), i) = BitOf(low, i) + BitOf(s, i) - BitOf(low, i) * BitOf(s, i)
        /\ BitOf(low, i) \in {0, 1} /\ BitOf(s, i) \in {0, 1}
    BY <1>8, BitwiseBits
  <2>2. i \in 0..(n - 1) \/ i = n \/ i \in (n + 1)..(XLEN - 1)
    BY <1>1
  <2>3. CASE i \in 0..(n - 1)
    BY <1>4, <1>5, <1>9, <2>1, <2>3
  <2>4. CASE i = n
    BY <1>4, <1>5, <1>7, <2>1, <2>4
  <2>5. CASE i \in (n + 1)..(XLEN - 1)
    BY <1>4, <1>5, <1>7, <2>1, <2>5
  <2> QED BY <2>2, <2>3, <2>4, <2>5
<1>11. BitOr(low, s) \in Operands
  BY <1>8, BitwiseBits
<1>12. BitOr(low, s) = t
  BY <1>8, <1>10, <1>11, SameBits
<1> QED BY <1>2, <1>12 DEF s

\* The words of w bits, and the sign bit in its place.
Narrow(w) == 0..(Pow2[w] - 1)
SignOf(v, w) == v \div Pow2[w - 1]

LEMMA Signs ==
    ASSUME NEW w \in 1..XLEN, NEW v \in Narrow(w)
    PROVE  /\ SignOf(v, w) \in {0, 1}
           /\ v \div 2 \in 0..(Pow2[w - 1] - 1)
           /\ SignOf(v, w) = 1 <=> v >= Pow2[w - 1]
           /\ v \in Nat
<1> DEFINE s == Pow2[w - 1]
<1>1. Pow2[w] = 2 * s /\ s \in Nat /\ s > 0
  BY Half
<1>2. v \in 0..(2 * s - 1)
  BY <1>1 DEF Narrow
<1> HIDE DEF s
<1>3. v \div 2 \in 0..(s - 1) /\ v \in Nat
  BY <1>1, <1>2
<1>4. CASE v >= s
  <2>1. v = 1 * s + (v - s) /\ v - s \in 0..(s - 1) /\ v \in Int /\ 1 \in Int
    BY <1>1, <1>2, <1>4
  <2>2. v \div s = 1
    BY <1>1, <2>1, Quotient
  <2> QED BY <1>3, <1>4, <2>2 DEF SignOf, s
<1>5. CASE ~(v >= s)
  <2>1. v \in 0..(s - 1)
    BY <1>1, <1>2, <1>5
  <2>2. v \div s = 0
    BY <1>1, <2>1, Small
  <2> QED BY <1>3, <1>5, <2>2 DEF SignOf, s
<1> QED BY <1>4, <1>5

\* One round of the loop halves the signed value and leaves the sign alone.
LEMMA OneRound ==
    ASSUME NEW w \in 1..XLEN, NEW v \in Narrow(w), NEW b \in {0, 1}
    PROVE  /\ BitOr(v \div 2, b * Pow2[w - 1]) \in Narrow(w)
           /\ SignOf(v, w) = b =>
                 /\ SignOf(BitOr(v \div 2, b * Pow2[w - 1]), w) = b
                 /\ AsInt(BitOr(v \div 2, b * Pow2[w - 1]), w) = AsInt(v, w) \div 2
<1> DEFINE s == Pow2[w - 1]
           r == BitOr(v \div 2, b * s)
<1>1. Pow2[w] = 2 * s /\ s \in Nat /\ s > 0 /\ w - 1 \in 0..(XLEN - 1)
  BY Half, Powers
<1>2. v \div 2 \in 0..(s - 1) /\ v \in Nat
  BY Signs
<1>3. r = (v \div 2) + b * s
  BY <1>1, <1>2, OrSign
<1> HIDE DEF r
<1>4. r \in Narrow(w)
  <2>1. (v \div 2) + b * s \in 0..(2 * s - 1)
    <3> HIDE DEF s
    <3> QED BY <1>1, <1>2
  <2> QED BY <1>1, <1>3, <2>1 DEF Narrow
<1>5. ASSUME SignOf(v, w) = b
      PROVE  SignOf(r, w) = b /\ AsInt(r, w) = AsInt(v, w) \div 2
  <2>1. /\ b = 1 <=> v >= s
        /\ SignOf(r, w) = 1 <=> r >= s
        /\ SignOf(r, w) \in {0, 1}
    BY <1>4, <1>5, Signs
  <2>2. /\ AsInt(v, w) = IF v >= s THEN v - 2 * s ELSE v
        /\ AsInt(r, w) = IF r >= s THEN r - 2 * s ELSE r
    BY <1>1, <1>4, WordAsInt DEF Narrow
  <2> HIDE DEF s
  <2>3. r >= s <=> b = 1
    BY <1>1, <1>2, <1>3
  <2>4. (v - 2 * s) \div 2 = (v \div 2) - s
    BY <1>1, <1>2
  <2>5. CASE b = 1
    <3>1. r = (v \div 2) + s
      BY <1>1, <1>2, <1>3, <2>5
    <3> QED BY <1>1, <1>2, <2>1, <2>2, <2>3, <2>4, <2>5, <3>1
  <2>6. CASE b = 0
    <3>1. r = v \div 2
      BY <1>1, <1>2, <1>3, <2>6
    <3> QED BY <2>1, <2>2, <2>3, <2>6, <3>1
  <2> QED BY <2>5, <2>6
<1> QED BY <1>4, <1>5 DEF r

\* The loops of sra, srai, sraw and sraiw divide the signed value.
LEMMA Shifts ==
    ASSUME NEW w \in 1..XLEN, NEW v \in Narrow(w), NEW n \in 0..(w - 1)
    PROVE  /\ ShiftArith(v, n, w) \in Narrow(w)
           /\ AsInt(ShiftArith(v, n, w), w) = AsInt(v, w) \div Pow2[n]
<1> DEFINE b == v \div Pow2[w - 1]
           sign == b * Pow2[w - 1]
           Step(f) == [i \in 0..n |-> IF i = 0 THEN v ELSE BitOr(f[i - 1] \div 2, sign)]
           g == [i \in 1..n |-> [u \in Narrow(w) |-> BitOr(u \div 2, sign)]]
<1>0. n \in Nat /\ w \in Nat /\ n <= w - 1 /\ XLEN \in Nat /\ w <= XLEN
  BY Powers
<1>1. b \in {0, 1} /\ SignOf(v, w) = b
  BY Signs DEF SignOf
<1> HIDE DEF b
<1>2. \A u \in Narrow(w) : /\ BitOr(u \div 2, sign) \in Narrow(w)
                           /\ SignOf(u, w) = b =>
                                 /\ SignOf(BitOr(u \div 2, sign), w) = b
                                 /\ AsInt(BitOr(u \div 2, sign), w) = AsInt(u, w) \div 2
  BY <1>1, OneRound
<1> HIDE DEF sign
<1>3. \E f : f = Step(f)
  <2>1. g \in [1..n -> [Narrow(w) -> Narrow(w)]]
    BY <1>2
  <2>2. PICK f : IsRun(f, n, Narrow(w), v, g)
    <3> HIDE DEF g
    <3> QED BY <1>0, <2>1, StepsExist DEF HasRun
  <2>3. ASSUME NEW i \in 0..n
        PROVE  f[i] = IF i = 0 THEN v ELSE BitOr(f[i - 1] \div 2, sign)
    <3>1. CASE i = 0
      BY <2>2, <3>1 DEF IsRun
    <3>2. CASE i # 0
      <4>1. i \in 1..n /\ i - 1 \in 0..n
        BY <1>0, <3>2
      <4>2. f[i - 1] \in Narrow(w) /\ f[i] = g[i][f[i - 1]]
        BY <2>2, <4>1 DEF IsRun
      <4> QED BY <3>2, <4>1, <4>2
    <3> QED BY <3>1, <3>2
  <2>4. f = [i \in 0..n |-> f[i]]
    BY <2>2 DEF IsRun
  <2>5. f = Step(f)
    BY <2>3, <2>4
  <2> QED BY <2>5
<1> DEFINE val == CHOOSE f : f = Step(f)
<1>4. val = Step(val)
  <2> HIDE DEF Step
  <2> QED BY <1>3
<1>5. ShiftArith(v, n, w) = val[n]
  BY DEF ShiftArith, sign, b
<1> HIDE DEF val
<1>6. \A i \in 0..n : val[i] = IF i = 0 THEN v ELSE BitOr(val[i - 1] \div 2, sign)
  BY Zenon, <1>4
<1> DEFINE Good(i) == /\ val[i] \in Narrow(w) /\ SignOf(val[i], w) = b
                      /\ AsInt(val[i], w) = AsInt(v, w) \div Pow2[i]
           S == {i \in Nat : i <= n => Good(i)}
<1>7. AsInt(v, w) \in Int
  BY AsIntReads, Signs DEF InRange
<1>8. 0 \in S
  <2>1. val[0] = v
    BY <1>0, <1>6
  <2>2. \A a \in Int : a \div 1 = a
    OBVIOUS
  <2> QED BY <1>1, <1>7, <2>1, <2>2, Powers
<1>9. ASSUME NEW i \in Nat, i \in S PROVE i + 1 \in S
  <2> SUFFICES ASSUME i + 1 <= n PROVE Good(i + 1)
    OBVIOUS
  <2>1. /\ i <= n /\ i + 1 \in 0..n /\ i + 1 # 0 /\ (i + 1) - 1 = i
        /\ i \in 0..XLEN /\ i + 1 \in 1..XLEN
    BY <1>0
  <2>2. Good(i)
    <3> HIDE DEF Good
    <3> QED BY <1>9, <2>1
  <2>3. val[i + 1] = BitOr(val[i] \div 2, sign)
    BY <1>6, <2>1
  <2>4. /\ val[i + 1] \in Narrow(w) /\ SignOf(val[i + 1], w) = b
        /\ AsInt(val[i + 1], w) = AsInt(val[i], w) \div 2
    BY <1>2, <2>2, <2>3
  <2>5. Pow2[i + 1] = 2 * Pow2[i] /\ Pow2[i] \in Nat /\ Pow2[i] > 0
    BY <2>1, Powers DEF Power
  <2>6. (AsInt(v, w) \div Pow2[i]) \div 2 = AsInt(v, w) \div Pow2[i + 1]
    BY <1>7, <2>5, Twice
  <2> QED BY <2>2, <2>4, <2>6
<1>10. Nat \subseteq S
  <2> HIDE DEF S
  <2> QED BY <1>8, <1>9, AllNumbers
<1>11. Good(n)
  <2> HIDE DEF Good
  <2> QED BY <1>0, <1>10
<1> QED BY <1>5, <1>11

------------------------------------------------------------------------------
\* The functions.

LEMMA WordReads ==
    ASSUME NEW v \in Operands
    PROVE  /\ AsInt(v, XLEN) \in Int
           /\ \E k \in Int : v = AsInt(v, XLEN) + k * Pow2[XLEN]
<1>1. v \in Int /\ XLEN \in 1..XLEN
  BY WordPlaces
<1>2. InRange(AsInt(v, XLEN), XLEN) /\ \E k \in Int : v = AsInt(v, XLEN) + k * Pow2[XLEN]
  BY <1>1, AsIntReads
<1> QED BY <1>2 DEF InRange

\* A word is the word of its signed reading.
LEMMA WordBack ==
    ASSUME NEW v \in Operands
    PROVE  ToWord(AsInt(v, XLEN)) = v
<1>1. v \in Int /\ v \in 0..(Pow2[XLEN] - 1) /\ Pow2[XLEN] \in Nat
  BY WordPlaces
<1>2. PICK k \in Int : AsInt(v, XLEN) \in Int /\ v = AsInt(v, XLEN) + k * Pow2[XLEN]
  BY WordReads
<1>3. ToWord(v) = ToWord(AsInt(v, XLEN))
  BY <1>2, SameWord
<1>4. ToWord(v) = v
  BY <1>1, Small DEF ToWord
<1> QED BY <1>3, <1>4

\* Whole words of w bits are nothing to a signed reading of w bits.
LEMMA SameSigned ==
    ASSUME NEW n \in Int, NEW k \in Int, NEW w \in 1..XLEN
    PROVE  AsInt(n + k * Pow2[w], w) = AsInt(n, w)
<1>1. PICK j \in Int : InRange(AsInt(n, w), w) /\ n = AsInt(n, w) + j * Pow2[w]
  BY AsIntReads
<1> DEFINE a == AsInt(n, w)
<1>2. InRange(a, w) /\ a \in Int /\ n = a + j * Pow2[w] /\ j + k \in Int
  BY <1>1 DEF InRange
<1> HIDE DEF a
<1>3. Pow2[w] \in Int
  BY Half
<1>4. n + k * Pow2[w] = a + (j + k) * Pow2[w]
  <2>1. (j + k) * Pow2[w] = j * Pow2[w] + k * Pow2[w]
    BY <1>3
  <2>2. j * Pow2[w] \in Int /\ k * Pow2[w] \in Int
    BY <1>3
  <2> QED BY <1>2, <2>1, <2>2
<1>5. AsInt(a + (j + k) * Pow2[w], w) = a
  BY <1>2, AsIntOnly
<1> QED BY <1>4, <1>5 DEF a

LEMMA LowHalf ==
    ASSUME NEW v \in Int
    PROVE  /\ Lower(v) \in 0..(Pow2[H] - 1) /\ Lower(v) \in Int
           /\ \E k \in Int : Lower(v) = v + k * Pow2[H]
<1>1. Pow2[H] \in Nat /\ Pow2[H] > 0 /\ H \in 1..XLEN
  BY Widths, Half
<1>2. v \div Pow2[H] \in Int /\ Lower(v) \in 0..(Pow2[H] - 1)
      /\ v = (v \div Pow2[H]) * Pow2[H] + Lower(v)
  BY <1>1, Division DEF Lower
<1> DEFINE q == v \div Pow2[H]
<1>3. q \in Int /\ v = q * Pow2[H] + Lower(v) /\ Lower(v) \in Int
  BY <1>1, <1>2
<1> HIDE DEF q
<1>4. -q \in Int /\ Lower(v) = v + (-q) * Pow2[H]
  BY <1>1, <1>3
<1> QED BY <1>2, <1>3, <1>4

\* What is extended from the low half has that half's sign.
LEMMA Extended ==
    ASSUME NEW n \in Int, NEW m \in Int, NEW k \in Int, m = n + k * Pow2[H]
    PROVE  /\ SignExtend(m % Pow2[H]) = ToWord(AsInt(n, H))
           /\ SignExtend(m % Pow2[H]) \in Operands
<1>1. H \in 1..XLEN
  BY Widths, Powers
<1>2. PICK j \in Int : Lower(m) = m + j * Pow2[H]
  BY LowHalf
<1>3. AsInt(Lower(m), H) = AsInt(m, H) /\ AsInt(m, H) = AsInt(n, H)
  BY <1>1, <1>2, SameSigned
<1>4. Lower(m) \in 0..(Pow2[H] - 1)
  BY LowHalf
<1> QED BY <1>3, <1>4, SignExtends DEF Lower

LEMMA Amounts ==
    ASSUME NEW v \in Operands
    PROVE  /\ Shamt(v) \in 0..(XLEN - 1) /\ LowBits(v, Log2(XLEN)) = Shamt(v)
           /\ ShamtW(v) \in 0..(H - 1) /\ LowBits(v, Log2(H)) = ShamtW(v)
           /\ Pow2[Shamt(v)] \in Nat /\ Pow2[Shamt(v)] > 0
           /\ Pow2[ShamtW(v)] \in Nat /\ Pow2[ShamtW(v)] > 0
<1>1. v \in Nat /\ XLEN \in Nat /\ XLEN > 0 /\ H \in Nat /\ H > 0 /\ H <= XLEN
  BY WordPlaces, Widths, Powers
<1>2. Shamt(v) \in 0..(XLEN - 1) /\ ShamtW(v) \in 0..(H - 1)
  BY <1>1, Division DEF Shamt, ShamtW
<1>3. Shamt(v) \in 0..XLEN /\ ShamtW(v) \in 0..XLEN
  BY <1>1, <1>2
<1>4. LowBits(v, Log2(XLEN)) = Shamt(v) /\ LowBits(v, Log2(H)) = ShamtW(v)
  BY Widths DEF LowBits, Shamt, ShamtW
<1> QED BY <1>2, <1>3, <1>4, Powers DEF Power

LEMMA Sums ==
    ASSUME NEW u \in Operands, NEW v \in Operands
    PROVE  /\ Add(u, v) = ToWord(AsInt(u, XLEN) + AsInt(v, XLEN)) /\ Add(u, v) \in Operands
           /\ Sub(u, v) = ToWord(AsInt(u, XLEN) - AsInt(v, XLEN)) /\ Sub(u, v) \in Operands
<1> DEFINE a == AsInt(u, XLEN)
           b == AsInt(v, XLEN)
           m == Pow2[XLEN]
<1>1. PICK j \in Int : a \in Int /\ u = a + j * m
  BY WordReads
<1>2. PICK k \in Int : b \in Int /\ v = b + k * m
  BY WordReads
<1>3. m \in Int
  BY WordPlaces
<1>4. Add(u, v) = ToWord(u + v) /\ Sub(u, v) = ToWord(u - v)
  BY DEF Add, Sub, ToWord
<1>5. /\ a + b \in Int /\ a - b \in Int /\ j + k \in Int /\ j - k \in Int
      /\ u + v = (a + b) + (j + k) * m
      /\ u - v = (a - b) + (j - k) * m
  <2> HIDE DEF a, b, m
  <2>1. (j + k) * m = j * m + k * m /\ (j - k) * m = j * m - k * m
    BY <1>3
  <2>2. j * m \in Int /\ k * m \in Int
    BY <1>3
  <2> QED BY <1>1, <1>2, <2>1, <2>2
<1>6. /\ ToWord((a + b) + (j + k) * m) = ToWord(a + b) /\ ToWord(a + b) \in Operands
      /\ ToWord((a - b) + (j - k) * m) = ToWord(a - b) /\ ToWord(a - b) \in Operands
  <2> HIDE DEF a, b
  <2> QED BY <1>5, SameWord
<1> QED BY <1>4, <1>5, <1>6

LEMMA SumsW ==
    ASSUME NEW u \in Operands, NEW v \in Operands
    PROVE  /\ Addw(u, v) = ToWord(AsInt(u + v, H)) /\ Addw(u, v) \in Operands
           /\ Subw(u, v) = ToWord(AsInt(u - v, H)) /\ Subw(u, v) \in Operands
<1> DEFINE a == Lower(u)
           b == Lower(v)
           m == Pow2[H]
<1>1. u \in Int /\ v \in Int /\ m \in Int
  BY WordPlaces, Widths, Half, Powers DEF Power
<1>2. PICK j \in Int : a \in Int /\ a = u + j * m
  BY <1>1, LowHalf
<1>3. PICK k \in Int : b \in Int /\ b = v + k * m
  BY <1>1, LowHalf
<1>4. /\ a + b \in Int /\ a - b \in Int /\ j + k \in Int /\ j - k \in Int
      /\ u + v \in Int /\ u - v \in Int
      /\ a + b = (u + v) + (j + k) * m
      /\ a - b = (u - v) + (j - k) * m
  <2> HIDE DEF a, b, m
  <2>1. (j + k) * m = j * m + k * m /\ (j - k) * m = j * m - k * m
    BY <1>1
  <2>2. j * m \in Int /\ k * m \in Int
    BY <1>1
  <2> QED BY <1>1, <1>2, <1>3, <2>1, <2>2
<1> HIDE DEF a, b
<1>5. /\ SignExtend((a + b) % Pow2[H]) = ToWord(AsInt(u + v, H))
      /\ SignExtend((a + b) % Pow2[H]) \in Operands
  BY <1>4, Extended
<1>6. /\ SignExtend((a - b) % Pow2[H]) = ToWord(AsInt(u - v, H))
      /\ SignExtend((a - b) % Pow2[H]) \in Operands
  BY <1>4, Extended
<1> QED BY <1>5, <1>6 DEF Addw, Subw, a, b

LEMMA LeftShifts ==
    ASSUME NEW u \in Operands, NEW v \in Operands
    PROVE  /\ Sll(u, v) = ToWord(u * Pow2[Shamt(v)]) /\ Sll(u, v) \in Operands
           /\ Sllw(u, v) = ToWord(AsInt(u * Pow2[ShamtW(v)], H)) /\ Sllw(u, v) \in Operands
<1> DEFINE p == Pow2[ShamtW(v)]
           q == Pow2[Shamt(v)]
           a == Lower(u)
           m == Pow2[H]
<1>1. u \in Int /\ p \in Int /\ q \in Int /\ m \in Int
  <2>1. u \in Int
    BY WordPlaces
  <2>2. p \in Int /\ q \in Int
    BY Amounts
  <2>3. H \in 1..XLEN
    BY Widths, Powers
  <2>4. m \in Int
    BY <2>3, Half
  <2> QED BY <2>1, <2>2, <2>4
<1>2. Sll(u, v) = ToWord(u * q) /\ ToWord(u * q) \in Operands
  <2>1. u * q \in Int /\ 0 \in Int
    BY <1>1
  <2> QED BY <2>1, SameWord DEF Sll, ToWord
<1>3. PICK k \in Int : a \in Int /\ a = u + k * m
  BY <1>1, LowHalf
<1> HIDE DEF p, a
<1>4. u * p \in Int /\ a * p \in Int /\ k * p \in Int /\ a * p = u * p + (k * p) * m
  <2> HIDE DEF m
  <2>1. (u + k * m) * p = u * p + (k * p) * m
    BY <1>1
  <2> QED BY <1>1, <1>3, <2>1
<1>5. /\ SignExtend((a * p) % Pow2[H]) = ToWord(AsInt(u * p, H))
      /\ SignExtend((a * p) % Pow2[H]) \in Operands
  BY <1>4, Extended
<1> QED BY <1>2, <1>5 DEF Sllw, p, a

\* A number divided does not grow.
LEMMA Shrinks ==
    ASSUME NEW v \in Nat, NEW d \in Nat, d > 0
    PROVE  v \div d \in 0..v
<1> DEFINE q == v \div d
           r == v % d
<1>1. q \in Int /\ r \in 0..(d - 1) /\ v = q * d + r
  BY Division
<1> HIDE DEF q, r
<1>2. q >= 0
  <2>1. q < 0 => (q + 1) * d <= 0 /\ (q + 1) * d = q * d + d
    BY <1>1
  <2> QED BY <1>1, <2>1
<1>3. q <= v
  <2>1. q * d = q + q * (d - 1) /\ q * (d - 1) >= 0
    BY <1>1, <1>2
  <2> QED BY <1>1, <2>1
<1> QED BY <1>1, <1>2, <1>3 DEF q

LEMMA RightShifts ==
    ASSUME NEW u \in Operands, NEW v \in Operands
    PROVE  /\ Srl(u, v) = u \div Pow2[Shamt(v)] /\ Srl(u, v) \in Operands
           /\ Sra(u, v) = ToWord(AsInt(u, XLEN) \div Pow2[Shamt(v)]) /\ Sra(u, v) \in Operands
           /\ Srlw(u, v) = ToWord(AsInt(Lower(u) \div Pow2[ShamtW(v)], H))
           /\ Srlw(u, v) \in Operands
           /\ Sraw(u, v) = ToWord(AsInt(u, H) \div Pow2[ShamtW(v)]) /\ Sraw(u, v) \in Operands
<1> DEFINE a == Lower(u)
<1>1. H \in 1..XLEN /\ XLEN \in 1..XLEN
  BY Widths, WordPlaces, Powers
<1>2. a \in 0..(Pow2[H] - 1) /\ a \in Nat /\ u \in Nat /\ Pow2[H] \in Nat /\ Pow2[XLEN] \in Nat
  <2>1. u \in Nat /\ u \in Int
    BY WordPlaces
  <2>2. Pow2[H] \in Nat /\ Pow2[XLEN] \in Nat
    BY <1>1, Half
  <2>3. a \in 0..(Pow2[H] - 1)
    BY <2>1, LowHalf
  <2> HIDE DEF a
  <2> QED BY <2>1, <2>2, <2>3
<1>3. AsInt(a, H) = AsInt(u, H)
  <2>1. PICK k \in Int : a = u + k * Pow2[H]
    BY <1>2, LowHalf
  <2> QED BY <1>1, <1>2, <2>1, SameSigned
<1>4. Srl(u, v) = u \div Pow2[Shamt(v)] /\ Srl(u, v) \in Operands
  <2>1. u \div Pow2[Shamt(v)] \in 0..u
    BY <1>2, Amounts, Shrinks
  <2> QED BY <1>2, <2>1, WordPlaces DEF Srl
<1>5. Sra(u, v) = ToWord(AsInt(u, XLEN) \div Pow2[Shamt(v)]) /\ Sra(u, v) \in Operands
  <2> DEFINE s == ShiftArith(u, Shamt(v), XLEN)
  <2>1. s \in Narrow(XLEN) /\ AsInt(s, XLEN) = AsInt(u, XLEN) \div Pow2[Shamt(v)]
    BY <1>1, Amounts, WordPlaces, Shifts DEF Narrow
  <2>2. s \in Operands
    BY <2>1, WordPlaces DEF Narrow
  <2> HIDE DEF s
  <2>3. s = ToWord(AsInt(s, XLEN))
    BY <2>2, WordBack
  <2> QED BY <2>1, <2>2, <2>3 DEF Sra, s
<1> HIDE DEF a
<1>6. /\ SignExtend(a \div Pow2[ShamtW(v)]) = ToWord(AsInt(a \div Pow2[ShamtW(v)], H))
      /\ SignExtend(a \div Pow2[ShamtW(v)]) \in Operands
  <2>1. a \div Pow2[ShamtW(v)] \in 0..a
    BY <1>2, Amounts, Shrinks
  <2>2. a \div Pow2[ShamtW(v)] \in 0..(Pow2[H] - 1)
    BY <1>2, <2>1
  <2> QED BY <2>2, SignExtends
<1>7. Sraw(u, v) = ToWord(AsInt(u, H) \div Pow2[ShamtW(v)]) /\ Sraw(u, v) \in Operands
  <2> DEFINE s == ShiftArith(a, ShamtW(v), H)
  <2>1. s \in Narrow(H) /\ AsInt(s, H) = AsInt(a, H) \div Pow2[ShamtW(v)]
    BY <1>1, <1>2, Amounts, Shifts DEF Narrow
  <2> HIDE DEF s
  <2>2. SignExtend(s) = ToWord(AsInt(s, H)) /\ SignExtend(s) \in Operands
    BY <2>1, SignExtends DEF Narrow
  <2> QED BY <1>3, <2>1, <2>2 DEF Sraw, s, a
<1> QED BY <1>4, <1>5, <1>6, <1>7 DEF Srlw, a

LEMMA Bitwise ==
    ASSUME NEW u \in Operands, NEW v \in Operands, NEW i \in 0..(XLEN - 1)
    PROVE  /\ IsSet(BitAnd(u, v), i) = (IsSet(u, i) /\ IsSet(v, i))
           /\ IsSet(BitOr(u, v), i) = (IsSet(u, i) \/ IsSet(v, i))
           /\ IsSet(BitXor(u, v), i) = (IsSet(u, i) # IsSet(v, i))
<1>1. /\ BitOf(u, i) \in {0, 1} /\ BitOf(v, i) \in {0, 1}
      /\ BitOf(BitAnd(u, v), i) = BitOf(u, i) * BitOf(v, i)
      /\ BitOf(BitOr(u, v), i) = BitOf(u, i) + BitOf(v, i) - BitOf(u, i) * BitOf(v, i)
      /\ BitOf(BitXor(u, v), i) = (BitOf(u, i) + BitOf(v, i)) % 2
  BY BitwiseBits
<1>2. CASE BitOf(u, i) = 0 /\ BitOf(v, i) = 0
  BY <1>1, <1>2 DEF IsSet
<1>3. CASE BitOf(u, i) = 0 /\ BitOf(v, i) = 1
  BY <1>1, <1>3 DEF IsSet
<1>4. CASE BitOf(u, i) = 1 /\ BitOf(v, i) = 0
  BY <1>1, <1>4 DEF IsSet
<1>5. CASE BitOf(u, i) = 1 /\ BitOf(v, i) = 1
  BY <1>1, <1>5 DEF IsSet
<1> QED BY <1>1, <1>2, <1>3, <1>4, <1>5

------------------------------------------------------------------------------
\* The comparisons.

\* The places where two words differ, and the highest of them.
Differ(u, v) == {i \in 0..(XLEN - 1) : IsSet(u, i) # IsSet(v, i)}
Highest(D) == CHOOSE i \in D : \A j \in D : j <= i

LEMMA HighestIs ==
    ASSUME NEW D \in SUBSET (0..(XLEN - 1)), D # {}
    PROVE  Highest(D) \in D /\ \A j \in D : j <= Highest(D)
<1>1. XLEN - 1 \in Nat
  BY XlenAssumption
<1>2. \E i \in D : \A j \in D : j <= i
  BY <1>1, Largest
<1> QED BY <1>2 DEF Highest

\* The larger quotient is of the larger number.
LEMMA QuotientOrder ==
    ASSUME NEW u \in Int, NEW v \in Int, NEW d \in Nat, d > 0, u \div d < v \div d
    PROVE  u < v
<1> DEFINE p == u \div d
           q == v \div d
           r == u % d
           s == v % d
<1>1. p \in Int /\ r \in 0..(d - 1) /\ u = p * d + r
  BY Division
<1>2. q \in Int /\ s \in 0..(d - 1) /\ v = q * d + s
  BY Division
<1>3. p + 1 <= q
  <2> HIDE DEF p, q
  <2>1. p < q
    BY DEF p, q
  <2> QED BY <1>1, <1>2, <2>1
<1> HIDE DEF p, q, r, s
<1>4. (p + 1) * d <= q * d
  <2>1. (q - (p + 1)) * d >= 0
    BY <1>1, <1>2, <1>3
  <2>2. (q - (p + 1)) * d = q * d - (p + 1) * d
    BY <1>1, <1>2
  <2> QED BY <1>1, <1>2, <2>1, <2>2
<1>5. (p + 1) * d = p * d + d
  BY <1>1
<1> QED BY <1>1, <1>2, <1>4, <1>5

\* Words compare as their bits in the highest place where they differ.
LEMMA FirstDifference ==
    ASSUME NEW u \in Operands, NEW v \in Operands, NEW t \in 0..(XLEN - 1),
           BitOf(u, t) # BitOf(v, t),
           \A i \in (t + 1)..(XLEN - 1) : BitOf(u, i) = BitOf(v, i)
    PROVE  u # v /\ (u < v <=> BitOf(v, t) = 1)
<1>1. u \in Int /\ v \in Int /\ t \in 0..XLEN /\ t + 1 \in 0..XLEN
  BY WordPlaces
<1>2. u \div Pow2[t + 1] = v \div Pow2[t + 1]
  BY <1>1, SameAbove
<1> DEFINE c == v \div Pow2[t + 1]
<1>3. c \in Int
  BY <1>1, BitRange
<1>4. u \div Pow2[t] = 2 * c + BitOf(u, t) /\ v \div Pow2[t] = 2 * c + BitOf(v, t)
  BY <1>1, <1>2, NextBit
<1> HIDE DEF c
<1>5. BitOf(u, t) \in {0, 1} /\ BitOf(v, t) \in {0, 1}
  BY <1>1, BitRange
<1>6. Pow2[t] \in Nat /\ Pow2[t] > 0
  BY <1>1, Powers DEF Power
<1>7. CASE BitOf(v, t) = 1
  <2>1. u \div Pow2[t] < v \div Pow2[t]
    BY <1>3, <1>4, <1>5, <1>7
  <2>2. u < v
    BY <1>1, <1>6, <2>1, QuotientOrder
  <2> QED BY <1>1, <1>7, <2>2
<1>8. CASE BitOf(v, t) # 1
  <2>1. v \div Pow2[t] < u \div Pow2[t]
    BY <1>3, <1>4, <1>5, <1>8
  <2>2. v < u
    BY <1>1, <1>6, <2>1, QuotientOrder
  <2> QED BY <1>1, <1>8, <2>2
<1> QED BY <1>7, <1>8

\* The highest bit is the sign.
LEMMA SignBit ==
    ASSUME NEW v \in Operands
    PROVE  /\ IsSet(v, XLEN - 1) <=> v >= Pow2[XLEN - 1]
           /\ Pow2[XLEN] = 2 * Pow2[XLEN - 1] /\ Pow2[XLEN - 1] \in Nat /\ Pow2[XLEN - 1] > 0
           /\ v \in 0..(Pow2[XLEN] - 1)
<1>1. XLEN \in 1..XLEN /\ v \in 0..(Pow2[XLEN] - 1)
  BY WordPlaces
<1>2. v \in Narrow(XLEN)
  BY <1>1 DEF Narrow
<1>3. SignOf(v, XLEN) \in {0, 1} /\ (SignOf(v, XLEN) = 1 <=> v >= Pow2[XLEN - 1])
  BY <1>1, <1>2, Signs
<1>4. 0 % 2 = 0 /\ 1 % 2 = 1
  OBVIOUS
<1>5. BitOf(v, XLEN - 1) = SignOf(v, XLEN)
  BY <1>3, <1>4 DEF BitOf, SignOf
<1>6. IsSet(v, XLEN - 1) <=> v >= Pow2[XLEN - 1]
  BY <1>3, <1>5 DEF IsSet
<1> QED BY <1>1, <1>6, Half

LEMMA Orders ==
    ASSUME NEW u \in Operands, NEW v \in Operands
    PROVE  LET D == Differ(u, v)
               t == Highest(D)
           IN  /\ u = v <=> D = {}
               /\ u < v <=> D # {} /\ IsSet(v, t)
               /\ Signed(u) < Signed(v) <=>
                      D # {} /\ (IF t = XLEN - 1 THEN IsSet(u, t) ELSE IsSet(v, t))
<1> DEFINE D == Differ(u, v)
           t == Highest(D)
           s == Pow2[XLEN - 1]
           m == Pow2[XLEN]
<1>1. /\ m = 2 * s /\ s \in Nat /\ s > 0
      /\ u \in 0..(m - 1) /\ v \in 0..(m - 1)
      /\ IsSet(u, XLEN - 1) <=> u >= s
      /\ IsSet(v, XLEN - 1) <=> v >= s
  BY SignBit
<1>2. /\ Signed(u) = IF u >= s THEN u - m ELSE u
      /\ Signed(v) = IF v >= s THEN v - m ELSE v
  BY DEF Signed
<1>3. \A i \in 0..(XLEN - 1) : BitOf(u, i) \in {0, 1} /\ BitOf(v, i) \in {0, 1}
  BY BitwiseBits
<1>4. \A i \in 0..(XLEN - 1) : i \in D <=> BitOf(u, i) # BitOf(v, i)
  <2> SUFFICES ASSUME NEW i \in 0..(XLEN - 1)
               PROVE  (IsSet(u, i) # IsSet(v, i)) <=> BitOf(u, i) # BitOf(v, i)
    BY DEF Differ
  <2> DEFINE a == BitOf(u, i)
             b == BitOf(v, i)
  <2>1. a \in {0, 1} /\ b \in {0, 1}
    BY <1>3
  <2> HIDE DEF a, b
  <2>2. ((a = 1) # (b = 1)) <=> a # b
    BY <2>1
  <2> QED BY <2>2 DEF IsSet, a, b
<1>5. XLEN \in Nat /\ XLEN - 1 \in 0..(XLEN - 1) /\ D \in SUBSET (0..(XLEN - 1))
  BY WordPlaces, Powers DEF Differ
<1>6. CASE D = {}
  <2>1. \A i \in 0..(XLEN - 1) : BitOf(u, i) = BitOf(v, i)
    BY <1>4, <1>6
  <2>2. u = v
    BY <2>1, SameBits
  <2>3. ~(u < v) /\ ~(Signed(u) < Signed(v))
    BY <1>1, <1>2, <2>2
  <2> QED BY <1>6, <2>2, <2>3
<1>7. CASE D # {}
  <2>1. t \in D /\ \A j \in D : j <= t
    BY <1>5, <1>7, HighestIs
  <2> HIDE DEF D, t
  <2>2. t \in 0..(XLEN - 1) /\ BitOf(u, t) # BitOf(v, t)
    BY <1>4, <1>5, <2>1
  <2>3. ASSUME NEW i \in (t + 1)..(XLEN - 1) PROVE BitOf(u, i) = BitOf(v, i)
    <3>1. i \in 0..(XLEN - 1) /\ ~(i <= t)
      BY <1>5, <2>2
    <3> QED BY <1>4, <2>1, <3>1
  <2>4. u # v /\ (u < v <=> BitOf(v, t) = 1)
    BY <2>2, <2>3, FirstDifference
  <2>5. u < v <=> IsSet(v, t)
    BY <2>4 DEF IsSet
  <2>6. CASE t = XLEN - 1
    <3>1. IsSet(u, t) <=> ~IsSet(v, t)
      BY <1>3, <2>2 DEF IsSet
    <3> HIDE DEF s, m
    <3>2. Signed(u) < Signed(v) <=> IsSet(u, t)
      BY <1>1, <1>2, <2>6, <3>1
    <3> QED BY <1>7, <2>4, <2>5, <2>6, <3>2 DEF D, t
  <2>7. CASE t # XLEN - 1
    <3>1. XLEN - 1 \in (t + 1)..(XLEN - 1)
      BY <1>5, <2>2, <2>7
    <3>2. IsSet(u, XLEN - 1) <=> IsSet(v, XLEN - 1)
      BY <2>3, <3>1 DEF IsSet
    <3> HIDE DEF s, m
    <3>3. Signed(u) < Signed(v) <=> u < v
      BY <1>1, <1>2, <3>2
    <3> QED BY <1>7, <2>4, <2>5, <2>7, <3>3 DEF D, t
  <2> QED BY <2>6, <2>7
<1> QED BY <1>6, <1>7

------------------------------------------------------------------------------
\* The handlers' results against the manual's.

\* The tables of results and conditions are those of the operands.
AluInv ==
    /\ x \in Operands /\ y \in Operands
    /\ result = [f \in AluFn |-> Compute(f, x, y)]
    /\ taken = [c \in AluCond |-> Holds(c, x, y)]

\* Every function of two words is a word.
THEOREM ComputesWords ==
    ASSUME NEW f \in AluFn, NEW u \in Operands, NEW v \in Operands
    PROVE  Compute(f, u, v) \in Operands
<1>1. /\ Compute("add", u, v) \in Operands /\ Compute("sub", u, v) \in Operands
      /\ Compute("addw", u, v) \in Operands /\ Compute("subw", u, v) \in Operands
  BY Sums, SumsW DEF Compute
<1>2. /\ Compute("sll", u, v) \in Operands /\ Compute("sllw", u, v) \in Operands
      /\ Compute("srl", u, v) \in Operands /\ Compute("sra", u, v) \in Operands
      /\ Compute("srlw", u, v) \in Operands /\ Compute("sraw", u, v) \in Operands
  BY LeftShifts, RightShifts DEF Compute
<1>3. /\ Compute("and", u, v) \in Operands /\ Compute("or", u, v) \in Operands
      /\ Compute("xor", u, v) \in Operands
  BY BitwiseBits DEF Compute
<1>4. Compute("slt", u, v) \in Operands /\ Compute("sltu", u, v) \in Operands
  <2>1. \A b \in {0, 1} : b \in Operands
    BY SignBit, WordPlaces
  <2>2. Slt(u, v) \in {0, 1} /\ Sltu(u, v) \in {0, 1}
    BY DEF Slt, Sltu, Bit
  <2> QED BY <2>1, <2>2 DEF Compute
<1> QED BY <1>1, <1>2, <1>3, <1>4 DEF AluFn

LEMMA AluInvariance == AluSpec => []AluInv
<1>1. ASSUME AluInit PROVE AluInv
  <2>1. 0 \in Operands
    BY WordPlaces
  <2> QED BY <1>1, <2>1 DEF AluInit, AluInv
<1>2. ASSUME AluInv, [AluNext]_<<x, y, result, taken>> PROVE AluInv'
  <2>1. CASE AluNext
    <3>1. y' \in Operands
      <4>1. y + 1 \in Int /\ Pow2[XLEN] \in Nat /\ Pow2[XLEN] > 0
        BY <1>2, WordPlaces DEF AluInv
      <4>2. (y + 1) % Pow2[XLEN] \in Operands
        BY <4>1, Division, WordPlaces
      <4> QED BY <2>1, <4>2 DEF AluNext
    <3> QED BY <1>2, <2>1, <3>1 DEF AluInv, AluNext, Operands
  <2>2. CASE UNCHANGED <<x, y, result, taken>>
    BY <1>2, <2>2 DEF AluInv, Operands
  <2> QED BY <1>2, <2>1, <2>2
<1> QED BY <1>1, <1>2, PTL DEF AluSpec

\* At every width the loops, casts and masks of the execute_* handlers compute
\* what the manual's integers do.
THEOREM ArithmeticIsManual == AluSpec => []ArithmeticMatchesManual
<1>1. ASSUME AluInv PROVE ArithmeticMatchesManual
  <2>1. x \in Operands /\ y \in Operands
    BY <1>1 DEF AluInv
  <2>2. \A f \in AluFn : result[f] = Compute(f, x, y)
    BY <1>1 DEF AluInv
  <2>3. /\ result["add"] = Add(x, y) /\ result["sub"] = Sub(x, y)
        /\ result["sll"] = Sll(x, y) /\ result["srl"] = Srl(x, y) /\ result["sra"] = Sra(x, y)
        /\ result["and"] = BitAnd(x, y) /\ result["or"] = BitOr(x, y)
        /\ result["xor"] = BitXor(x, y)
        /\ result["addw"] = Addw(x, y) /\ result["subw"] = Subw(x, y)
        /\ result["sllw"] = Sllw(x, y) /\ result["srlw"] = Srlw(x, y)
        /\ result["sraw"] = Sraw(x, y)
    BY <2>2 DEF AluFn, Compute
  <2>4. LowBits(y, Log2(XLEN)) = Shamt(y) /\ LowBits(y, Log2(H)) = ShamtW(y)
    BY <2>1, Amounts
  <2>5. /\ result["add"] = ToWord(AsInt(x, XLEN) + AsInt(y, XLEN))
        /\ result["sub"] = ToWord(AsInt(x, XLEN) - AsInt(y, XLEN))
        /\ result["addw"] = ToWord(AsInt(x + y, H))
        /\ result["subw"] = ToWord(AsInt(x - y, H))
    BY <2>1, <2>3, Sums, SumsW
  <2>6. /\ result["sll"] = ToWord(x * Pow2[Shamt(y)])
        /\ result["sllw"] = ToWord(AsInt(x * Pow2[ShamtW(y)], H))
    BY <2>1, <2>3, LeftShifts
  <2>7. /\ result["srl"] = x \div Pow2[Shamt(y)]
        /\ result["sra"] = ToWord(AsInt(x, XLEN) \div Pow2[Shamt(y)])
        /\ result["srlw"] = ToWord(AsInt(LowBits(x, H) \div Pow2[ShamtW(y)], H))
        /\ result["sraw"] = ToWord(AsInt(x, H) \div Pow2[ShamtW(y)])
    BY <2>1, <2>3, RightShifts DEF LowBits, Lower
  <2>8. \A i \in 0..(XLEN - 1) :
            /\ IsSet(result["and"], i) = (IsSet(x, i) /\ IsSet(y, i))
            /\ IsSet(result["or"], i) = (IsSet(x, i) \/ IsSet(y, i))
            /\ IsSet(result["xor"], i) = (IsSet(x, i) # IsSet(y, i))
    BY <2>1, <2>3, Bitwise
  <2> QED BY <2>4, <2>5, <2>6, <2>7, <2>8 DEF ArithmeticMatchesManual
<1> QED BY <1>1, AluInvariance, PTL

\* At every width slt, sltu and the branches order operands bit by bit, as the
\* manual does.
THEOREM ComparisonsAreManual == AluSpec => []ComparisonsMatchManual
<1>1. ASSUME AluInv PROVE ComparisonsMatchManual
  <2> DEFINE D == Differ(x, y)
             t == Highest(D)
             below == D # {} /\ IsSet(y, t)
             belowSigned == D # {} /\ (IF t = XLEN - 1 THEN IsSet(x, t) ELSE IsSet(y, t))
  <2>1. x \in Operands /\ y \in Operands /\ x \in Int /\ y \in Int
    BY <1>1, WordPlaces DEF AluInv
  <2>2. /\ x = y <=> D = {}
        /\ x < y <=> below
        /\ Signed(x) < Signed(y) <=> belowSigned
    BY <2>1, Orders
  <2>3. Signed(x) \in Int /\ Signed(y) \in Int
    BY <2>1, WordPlaces, SignBit DEF Signed
  <2>4. /\ result["slt"] = Slt(x, y) /\ result["sltu"] = Sltu(x, y)
        /\ \A c \in AluCond : taken[c] = Holds(c, x, y)
    BY <1>1 DEF AluInv, AluFn, Compute
  <2>5. /\ taken["eq"] = (x = y) /\ taken["ne"] = (x # y)
        /\ taken["ltu"] = (x < y) /\ taken["geu"] = (x >= y)
        /\ taken["lt"] = (Signed(x) < Signed(y)) /\ taken["ge"] = (Signed(x) >= Signed(y))
    BY <2>4 DEF AluCond, Holds
  <2>6. x >= y <=> ~(x < y)
    BY <2>1
  <2>7. Signed(x) >= Signed(y) <=> ~(Signed(x) < Signed(y))
    BY <2>3
  <2> HIDE DEF D, t, below, belowSigned
  <2>8. /\ taken["eq"] = (D = {}) /\ taken["ne"] = ~taken["eq"]
        /\ taken["ltu"] = below /\ taken["geu"] = ~taken["ltu"]
        /\ taken["lt"] = belowSigned /\ taken["ge"] = ~taken["lt"]
    <3>1. below \in BOOLEAN /\ belowSigned \in BOOLEAN
      BY DEF below, belowSigned, IsSet
    <3>2. taken["eq"] = (D = {}) /\ taken["ne"] = ~taken["eq"]
      BY <2>2, <2>5
    <3>3. taken["ltu"] = below /\ taken["geu"] = ~taken["ltu"]
      BY <2>2, <2>5, <2>6, <3>1
    <3>4. taken["lt"] = belowSigned /\ taken["ge"] = ~taken["lt"]
      BY <2>2, <2>5, <2>7, <3>1
    <3> QED BY <3>2, <3>3, <3>4
  <2>9. result["sltu"] = Bit(below) /\ result["slt"] = Bit(belowSigned)
    BY <2>2, <2>4 DEF Slt, Sltu, Bit
  <2> QED BY <2>8, <2>9 DEF ComparisonsMatchManual, D, t, below, belowSigned, Differ, Highest
<1> QED BY <1>1, AluInvariance, PTL
===============================================================================
