----------------------------- MODULE Decode_proofs -----------------------------
(***************************************************************************)
(* Theorems about the decoder, for every instruction word: what MCDecode   *)
(* tries on words with few bits set, and with the bits its two families    *)
(* leave open all clear or all set, holds whatever the bits are.           *)
(***************************************************************************)
EXTENDS MCDecode, Recursion_proofs

\* All the words there are.
AnyWord == [InsBit -> {0, 1}]

------------------------------------------------------------------------------
\* Fields as numbers.

\* Extract is a recursion of at most seven steps, for the fields of the decoder.
LEMMA ExtractUnfolds ==
    ASSUME NEW ins, NEW pos \in Nat, NEW size \in 1..7,
           \A k \in 1..size : ins[pos + size - k] \in {0, 1}
    PROVE  \E top : /\ Extract(ins, pos, size) = top[size]
                    /\ top[0] = 0
                    /\ \A n \in 1..size : top[n] = 2 * top[n - 1] + ins[pos + size - n]
<1> DEFINE b(k) == ins[pos + size - k]
           f1 == b(1)
           f2 == 2 * f1 + b(2)
           f3 == 2 * f2 + b(3)
           f4 == 2 * f3 + b(4)
           f5 == 2 * f4 + b(5)
           f6 == 2 * f5 + b(6)
           f7 == 2 * f6 + b(7)
           f == [n \in 0..size |->
                   IF n = 0 THEN 0 ELSE IF n = 1 THEN f1 ELSE IF n = 2 THEN f2
                   ELSE IF n = 3 THEN f3 ELSE IF n = 4 THEN f4 ELSE IF n = 5 THEN f5
                   ELSE IF n = 6 THEN f6 ELSE f7]
           Step(g) == [n \in 0..size |-> IF n = 0 THEN 0 ELSE 2 * g[n - 1] + b(n)]
<1>1. f = Step(f)
  <2> SUFFICES ASSUME NEW n \in 0..size
               PROVE  f[n] = IF n = 0 THEN 0 ELSE 2 * f[n - 1] + b(n)
    OBVIOUS
  <2>1. b(1) \in Int
    OBVIOUS
  <2> HIDE DEF b
  <2>2. CASE n = 0
    BY <2>2
  <2>3. CASE n = 1
    BY <2>1, <2>3
  <2>4. CASE n \in 2..7
    BY <2>4
  <2> QED BY <2>2, <2>3, <2>4
<1> DEFINE top == CHOOSE g : g = Step(g)
<1>2. top = Step(top)
  <2> HIDE DEF Step, f
  <2> QED BY <1>1
<1>3. Extract(ins, pos, size) = top[size]
  BY DEF Extract
<1> HIDE DEF top
<1>4. top[0] = 0 /\ \A n \in 1..size : top[n] = 2 * top[n - 1] + ins[pos + size - n]
  BY <1>2
<1> QED BY <1>3, <1>4

\* The fields that select a handler, as sums.
LEMMA Extract3 ==
    ASSUME NEW w \in AnyWord, NEW pos \in 0..29
    PROVE  Extract(w, pos, 3) = 4 * w[pos + 2] + 2 * w[pos + 1] + w[pos]
<1>1. \A k \in 1..3 : w[pos + 3 - k] \in {0, 1}
  BY DEF AnyWord, InsBit
<1>2. PICK top : /\ Extract(w, pos, 3) = top[3]
                 /\ top[0] = 0
                 /\ \A n \in 1..3 : top[n] = 2 * top[n - 1] + w[pos + 3 - n]
  BY <1>1, ExtractUnfolds
<1>3. /\ top[1] = 2 * top[0] + w[pos + 2]
      /\ top[2] = 2 * top[1] + w[pos + 1]
      /\ top[3] = 2 * top[2] + w[pos]
  <2>1. 1 \in 1..3 /\ 2 \in 1..3 /\ 3 \in 1..3
    OBVIOUS
  <2> QED BY <1>2, <2>1
<1>4. w[pos] \in {0, 1} /\ w[pos + 1] \in {0, 1} /\ w[pos + 2] \in {0, 1}
  BY DEF AnyWord, InsBit
<1> QED BY <1>2, <1>3, <1>4

Sum7(w, pos) ==
    64 * w[pos + 6] + 32 * w[pos + 5] + 16 * w[pos + 4] + 8 * w[pos + 3]
        + 4 * w[pos + 2] + 2 * w[pos + 1] + w[pos]

LEMMA Extract7 ==
    ASSUME NEW w \in AnyWord, NEW pos \in 0..25
    PROVE  Extract(w, pos, 7) = Sum7(w, pos)
<1>1. \A k \in 1..7 : w[pos + 7 - k] \in {0, 1}
  BY DEF AnyWord, InsBit
<1>2. PICK top : /\ Extract(w, pos, 7) = top[7]
                 /\ top[0] = 0
                 /\ \A n \in 1..7 : top[n] = 2 * top[n - 1] + w[pos + 7 - n]
  <2>1. pos \in Nat /\ 7 \in 1..7
    OBVIOUS
  <2> HIDE DEF AnyWord
  <2> QED BY <1>1, <2>1, ExtractUnfolds
<1>3. /\ top[1] = 2 * top[0] + w[pos + 6]
      /\ top[2] = 2 * top[1] + w[pos + 5]
      /\ top[3] = 2 * top[2] + w[pos + 4]
      /\ top[4] = 2 * top[3] + w[pos + 3]
      /\ top[5] = 2 * top[4] + w[pos + 2]
      /\ top[6] = 2 * top[5] + w[pos + 1]
      /\ top[7] = 2 * top[6] + w[pos]
  <2>1. \A n \in 1..7 : n - 1 \in Int
    OBVIOUS
  <2> QED BY <1>2, <2>1
<1>4. /\ w[pos] \in {0, 1} /\ w[pos + 1] \in {0, 1} /\ w[pos + 2] \in {0, 1}
      /\ w[pos + 3] \in {0, 1} /\ w[pos + 4] \in {0, 1} /\ w[pos + 5] \in {0, 1}
      /\ w[pos + 6] \in {0, 1}
  BY DEF AnyWord, InsBit
<1> QED BY <1>2, <1>3, <1>4 DEF Sum7

LEMMA FieldsTyped ==
    ASSUME NEW w \in AnyWord
    PROVE  /\ decode_opcode(w) \in 0..127
           /\ decode_func3(w) \in Func3
           /\ decode_func7(w) \in Func7
           /\ HackFunc7(w) \in Func7
<1>1. \A n \in InsBit : w[n] \in {0, 1}
  BY DEF AnyWord
<1>2. decode_opcode(w) \in 0..127
  <2>1. 0 + 6 \in InsBit /\ 0 + 5 \in InsBit /\ 0 + 4 \in InsBit /\ 0 + 3 \in InsBit
            /\ 0 + 2 \in InsBit /\ 0 + 1 \in InsBit /\ 0 \in InsBit
    BY DEF InsBit
  <2> QED BY <1>1, <2>1, Extract7 DEF decode_opcode, Sum7
<1>3. decode_func3(w) \in Func3
  <2>1. 12 + 2 \in InsBit /\ 12 + 1 \in InsBit /\ 12 \in InsBit
    BY DEF InsBit
  <2> QED BY <1>1, <2>1, Extract3 DEF decode_func3, Func3
<1>4. decode_func7(w) \in Func7
  <2>1. 25 + 6 \in InsBit /\ 25 + 5 \in InsBit /\ 25 + 4 \in InsBit /\ 25 + 3 \in InsBit
            /\ 25 + 2 \in InsBit /\ 25 + 1 \in InsBit /\ 25 \in InsBit
    BY DEF InsBit
  <2> QED BY <1>1, <2>1, Extract7 DEF decode_func7, Func7, Sum7
<1>5. HackFunc7(w) \in Func7
  BY <1>4 DEF HackFunc7, Func7
<1> QED BY <1>2, <1>3, <1>4, <1>5

------------------------------------------------------------------------------
\* The handler table.

\* A set of registrations has a last one.
LEMMA LastOf ==
    ASSUME NEW hits \in SUBSET (1..49), hits # {}
    PROVE  Max(hits) \in hits
<1>1. hits \in SUBSET (0..49) /\ 49 \in Nat
  OBVIOUS
<1>2. PICK r \in hits : \A q \in hits : q <= r
  BY <1>1, Largest
<1>3. \A q \in hits : r >= q
  BY <1>1, <1>2
<1> QED BY <1>3 DEF Max

LEMMA Rows == DOMAIN Registrations = 1..49
  BY DEF Registrations

\* Registration r is for these fields.
Matches(r, opcode, func3, func7) ==
    /\ r \in 1..49
    /\ Registrations[r].opcode = opcode
    /\ func3 \in Registrations[r].func3
    /\ func7 \in Registrations[r].func7

\* A handler of the table is there for its opcode.
LEMMA EntryFrom ==
    ASSUME NEW opcode, NEW func3, NEW func7, Entry(opcode, func3, func7) # "illegal"
    PROVE  \E r \in 1..49 : /\ Matches(r, opcode, func3, func7)
                            /\ Entry(opcode, func3, func7) = Registrations[r].handler
<1> DEFINE hits == {r \in DOMAIN Registrations : 
                       /\ Registrations[r].opcode = opcode
                       /\ func3 \in Registrations[r].func3
                       /\ func7 \in Registrations[r].func7}
<1>1. hits # {} /\ Entry(opcode, func3, func7) = Registrations[Max(hits)].handler
  BY DEF Entry
<1>2. Max(hits) \in hits
  BY <1>1, LastOf, Rows
<1> QED BY <1>1, <1>2, Rows DEF Matches

\* The only registration for some fields is the one that counts.
LEMMA EntryHit ==
    ASSUME NEW opcode, NEW func3, NEW func7, NEW r, Matches(r, opcode, func3, func7),
           \A q \in 1..49 : Matches(q, opcode, func3, func7) => q = r
    PROVE  Entry(opcode, func3, func7) = Registrations[r].handler
<1> DEFINE hits == {q \in DOMAIN Registrations :
                       /\ Registrations[q].opcode = opcode
                       /\ func3 \in Registrations[q].func3
                       /\ func7 \in Registrations[q].func7}
<1>1. hits = {r}
  BY Rows DEF Matches
<1>2. Max(hits) = r
  BY <1>1, LastOf, Rows
<1> QED BY <1>1, <1>2 DEF Entry

\* Fields nobody registered are illegal.
LEMMA EntryMissed ==
    ASSUME NEW opcode, NEW func3, NEW func7,
           \A q \in 1..49 : ~Matches(q, opcode, func3, func7)
    PROVE  Entry(opcode, func3, func7) = "illegal"
  BY Rows DEF Entry, Matches

\* The struct of each kind of handler.
LEMMA TakesI ==
    \A h \in {"addi", "slti", "sltiu", "xori", "ori", "andi", "slli", "srlai", "addiw",
              "slliw", "srlaiw", "jalr", "lb", "lh", "lw", "ld", "lbu", "lhu", "lwu"} :
        Takes(h) = "i"
  BY DEF Takes

LEMMA TakesS == \A h \in {"sb", "sh", "sw", "sd"} : Takes(h) = "s"
  BY DEF Takes

LEMMA TakesB == \A h \in {"beq", "bne", "blt", "bge", "bltu", "bgeu"} : Takes(h) = "b"
  BY DEF Takes

LEMMA TakesUJ == \A h \in {"lui", "auipc"} : Takes(h) = "u" /\ Takes("jal") = "j"
  BY DEF Takes

LEMMA TakesR ==
    \A h \in {"add", "sub", "sll", "slt", "sltu", "xor", "srla", "or", "and", "addw",
              "subw", "sllw", "srlaw"} : Takes(h) = "r"
  BY DEF Takes

\* The format of each opcode of the table.
LEMMA Formats ==
    /\ \A o \in {LOAD, OP_IMM, OP_IMM_32, JALR} : Format(o) = "i"
    /\ Format(STORE) = "s"
    /\ Format(BRANCH) = "b"
    /\ \A o \in {LUI, AUIPC} : Format(o) = "u"
    /\ Format(JAL) = "j"
    /\ \A o \in {OP, OP_32} : Format(o) = "r"
  BY DEF Format, ImmediateOps, LOAD, MISC_MEM, OP_IMM, AUIPC, OP_IMM_32, STORE, OP, LUI,
         OP_32, BRANCH, JALR, JAL, SYSTEM

\* The handlers of the table, by the opcodes they are for.
LEMMA RowHandlers ==
    /\ \A r \in 1..2 : /\ Registrations[r].opcode \in {LUI, AUIPC}
                       /\ Registrations[r].handler \in {"lui", "auipc"}
    /\ Registrations[3].opcode = JAL /\ Registrations[3].handler = "jal"
    /\ \A r \in {4} \cup (11..17) \cup (22..34) :
           /\ Registrations[r].opcode \in {LOAD, OP_IMM, OP_IMM_32, JALR}
           /\ Registrations[r].handler \in
                  {"addi", "slti", "sltiu", "xori", "ori", "andi", "slli", "srlai", "addiw",
                   "slliw", "srlaiw", "jalr", "lb", "lh", "lw", "ld", "lbu", "lhu", "lwu"}
    /\ \A r \in 5..10 :
           /\ Registrations[r].opcode = BRANCH
           /\ Registrations[r].handler \in {"beq", "bne", "blt", "bge", "bltu", "bgeu"}
    /\ \A r \in 18..21 :
           /\ Registrations[r].opcode = STORE
           /\ Registrations[r].handler \in {"sb", "sh", "sw", "sd"}
    /\ \A r \in 35..49 :
           /\ Registrations[r].opcode \in {OP, OP_32}
           /\ Registrations[r].handler \in
                  {"add", "sub", "sll", "slt", "sltu", "xor", "srla", "or", "and", "addw",
                   "subw", "sllw", "srlaw"}
<1>1. \A r \in 1..2 : /\ Registrations[r].opcode \in {LUI, AUIPC}
                      /\ Registrations[r].handler \in {"lui", "auipc"}
  BY DEF Registrations, Row, Any
<1>2. Registrations[3].opcode = JAL /\ Registrations[3].handler = "jal"
  BY DEF Registrations, Row, Any
<1>3. \A r \in {4} \cup (11..17) \cup (22..34) :
          /\ Registrations[r].opcode \in {LOAD, OP_IMM, OP_IMM_32, JALR}
          /\ Registrations[r].handler \in
                 {"addi", "slti", "sltiu", "xori", "ori", "andi", "slli", "srlai", "addiw",
                  "slliw", "srlaiw", "jalr", "lb", "lh", "lw", "ld", "lbu", "lhu", "lwu"}
  <2>1. \A r \in {4} \cup (11..17) :
            /\ Registrations[r].opcode \in {LOAD, JALR}
            /\ Registrations[r].handler \in
                   {"jalr", "lb", "lh", "lw", "ld", "lbu", "lhu", "lwu"}
    BY DEF Registrations, Row, F3
  <2>2. \A r \in 22..28 :
            /\ Registrations[r].opcode = OP_IMM
            /\ Registrations[r].handler \in
                   {"addi", "slti", "sltiu", "xori", "ori", "andi", "slli"}
    BY DEF Registrations, Row, F3, F37
  <2>3. \A r \in 29..34 :
            /\ Registrations[r].opcode \in {OP_IMM, OP_IMM_32}
            /\ Registrations[r].handler \in {"srlai", "addiw", "slliw", "srlaiw"}
    BY DEF Registrations, Row, F3, F37
  <2>4. \A r \in 22..34 : r \in 22..28 \/ r \in 29..34
    OBVIOUS
  <2> QED BY <2>1, <2>2, <2>3, <2>4
<1>4. \A r \in 5..10 :
          /\ Registrations[r].opcode = BRANCH
          /\ Registrations[r].handler \in {"beq", "bne", "blt", "bge", "bltu", "bgeu"}
  BY DEF Registrations, Row, F3
<1>5. \A r \in 18..21 :
          /\ Registrations[r].opcode = STORE
          /\ Registrations[r].handler \in {"sb", "sh", "sw", "sd"}
  BY DEF Registrations, Row, F3
<1>6. \A r \in 35..49 :
          /\ Registrations[r].opcode \in {OP, OP_32}
          /\ Registrations[r].handler \in
                 {"add", "sub", "sll", "slt", "sltu", "xor", "srla", "or", "and", "addw",
                  "subw", "sllw", "srlaw"}
  BY DEF Registrations, Row, F37
<1> QED BY <1>1, <1>2, <1>3, <1>4, <1>5, <1>6

\* Every registration is for a handler that takes the format of its opcode.
LEMMA RowTakes ==
    \A r \in 1..49 : Takes(Registrations[r].handler) = Format(Registrations[r].opcode)
<1> SUFFICES ASSUME NEW r \in 1..49
             PROVE  Takes(Registrations[r].handler) = Format(Registrations[r].opcode)
  OBVIOUS
<1>1. CASE r \in 1..2
  BY <1>1, RowHandlers, TakesUJ, Formats
<1>2. CASE r = 3
  BY <1>2, RowHandlers, TakesUJ, Formats
<1>3. CASE r \in {4} \cup (11..17) \cup (22..34)
  BY <1>3, RowHandlers, TakesI, Formats
<1>4. CASE r \in 5..10
  BY <1>4, RowHandlers, TakesB, Formats
<1>5. CASE r \in 18..21
  BY <1>5, RowHandlers, TakesS, Formats
<1>6. CASE r \in 35..49
  BY <1>6, RowHandlers, TakesR, Formats
<1> QED BY <1>1, <1>2, <1>3, <1>4, <1>5, <1>6

\* Whatever a decoder looks up, it looks up for the opcode.
LEMMA LookupIsEntry ==
    ASSUME NEW w, Lookup(w) # "illegal"
    PROVE  \E func3, func7 : Lookup(w) = Entry(decode_opcode(w), func3, func7)
<1>1. Format(decode_opcode(w)) \in {"i", "s", "b", "u", "j", "r", "none"}
  BY DEF Format
<1> QED BY <1>1 DEF Lookup

\* The struct a handler takes is the one the decoder has filled in: true of any word.
LEMMA LookedUpTakesFormat ==
    ASSUME NEW w, Lookup(w) # "illegal"
    PROVE  Takes(Lookup(w)) = Format(decode_opcode(w))
<1>1. PICK func3, func7 : Lookup(w) = Entry(decode_opcode(w), func3, func7)
  BY LookupIsEntry
<1>2. PICK r \in 1..49 : /\ Matches(r, decode_opcode(w), func3, func7)
                         /\ Lookup(w) = Registrations[r].handler
  BY <1>1, EntryFrom
<1> QED BY <1>2, RowTakes DEF Matches

------------------------------------------------------------------------------
\* Immediates.

\* Piece p holds the immediate bit n.
Holds(p, n) == n \in p[3]..(p[3] + p[1] - 1)

LEMMA PieceFound ==
    ASSUME NEW fmt, NEW w, NEW n, NEW p \in Pieces[fmt], Holds(p, n),
           \A q \in Pieces[fmt] : Holds(q, n) => q = p
    PROVE  PieceBit(fmt, w, n) = w[p[2] + n - p[3]]
<1> DEFINE holding == {q \in Pieces[fmt] : n \in q[3]..(q[3] + q[1] - 1)}
<1>1. holding = {p}
  BY DEF Holds
<1>2. (CHOOSE q \in holding : TRUE) = p
  BY <1>1
<1> QED BY <1>1, <1>2 DEF PieceBit

LEMMA PieceMissing ==
    ASSUME NEW fmt, NEW w, NEW n, \A q \in Pieces[fmt] : ~Holds(q, n)
    PROVE  PieceBit(fmt, w, n) = 0
  BY DEF PieceBit, Holds

\* Where each format has its immediate bits.
LEMMA PiecesI ==
    ASSUME NEW w, NEW n \in ImmBit
    PROVE  PieceBit("i", w, n) = IF n <= 11 THEN w[20 + n] ELSE 0
<1>1. Pieces["i"] = {<<12, 20, 0>>}
  BY DEF Pieces
<1>2. n \in Nat
  BY DEF ImmBit
<1>3. CASE n <= 11
  <2>1. Holds(<<12, 20, 0>>, n)
    BY <1>2, <1>3 DEF Holds
  <2>2. PieceBit("i", w, n) = w[20 + n - 0]
    BY <1>1, <2>1, PieceFound
  <2> QED BY <1>2, <1>3, <2>2
<1>4. CASE n > 11
  <2>1. ~Holds(<<12, 20, 0>>, n)
    BY <1>2, <1>4 DEF Holds
  <2> QED BY <1>1, <1>2, <1>4, <2>1, PieceMissing
<1> QED BY <1>2, <1>3, <1>4

LEMMA PiecesS ==
    ASSUME NEW w, NEW n \in ImmBit
    PROVE  PieceBit("s", w, n) = IF n <= 4 THEN w[7 + n]
                                 ELSE IF n <= 11 THEN w[20 + n] ELSE 0
<1>1. Pieces["s"] = {<<5, 7, 0>>, <<7, 25, 5>>}
  BY DEF Pieces
<1>2. n \in Nat
  BY DEF ImmBit
<1>3. /\ Holds(<<5, 7, 0>>, n) <=> n <= 4
      /\ Holds(<<7, 25, 5>>, n) <=> n >= 5 /\ n <= 11
  BY <1>2 DEF Holds
<1>4. CASE n <= 4
  <2>1. PieceBit("s", w, n) = w[7 + n - 0]
    BY <1>1, <1>2, <1>3, <1>4, PieceFound
  <2> QED BY <1>2, <1>4, <2>1
<1>5. CASE n >= 5 /\ n <= 11
  <2>1. PieceBit("s", w, n) = w[25 + n - 5]
    BY <1>1, <1>2, <1>3, <1>5, PieceFound
  <2>2. 25 + n - 5 = 20 + n
    BY <1>2
  <2> QED BY <1>2, <1>5, <2>1, <2>2
<1>6. CASE n > 11
  <2>1. ~Holds(<<5, 7, 0>>, n) /\ ~Holds(<<7, 25, 5>>, n)
    BY <1>2, <1>3, <1>6
  <2>2. PieceBit("s", w, n) = 0
    BY <1>1, <2>1, PieceMissing
  <2> QED BY <1>2, <1>6, <2>2
<1> QED BY <1>2, <1>4, <1>5, <1>6

LEMMA PiecesB ==
    ASSUME NEW w, NEW n \in ImmBit
    PROVE  PieceBit("b", w, n) = IF n \in 1..4 THEN w[7 + n]
                                 ELSE IF n \in 5..10 THEN w[20 + n]
                                 ELSE IF n = 11 THEN w[7]
                                 ELSE IF n = 12 THEN w[31] ELSE 0
<1>1. Pieces["b"] = {<<1, 7, 11>>, <<4, 8, 1>>, <<6, 25, 5>>, <<1, 31, 12>>}
  BY DEF Pieces
<1>2. n \in Nat
  BY DEF ImmBit
<1>3. /\ Holds(<<1, 7, 11>>, n) <=> n = 11
      /\ Holds(<<4, 8, 1>>, n) <=> n \in 1..4
      /\ Holds(<<6, 25, 5>>, n) <=> n \in 5..10
      /\ Holds(<<1, 31, 12>>, n) <=> n = 12
  BY <1>2 DEF Holds
<1>4. CASE n \in 1..4
  <2>1. PieceBit("b", w, n) = w[8 + n - 1]
    BY <1>1, <1>2, <1>3, <1>4, PieceFound
  <2>2. 8 + n - 1 = 7 + n
    BY <1>2
  <2> QED BY <1>4, <2>1, <2>2
<1>5. CASE n \in 5..10
  <2>1. PieceBit("b", w, n) = w[25 + n - 5]
    BY <1>1, <1>2, <1>3, <1>5, PieceFound
  <2>2. 25 + n - 5 = 20 + n
    BY <1>2
  <2> QED BY <1>5, <2>1, <2>2
<1>6. CASE n = 11
  <2>1. PieceBit("b", w, n) = w[7 + n - 11]
    BY <1>1, <1>2, <1>3, <1>6, PieceFound
  <2> QED BY <1>6, <2>1
<1>7. CASE n = 12
  <2>1. PieceBit("b", w, n) = w[31 + n - 12]
    BY <1>1, <1>2, <1>3, <1>7, PieceFound
  <2> QED BY <1>7, <2>1
<1>8. CASE n = 0 \/ n > 12
  <2>1. /\ ~Holds(<<1, 7, 11>>, n) /\ ~Holds(<<4, 8, 1>>, n)
        /\ ~Holds(<<6, 25, 5>>, n) /\ ~Holds(<<1, 31, 12>>, n)
    BY <1>2, <1>3, <1>8
  <2>2. PieceBit("b", w, n) = 0
    BY <1>1, <2>1, PieceMissing
  <2> QED BY <1>2, <1>8, <2>2
<1> QED BY <1>2, <1>4, <1>5, <1>6, <1>7, <1>8

LEMMA PiecesU ==
    ASSUME NEW w, NEW n \in ImmBit
    PROVE  PieceBit("u", w, n) = IF n \in 12..31 THEN w[n] ELSE 0
<1>1. Pieces["u"] = {<<20, 12, 12>>}
  BY DEF Pieces
<1>2. n \in Nat
  BY DEF ImmBit
<1>3. Holds(<<20, 12, 12>>, n) <=> n \in 12..31
  BY <1>2 DEF Holds
<1>4. CASE n \in 12..31
  <2>1. PieceBit("u", w, n) = w[12 + n - 12]
    BY <1>1, <1>3, <1>4, PieceFound
  <2>2. 12 + n - 12 = n
    BY <1>2
  <2> QED BY <1>4, <2>1, <2>2
<1>5. CASE ~(n \in 12..31)
  BY <1>1, <1>3, <1>5, PieceMissing
<1> QED BY <1>4, <1>5

LEMMA PiecesJ ==
    ASSUME NEW w, NEW n \in ImmBit
    PROVE  PieceBit("j", w, n) = IF n \in 1..10 THEN w[20 + n]
                                 ELSE IF n = 11 THEN w[20]
                                 ELSE IF n \in 12..19 THEN w[n]
                                 ELSE IF n = 20 THEN w[31] ELSE 0
<1>1. Pieces["j"] = {<<8, 12, 12>>, <<1, 20, 11>>, <<10, 21, 1>>, <<1, 31, 20>>}
  BY DEF Pieces
<1>2. n \in Nat
  BY DEF ImmBit
<1>3. /\ Holds(<<8, 12, 12>>, n) <=> n \in 12..19
      /\ Holds(<<1, 20, 11>>, n) <=> n = 11
      /\ Holds(<<10, 21, 1>>, n) <=> n \in 1..10
      /\ Holds(<<1, 31, 20>>, n) <=> n = 20
  BY <1>2 DEF Holds
<1>4. CASE n \in 1..10
  <2>1. PieceBit("j", w, n) = w[21 + n - 1]
    BY <1>1, <1>2, <1>3, <1>4, PieceFound
  <2>2. 21 + n - 1 = 20 + n
    BY <1>2
  <2> QED BY <1>4, <2>1, <2>2
<1>5. CASE n = 11
  <2>1. PieceBit("j", w, n) = w[20 + n - 11]
    BY <1>1, <1>2, <1>3, <1>5, PieceFound
  <2> QED BY <1>5, <2>1
<1>6. CASE n \in 12..19
  <2>1. PieceBit("j", w, n) = w[12 + n - 12]
    BY <1>1, <1>2, <1>3, <1>6, PieceFound
  <2>2. 12 + n - 12 = n
    BY <1>2
  <2> QED BY <1>6, <2>1, <2>2
<1>7. CASE n = 20
  <2>1. PieceBit("j", w, n) = w[31 + n - 20]
    BY <1>1, <1>2, <1>3, <1>7, PieceFound
  <2> QED BY <1>7, <2>1
<1>8. CASE n = 0 \/ n > 20
  <2>1. /\ ~Holds(<<8, 12, 12>>, n) /\ ~Holds(<<1, 20, 11>>, n)
        /\ ~Holds(<<10, 21, 1>>, n) /\ ~Holds(<<1, 31, 20>>, n)
    BY <1>2, <1>3, <1>8
  <2>2. PieceBit("j", w, n) = 0
    BY <1>1, <2>1, PieceMissing
  <2> QED BY <1>2, <1>8, <2>2
<1> QED BY <1>2, <1>4, <1>5, <1>6, <1>7, <1>8

\* The manual's layouts, by the bits of the word.
LEMMA LayoutI == \A b \in InsBit : Layout["i"][32 - b] = IF b >= 20 THEN b - 20 ELSE -1
  BY DEF Layout, Down, Gap, InsBit

LEMMA LayoutS ==
    \A b \in InsBit : Layout["s"][32 - b] = IF b >= 25 THEN b - 20
                                            ELSE IF b \in 7..11 THEN b - 7 ELSE -1
  BY DEF Layout, Down, Gap, InsBit

LEMMA LayoutB ==
    \A b \in InsBit : Layout["b"][32 - b] = IF b = 31 THEN 12
                                            ELSE IF b \in 25..30 THEN b - 20
                                            ELSE IF b \in 8..11 THEN b - 7
                                            ELSE IF b = 7 THEN 11 ELSE -1
  BY DEF Layout, Down, Gap, InsBit

LEMMA LayoutU == \A b \in InsBit : Layout["u"][32 - b] = IF b >= 12 THEN b ELSE -1
  BY DEF Layout, Down, Gap, InsBit

LEMMA LayoutJ ==
    \A b \in InsBit : Layout["j"][32 - b] = IF b = 31 THEN 20
                                            ELSE IF b \in 21..30 THEN b - 20
                                            ELSE IF b = 20 THEN 11
                                            ELSE IF b \in 12..19 THEN b ELSE -1
  BY DEF Layout, Down, Gap, InsBit

LEMMA EncodedBits == \A fmt : Encoded(fmt) = {Layout[fmt][32 - b] : b \in InsBit} \ {-1}
<1> SUFFICES ASSUME NEW fmt
             PROVE  {Layout[fmt][k] : k \in 1..32} = {Layout[fmt][32 - b] : b \in InsBit}
  BY DEF Encoded
<1>1. \A k \in 1..32 : 32 - k \in InsBit /\ 32 - (32 - k) = k
  BY DEF InsBit
<1>2. \A b \in InsBit : 32 - b \in 1..32
  BY DEF InsBit
<1> QED BY <1>1, <1>2

\* The decoder takes the immediate bit n from the bit of the word the manual puts it
\* in, and leaves a bit that is not encoded clear.
PlacedAt(fmt, n, b) ==
    b \in InsBit /\ Layout[fmt][32 - b] = n /\ \A w : PieceBit(fmt, w, n) = w[b]
Placed(fmt, n) ==
    IF n \in Encoded(fmt) THEN \E b : PlacedAt(fmt, n, b)
    ELSE \A w : PieceBit(fmt, w, n) = 0

LEMMA PlacedI == Encoded("i") = 0..11 /\ \A n \in ImmBit : Placed("i", n)
<1>1. \A n \in 0..11 : 20 + n \in InsBit /\ 20 + n >= 20 /\ (20 + n) - 20 = n
  BY DEF InsBit
<1>2. \A n \in 0..11 : Layout["i"][32 - (20 + n)] = n
  BY <1>1, LayoutI
<1>3. Encoded("i") = 0..11
  BY <1>1, <1>2, LayoutI, EncodedBits DEF InsBit
<1>4. ASSUME NEW n \in 0..11 PROVE PlacedAt("i", n, 20 + n)
  <2>1. n \in ImmBit /\ n <= 11
    BY DEF ImmBit
  <2> QED BY <1>1, <1>2, <2>1, PiecesI DEF PlacedAt
<1>5. ASSUME NEW n \in ImmBit, n \notin 0..11 PROVE \A w : PieceBit("i", w, n) = 0
  <2>1. ~(n <= 11)
    BY <1>5 DEF ImmBit
  <2> QED BY <2>1, PiecesI
<1> QED BY <1>3, <1>4, <1>5 DEF Placed

LEMMA PlacedS == Encoded("s") = 0..11 /\ \A n \in ImmBit : Placed("s", n)
<1> DEFINE B(n) == IF n <= 4 THEN 7 + n ELSE 20 + n
<1>1. \A n \in 0..11 : B(n) \in InsBit
  BY DEF InsBit
<1>2. \A n \in 0..11 : Layout["s"][32 - B(n)] = n
  BY <1>1, LayoutS
<1>3. Encoded("s") = 0..11
  <2>1. \A b \in InsBit : Layout["s"][32 - b] \in (0..11) \cup {-1}
    BY LayoutS DEF InsBit
  <2> HIDE DEF B
  <2> QED BY <1>1, <1>2, <2>1, EncodedBits
<1>4. ASSUME NEW n \in 0..11 PROVE PlacedAt("s", n, B(n))
  <2>1. n \in ImmBit /\ n <= 11
    BY DEF ImmBit
  <2>2. \A w : PieceBit("s", w, n) = w[B(n)]
    BY <2>1, PiecesS
  <2> QED BY <1>1, <1>2, <2>2 DEF PlacedAt
<1>5. ASSUME NEW n \in ImmBit, n \notin 0..11 PROVE \A w : PieceBit("s", w, n) = 0
  <2>1. ~(n <= 11) /\ ~(n <= 4)
    BY <1>5 DEF ImmBit
  <2> QED BY <2>1, PiecesS
<1> QED BY <1>3, <1>4, <1>5 DEF Placed

LEMMA PlacedB == Encoded("b") = 1..12 /\ \A n \in ImmBit : Placed("b", n)
<1> DEFINE B(n) == IF n <= 4 THEN 7 + n ELSE IF n <= 10 THEN 20 + n
                   ELSE IF n = 11 THEN 7 ELSE 31
<1>1. \A n \in 1..12 : B(n) \in InsBit
  BY DEF InsBit
<1>2. \A n \in 1..12 : Layout["b"][32 - B(n)] = n
  BY <1>1, LayoutB
<1>3. Encoded("b") = 1..12
  <2>1. \A b \in InsBit : Layout["b"][32 - b] \in (1..12) \cup {-1}
    BY LayoutB DEF InsBit
  <2> HIDE DEF B
  <2> QED BY <1>1, <1>2, <2>1, EncodedBits
<1>4. ASSUME NEW n \in 1..12 PROVE PlacedAt("b", n, B(n))
  <2>1. n \in ImmBit
    BY DEF ImmBit
  <2>2. \A w : PieceBit("b", w, n) = w[B(n)]
    BY <2>1, PiecesB
  <2> QED BY <1>1, <1>2, <2>2 DEF PlacedAt
<1>5. ASSUME NEW n \in ImmBit, n \notin 1..12 PROVE \A w : PieceBit("b", w, n) = 0
  BY <1>5, PiecesB DEF ImmBit
<1> QED BY <1>3, <1>4, <1>5 DEF Placed

LEMMA PlacedU == Encoded("u") = 12..31 /\ \A n \in ImmBit : Placed("u", n)
<1>1. \A n \in 12..31 : n \in InsBit /\ n >= 12
  BY DEF InsBit
<1>2. \A n \in 12..31 : Layout["u"][32 - n] = n
  BY <1>1, LayoutU
<1>3. Encoded("u") = 12..31
  <2>1. \A b \in InsBit : Layout["u"][32 - b] \in (12..31) \cup {-1}
    BY LayoutU DEF InsBit
  <2> QED BY <1>1, <1>2, <2>1, EncodedBits
<1>4. ASSUME NEW n \in 12..31 PROVE PlacedAt("u", n, n)
  <2>1. n \in ImmBit
    BY DEF ImmBit
  <2> QED BY <1>1, <1>2, <2>1, PiecesU DEF PlacedAt
<1>5. ASSUME NEW n \in ImmBit, n \notin 12..31 PROVE \A w : PieceBit("u", w, n) = 0
  BY <1>5, PiecesU
<1> QED BY <1>3, <1>4, <1>5 DEF Placed

LEMMA PlacedJ == Encoded("j") = 1..20 /\ \A n \in ImmBit : Placed("j", n)
<1> DEFINE B(n) == IF n <= 10 THEN 20 + n ELSE IF n = 11 THEN 20
                   ELSE IF n <= 19 THEN n ELSE 31
<1>1. \A n \in 1..20 : B(n) \in InsBit
  BY DEF InsBit
<1>2. \A n \in 1..20 : Layout["j"][32 - B(n)] = n
  BY <1>1, LayoutJ
<1>3. Encoded("j") = 1..20
  <2>1. \A b \in InsBit : Layout["j"][32 - b] \in (1..20) \cup {-1}
    BY LayoutJ DEF InsBit
  <2> HIDE DEF B
  <2> QED BY <1>1, <1>2, <2>1, EncodedBits
<1>4. ASSUME NEW n \in 1..20 PROVE PlacedAt("j", n, B(n))
  <2>1. n \in ImmBit
    BY DEF ImmBit
  <2>2. \A w : PieceBit("j", w, n) = w[B(n)]
    BY <2>1, PiecesJ
  <2> QED BY <1>1, <1>2, <2>2 DEF PlacedAt
<1>5. ASSUME NEW n \in ImmBit, n \notin 1..20 PROVE \A w : PieceBit("j", w, n) = 0
  BY <1>5, PiecesJ DEF ImmBit
<1> QED BY <1>3, <1>4, <1>5 DEF Placed

LEMMA MaxOf ==
    ASSUME NEW T \in SUBSET Int, NEW m \in T, \A t \in T : t <= m
    PROVE  Max(T) = m
<1>1. \A x \in T : (\A y \in T : x >= y) => x = m
  <2> SUFFICES ASSUME NEW x \in T, x >= m PROVE x = m
    OBVIOUS
  <2> QED BY x <= m, x \in Int, m \in Int
<1>2. \A y \in T : m >= y
  OBVIOUS
<1> QED BY <1>1, <1>2 DEF Max

\* A number is the sum of its bits.
LEMMA BitsValue ==
    ASSUME NEW m \in 0..127, NEW pos \in Nat
    PROVE  /\ \A k \in pos..(pos + 6) : Bits(m, pos, 7)[k] \in {0, 1}
           /\ Sum7(Bits(m, pos, 7), pos) = m
<1> DEFINE half == <<1, 2, 4, 8, 16, 32, 64>>
           b == Bits(m, pos, 7)
<1>1. \A k \in pos..(pos + 6) : b[k] = (m \div half[k - pos + 1]) % 2
  BY DEF Bits
<1>2. /\ b[pos] = m % 2
      /\ b[pos + 1] = (m \div 2) % 2
      /\ b[pos + 2] = (m \div 4) % 2
      /\ b[pos + 3] = (m \div 8) % 2
      /\ b[pos + 4] = (m \div 16) % 2
      /\ b[pos + 5] = (m \div 32) % 2
      /\ b[pos + 6] = (m \div 64) % 2
  <2>1. \A i \in 0..6 : /\ pos + i \in pos..(pos + 6)
                        /\ (pos + i) - pos + 1 = i + 1
    OBVIOUS
  <2>2. \A i \in 0..6 : b[pos + i] = (m \div half[i + 1]) % 2
    BY <1>1, <2>1
  <2>3. pos + 0 = pos
    OBVIOUS
  <2>4. m \div 1 = m
    OBVIOUS
  <2>5. b[pos] = (m \div half[1]) % 2
    BY <2>2, <2>3
  <2> HIDE DEF b
  <2> QED BY <2>2, <2>4, <2>5
<1>3. \A k \in pos..(pos + 6) : b[k] \in {0, 1}
  <2>1. \A i \in 1..7 : half[i] \in {1, 2, 4, 8, 16, 32, 64}
    OBVIOUS
  <2>2. \A h \in {1, 2, 4, 8, 16, 32, 64} : (m \div h) % 2 \in {0, 1}
    OBVIOUS
  <2>3. \A k \in pos..(pos + 6) : k - pos + 1 \in 1..7
    OBVIOUS
  <2> HIDE DEF half
  <2> QED BY <1>1, <2>1, <2>2, <2>3
<1>4. m = 64 * ((m \div 64) % 2) + 32 * ((m \div 32) % 2) + 16 * ((m \div 16) % 2)
            + 8 * ((m \div 8) % 2) + 4 * ((m \div 4) % 2) + 2 * ((m \div 2) % 2) + (m % 2)
  BY SMTT(30)
<1>5. Sum7(b, pos) = m
  <2> HIDE DEF b
  <2> QED BY <1>2, <1>4 DEF Sum7
<1> QED BY <1>3, <1>5

\* The word holds an encoded immediate and the opcode of the format.
Holding(w, fmt, ones) ==
    /\ w \in AnyWord
    /\ \A n \in DOMAIN Encode(fmt, ones) : w[n] = Encode(fmt, ones)[n]

LEMMA EncodedImmediate ==
    ASSUME NEW fmt, NEW ones, NEW w, Holding(w, fmt, ones),
           NEW b \in InsBit, Layout[fmt][32 - b] # -1
    PROVE  w[b] = IF Layout[fmt][32 - b] \in ones THEN 1 ELSE 0
  BY DEF Holding, Encode

\* No layout has an immediate bit where the opcode is.
LEMMA EncodedOpcode ==
    ASSUME NEW fmt \in DOMAIN Layout, NEW ones, NEW w, Holding(w, fmt, ones)
    PROVE  decode_opcode(w) = Opcode[fmt]
<1>1. fmt \in {"i", "s", "b", "u", "j"}
  BY DEF Layout
<1>2. \A b \in 0..6 : b \in InsBit /\ Layout[fmt][32 - b] = -1
  BY <1>1, LayoutI, LayoutS, LayoutB, LayoutU, LayoutJ DEF InsBit
<1>3. \A b \in 0..6 : w[b] = Bits(Opcode[fmt], 0, 7)[b]
  BY <1>2 DEF Holding, Encode
<1>4. Opcode[fmt] \in 0..127
  BY <1>1 DEF Opcode, OP_IMM, STORE, BRANCH, LUI, JAL
<1>5. decode_opcode(w) = Sum7(w, 0)
  BY Extract7 DEF Holding, decode_opcode
<1>6. Sum7(w, 0) = Sum7(Bits(Opcode[fmt], 0, 7), 0)
  BY <1>3 DEF Sum7
<1> QED BY <1>4, <1>5, <1>6, BitsValue

\* The decoder knows a format by its opcode.
LEMMA FormatOfOpcode ==
    ASSUME NEW fmt \in DOMAIN Layout
    PROVE  Format(Opcode[fmt]) = fmt
<1>1. fmt \in {"i", "s", "b", "u", "j"}
  BY DEF Layout
<1> QED BY <1>1, Formats DEF Opcode

\* The highest encoded bit is bit 31 of the word, and the fill starts there or just above.
LEMMA TopBit ==
    ASSUME NEW fmt \in DOMAIN Layout
    PROVE  LET top == Max(Encoded(fmt))
           IN  /\ top \in Encoded(fmt) /\ Encoded(fmt) \subseteq 0..top /\ top \in Nat
               /\ Layout[fmt][32 - 31] = top
               /\ FillFrom[fmt] \in {top, top + 1}
               /\ \A n \in ImmBit : Placed(fmt, n)
<1>0. 31 \in InsBit
  BY DEF InsBit
<1>1. CASE fmt = "i"
  <2>1. Max(0..11) = 11
    BY MaxOf
  <2> QED BY <1>0, <1>1, <2>1, PlacedI, LayoutI DEF FillFrom
<1>2. CASE fmt = "s"
  <2>1. Max(0..11) = 11
    BY MaxOf
  <2> QED BY <1>0, <1>2, <2>1, PlacedS, LayoutS DEF FillFrom
<1>3. CASE fmt = "b"
  <2>1. Max(1..12) = 12
    BY MaxOf
  <2> QED BY <1>0, <1>3, <2>1, PlacedB, LayoutB DEF FillFrom
<1>4. CASE fmt = "u"
  <2>1. Max(12..31) = 31
    BY MaxOf
  <2>2. Layout["u"][32 - 31] = 31
    BY <1>0, LayoutU
  <2>3. FillFrom["u"] = 31 + 1
    BY DEF FillFrom
  <2>4. Encoded("u") = 12..31 /\ 31 \in 12..31 /\ 12..31 \subseteq 0..31
    BY PlacedU
  <2> QED BY <1>4, <2>1, <2>2, <2>3, <2>4, PlacedU
<1>5. CASE fmt = "j"
  <2>1. Max(1..20) = 20
    BY MaxOf
  <2> QED BY <1>0, <1>5, <2>1, PlacedJ, LayoutJ DEF FillFrom
<1> QED BY <1>1, <1>2, <1>3, <1>4, <1>5 DEF Layout

(***************************************************************************)
(* For every format, every immediate and every word that holds it: the     *)
(* decoder takes the word for one of that format, and decode_imm_* gives   *)
(* back the immediate, extended with its highest encoded bit.              *)
(***************************************************************************)
THEOREM ImmediatesComeBack ==
    ASSUME NEW fmt \in DOMAIN Layout, NEW ones \in SUBSET Encoded(fmt),
           NEW w, Holding(w, fmt, ones), NEW n \in ImmBit
    PROVE  LET top == Max(Encoded(fmt))
           IN  /\ Format(decode_opcode(w)) = fmt
               /\ Imm(fmt, w)[n] = IF n \in ones \/ (n > top /\ top \in ones)
                                   THEN 1 ELSE 0
<1> DEFINE top == Max(Encoded(fmt))
<1>1. Format(decode_opcode(w)) = fmt
  BY EncodedOpcode, FormatOfOpcode
<1>2. /\ top \in Encoded(fmt) /\ Encoded(fmt) \subseteq 0..top /\ top \in Nat
      /\ Layout[fmt][32 - 31] = top
      /\ FillFrom[fmt] \in {top, top + 1}
      /\ Placed(fmt, n)
  BY TopBit
<1> HIDE DEF top
<1>3. Imm(fmt, w)[n] = IF n >= FillFrom[fmt] /\ w[31] = 1 THEN 1
                       ELSE PieceBit(fmt, w, n)
  BY DEF Imm
<1>4. w[31] = IF top \in ones THEN 1 ELSE 0
  <2>1. 31 \in InsBit /\ top # -1
    BY <1>2 DEF InsBit
  <2> QED BY <1>2, <2>1, EncodedImmediate
<1>5. ASSUME n \in Encoded(fmt)
      PROVE  PieceBit(fmt, w, n) = IF n \in ones THEN 1 ELSE 0
  <2>1. PICK b : PlacedAt(fmt, n, b)
    BY <1>2, <1>5 DEF Placed
  <2>2. n # -1
    BY DEF ImmBit
  <2> QED BY <2>1, <2>2, EncodedImmediate DEF PlacedAt
<1>6. ASSUME n \notin Encoded(fmt) PROVE PieceBit(fmt, w, n) = 0 /\ n \notin ones
  BY <1>2, <1>6 DEF Placed
<1>7. n \in Nat
  BY DEF ImmBit
<1>8. Imm(fmt, w)[n] = IF n \in ones \/ (n > top /\ top \in ones) THEN 1 ELSE 0
  <2>1. CASE n \in Encoded(fmt)
    <3>1. n <= top
      BY <1>2, <2>1
    <3> QED BY <1>2, <1>3, <1>4, <1>5, <1>7, <2>1, <3>1
  <2>2. CASE n \notin Encoded(fmt)
    <3>1. n # top
      BY <1>2, <2>2
    <3> QED BY <1>2, <1>3, <1>4, <1>6, <1>7, <2>2, <3>1
  <2> QED BY <2>1, <2>2
<1> QED BY <1>1, <1>8 DEF top

------------------------------------------------------------------------------
\* The words MCDecode tries.

\* The given bits of a word of the second family.
Fields(opcode, func3, func7) ==
    LET op == Bits(opcode, 0, 7)
        f3 == Bits(func3, 12, 3)
        f7 == Bits(func7, 25, 7)
    IN  [n \in (0..6) \cup (12..14) \cup (25..31) |->
            IF n <= 6 THEN op[n] ELSE IF n <= 14 THEN f3[n] ELSE f7[n]]

\* The word holds an immediate, or the fields that select a handler.
HoldsImmediate ==
    \E fmt \in DOMAIN Layout : \E ones \in SUBSET Encoded(fmt) :
        what = [fmt |-> fmt, ones |-> ones] /\ fixed = Encode(fmt, ones)
HoldsFields ==
    \E opcode \in 0..127, func3 \in Func3, func7 \in Func7 :
        /\ what = [opcode |-> opcode, func3 |-> func3, func7 |-> func7]
        /\ fixed = Fields(opcode, func3, func7)
WordInv == open \in {0, 1} /\ (HoldsImmediate \/ HoldsFields)

LEMMA TriedAreEncoded == \A fmt : Tried(fmt) \subseteq SUBSET Encoded(fmt)
<1> SUFFICES ASSUME NEW fmt, NEW x \in Tried(fmt) PROVE x \subseteq Encoded(fmt)
  OBVIOUS
<1>1. PICK size \in Weights :
          \E ones \in kSubset(size, Encoded(fmt)) : x \in {ones, Encoded(fmt) \ ones}
  BY DEF Tried
<1>2. PICK ones \in kSubset(size, Encoded(fmt)) : x \in {ones, Encoded(fmt) \ ones}
  BY <1>1
<1>3. ones \subseteq Encoded(fmt)
  BY DEF kSubset
<1> QED BY <1>2, <1>3

LEMMA WordInvariant == Spec => []WordInv
<1>1. ImmInit => WordInv
  BY TriedAreEncoded DEF ImmInit, WordInv, HoldsImmediate
<1>2. DispatchInit => WordInv
  BY DEF DispatchInit, WordInv, HoldsFields, Fields
<1>3. WordInv /\ [Refill]_vars => WordInv'
  <2> SUFFICES ASSUME WordInv, [Refill]_vars PROVE WordInv'
    OBVIOUS
  <2>1. fixed' = fixed /\ what' = what
    BY DEF Refill, vars
  <2>2. open' \in {0, 1}
    <3>1. open' = open \/ open' = 1 - open
      BY DEF Refill, vars
    <3> QED BY <3>1 DEF WordInv
  <2>3. HoldsImmediate' <=> HoldsImmediate
    BY <2>1 DEF HoldsImmediate
  <2>4. HoldsFields' <=> HoldsFields
    BY <2>1 DEF HoldsFields
  <2> QED BY <2>2, <2>3, <2>4 DEF WordInv
<1> QED BY <1>1, <1>2, <1>3, PTL DEF Spec

\* A bit of an encoded immediate, or of the opcode beside it, is a bit.
LEMMA EncodeTyped ==
    ASSUME NEW fmt \in DOMAIN Layout, NEW ones
    PROVE  /\ DOMAIN Encode(fmt, ones) \subseteq InsBit
           /\ \A n \in DOMAIN Encode(fmt, ones) : Encode(fmt, ones)[n] \in {0, 1}
<1>1. Opcode[fmt] \in 0..127
  BY DEF Layout, Opcode, OP_IMM, STORE, BRANCH, LUI, JAL
<1>2. \A n \in 0..6 : Bits(Opcode[fmt], 0, 7)[n] \in {0, 1}
  <2>1. 0 \in Nat /\ 0 + 6 = 6
    OBVIOUS
  <2> QED BY <1>1, <2>1, BitsValue
<1> QED BY <1>2 DEF Encode, InsBit

LEMMA WordHolds ==
    ASSUME open \in {0, 1}, NEW fmt \in DOMAIN Layout, NEW ones, fixed = Encode(fmt, ones)
    PROVE  Holding(Word, fmt, ones)
  BY EncodeTyped DEF Holding, Word, AnyWord

(***************************************************************************)
(* DecodeInvertsEncode for immediates with any number of bits set: decoder *)
(* and manual agree about every bit, and about the sign.                   *)
(***************************************************************************)
THEOREM DecodingInverts == Spec => []DecodeInvertsEncode
<1>1. WordInv => DecodeInvertsEncode
  <2> SUFFICES ASSUME WordInv, OfImmediate, NEW n \in ImmBit
               PROVE  LET imm == DecodedIns(Word).imm
                          top == Max(Encoded(what.fmt))
                      IN  imm[n] = IF n \in what.ones \/ (n > top /\ top \in what.ones)
                                   THEN 1 ELSE 0
    BY DEF DecodeInvertsEncode
  <2>1. HoldsImmediate
    <3>1. HoldsFields => DOMAIN what = {"opcode", "func3", "func7"}
      BY DEF HoldsFields
    <3> QED BY <3>1 DEF WordInv, OfImmediate
  <2>0. PICK fmt \in DOMAIN Layout : \E ones \in SUBSET Encoded(fmt) :
            what = [fmt |-> fmt, ones |-> ones] /\ fixed = Encode(fmt, ones)
    BY <2>1 DEF HoldsImmediate
  <2>2. PICK ones \in SUBSET Encoded(fmt) :
            what = [fmt |-> fmt, ones |-> ones] /\ fixed = Encode(fmt, ones)
    BY <2>0
  <2>3. Holding(Word, fmt, ones)
    BY <2>2, WordHolds DEF WordInv
  <2>4. /\ Format(decode_opcode(Word)) = fmt
        /\ Imm(fmt, Word)[n] = IF n \in ones \/ (n > Max(Encoded(fmt))
                                                  /\ Max(Encoded(fmt)) \in ones)
                               THEN 1 ELSE 0
    BY <2>3, ImmediatesComeBack
  <2>5. fmt \in DOMAIN Pieces
    BY DEF Layout, Pieces
  <2>6. DecodedIns(Word).imm = Imm(fmt, Word)
    BY <2>4, <2>5 DEF DecodedIns
  <2>7. what.fmt = fmt /\ what.ones = ones
    BY <2>2
  <2> QED BY <2>4, <2>6, <2>7
<1> QED BY <1>1, WordInvariant, PTL

(***************************************************************************)
(* HandlerTakesItsFormat: step_rv64_cpu passes the decoded instruction as  *)
(* a void pointer; decoder and handler agree about the struct behind it.   *)
(***************************************************************************)
THEOREM HandlersTakeTheirFormats == Spec => []HandlerTakesItsFormat
<1>1. HandlerTakesItsFormat
  BY LookedUpTakesFormat DEF HandlerTakesItsFormat
<1> QED BY <1>1, PTL

------------------------------------------------------------------------------
\* The table, opcode by opcode.

\* Which registrations are for which opcode.
LEMMA RowOpcodes ==
    \A r \in 1..49 :
        Registrations[r].opcode =
            IF r = 1 THEN LUI ELSE IF r = 2 THEN AUIPC ELSE IF r = 3 THEN JAL
            ELSE IF r = 4 THEN JALR ELSE IF r <= 10 THEN BRANCH ELSE IF r <= 17 THEN LOAD
            ELSE IF r <= 21 THEN STORE ELSE IF r <= 30 THEN OP_IMM
            ELSE IF r <= 34 THEN OP_IMM_32 ELSE IF r <= 44 THEN OP ELSE OP_32
  BY SMTT(60) DEF Registrations, Row, Any, F3, F37

\* The opcodes are all different.
LEMMA RowsOf ==
    ASSUME NEW r \in 1..49
    PROVE  /\ Registrations[r].opcode = LUI <=> r = 1
           /\ Registrations[r].opcode = AUIPC <=> r = 2
           /\ Registrations[r].opcode = JAL <=> r = 3
           /\ Registrations[r].opcode = JALR <=> r = 4
           /\ Registrations[r].opcode = BRANCH <=> r \in 5..10
           /\ Registrations[r].opcode = LOAD <=> r \in 11..17
           /\ Registrations[r].opcode = STORE <=> r \in 18..21
           /\ Registrations[r].opcode = OP_IMM <=> r \in 22..30
           /\ Registrations[r].opcode = OP_IMM_32 <=> r \in 31..34
           /\ Registrations[r].opcode = OP <=> r \in 35..44
           /\ Registrations[r].opcode = OP_32 <=> r \in 45..49
<1> DEFINE o == Registrations[r].opcode
<1>1. o = IF r = 1 THEN LUI ELSE IF r = 2 THEN AUIPC ELSE IF r = 3 THEN JAL
          ELSE IF r = 4 THEN JALR ELSE IF r <= 10 THEN BRANCH ELSE IF r <= 17 THEN LOAD
          ELSE IF r <= 21 THEN STORE ELSE IF r <= 30 THEN OP_IMM
          ELSE IF r <= 34 THEN OP_IMM_32 ELSE IF r <= 44 THEN OP ELSE OP_32
  BY RowOpcodes
<1> HIDE DEF o
<1> USE DEF LOAD, OP_IMM, AUIPC, OP_IMM_32, STORE, OP, LUI, OP_32, BRANCH, JALR, JAL
<1>2. o = LUI <=> r = 1
  BY <1>1
<1>3. o = AUIPC <=> r = 2
  BY <1>1
<1>4. o = JAL <=> r = 3
  BY <1>1
<1>5. o = JALR <=> r = 4
  BY <1>1
<1>6. o = BRANCH <=> r \in 5..10
  BY <1>1
<1>7. o = LOAD <=> r \in 11..17
  BY <1>1
<1>8. o = STORE <=> r \in 18..21
  BY <1>1
<1>9. o = OP_IMM <=> r \in 22..30
  BY <1>1
<1>10. o = OP_IMM_32 <=> r \in 31..34
  BY <1>1
<1>11. o = OP <=> r \in 35..44
  BY <1>1
<1>12. o = OP_32 <=> r \in 45..49
  BY <1>1
<1> HIDE DEF LOAD, OP_IMM, AUIPC, OP_IMM_32, STORE, OP, LUI, OP_32, BRANCH, JALR, JAL
<1> QED
  BY <1>2, <1>3, <1>4, <1>5, <1>6, <1>7, <1>8, <1>9, <1>10, <1>11, <1>12 DEF o

LEMMA EntryUpper ==
    ASSUME NEW func3 \in Func3, NEW func7 \in Func7
    PROVE  /\ Entry(LUI, func3, func7) = "lui"
           /\ Entry(AUIPC, func3, func7) = "auipc"
           /\ Entry(JAL, func3, func7) = "jal"
<1>1. /\ Registrations[1].func3 = Func3 /\ Registrations[1].func7 = Func7
      /\ Registrations[2].func3 = Func3 /\ Registrations[2].func7 = Func7
      /\ Registrations[3].func3 = Func3 /\ Registrations[3].func7 = Func7
      /\ Registrations[1].handler = "lui"
      /\ Registrations[2].handler = "auipc"
      /\ Registrations[3].handler = "jal"
  BY DEF Registrations, Row, Any
<1>2. Matches(1, LUI, func3, func7) /\ \A q \in 1..49 : Matches(q, LUI, func3, func7) => q = 1
  BY <1>1, RowsOf DEF Matches
<1>3. Matches(2, AUIPC, func3, func7)
          /\ \A q \in 1..49 : Matches(q, AUIPC, func3, func7) => q = 2
  BY <1>1, RowsOf DEF Matches
<1>4. Matches(3, JAL, func3, func7) /\ \A q \in 1..49 : Matches(q, JAL, func3, func7) => q = 3
  BY <1>1, RowsOf DEF Matches
<1> QED BY <1>1, <1>2, <1>3, <1>4, EntryHit

LEMMA EntryJalr ==
    ASSUME NEW func3 \in Func3, NEW func7 \in Func7
    PROVE  Entry(JALR, func3, func7) = IF func3 = 0 THEN "jalr" ELSE "illegal"
<1>1. /\ Registrations[4].func3 = {0} /\ Registrations[4].func7 = Func7
      /\ Registrations[4].handler = "jalr"
  BY DEF Registrations, Row, F3, FUNC3
<1>2. CASE func3 = 0
  <2>1. /\ Matches(4, JALR, func3, func7)
        /\ \A q \in 1..49 : Matches(q, JALR, func3, func7) => q = 4
    BY <1>1, <1>2, RowsOf DEF Matches
  <2> QED BY <1>1, <1>2, <2>1, EntryHit
<1>3. CASE func3 # 0
  <2>1. \A q \in 1..49 : ~Matches(q, JALR, func3, func7)
    BY <1>1, <1>3, RowsOf DEF Matches
  <2> QED BY <1>3, <2>1, EntryMissed
<1> QED BY <1>2, <1>3

LEMMA EntryLoad ==
    ASSUME NEW func3 \in Func3, NEW func7 \in Func7
    PROVE  Entry(LOAD, func3, func7) = IF func3 = 7 THEN "illegal" ELSE Loads[func3 + 1]
<1>1. \A r \in 11..17 : Registrations[r].func3 = {r - 11} /\ Registrations[r].func7 = Func7
  BY DEF Registrations, Row, F3, FUNC3
<1>2. /\ Registrations[11].handler = "lb" /\ Registrations[12].handler = "lh"
      /\ Registrations[13].handler = "lw" /\ Registrations[14].handler = "ld"
      /\ Registrations[15].handler = "lbu" /\ Registrations[16].handler = "lhu"
      /\ Registrations[17].handler = "lwu"
  BY DEF Registrations, Row, F3
<1>3. /\ Loads[1] = "lb" /\ Loads[2] = "lh" /\ Loads[3] = "lw" /\ Loads[4] = "ld"
      /\ Loads[5] = "lbu" /\ Loads[6] = "lhu" /\ Loads[7] = "lwu"
  BY DEF Loads
<1>4. CASE func3 # 7
  <2>1. 11 + func3 \in 11..17 /\ (11 + func3) - 11 = func3
    BY <1>4 DEF Func3
  <2>2. Matches(11 + func3, LOAD, func3, func7)
    BY <1>1, <2>1, RowsOf DEF Matches
  <2>3. \A q \in 1..49 : Matches(q, LOAD, func3, func7) => q = 11 + func3
    BY <1>1, RowsOf DEF Matches, Func3
  <2>4. Entry(LOAD, func3, func7) = Registrations[11 + func3].handler
    BY <2>2, <2>3, EntryHit
  <2>5. func3 = 0 \/ func3 = 1 \/ func3 = 2 \/ func3 = 3 \/ func3 = 4 \/ func3 = 5
            \/ func3 = 6
    BY <1>4 DEF Func3
  <2> QED BY <1>2, <1>3, <1>4, <2>4, <2>5
<1>5. CASE func3 = 7
  <2>1. \A q \in 1..49 : ~Matches(q, LOAD, func3, func7)
    BY <1>1, <1>5, RowsOf DEF Matches
  <2> QED BY <1>5, <2>1, EntryMissed
<1> QED BY <1>4, <1>5

LEMMA EntryStore ==
    ASSUME NEW func3 \in Func3, NEW func7 \in Func7
    PROVE  Entry(STORE, func3, func7) = IF func3 > 3 THEN "illegal" ELSE Stores[func3 + 1]
<1>1. \A r \in 18..21 : Registrations[r].func3 = {r - 18} /\ Registrations[r].func7 = Func7
  BY DEF Registrations, Row, F3, FUNC3
<1>2. /\ Registrations[18].handler = "sb" /\ Registrations[19].handler = "sh"
      /\ Registrations[20].handler = "sw" /\ Registrations[21].handler = "sd"
  BY DEF Registrations, Row, F3
<1>3. Stores[1] = "sb" /\ Stores[2] = "sh" /\ Stores[3] = "sw" /\ Stores[4] = "sd"
  BY DEF Stores
<1>4. CASE func3 \in 0..3
  <2>1. 18 + func3 \in 18..21 /\ (18 + func3) - 18 = func3
    BY <1>4 DEF Func3
  <2>2. Matches(18 + func3, STORE, func3, func7)
    BY <1>1, <2>1, RowsOf DEF Matches
  <2>3. \A q \in 1..49 : Matches(q, STORE, func3, func7) => q = 18 + func3
    BY <1>1, RowsOf DEF Matches, Func3
  <2>4. Entry(STORE, func3, func7) = Registrations[18 + func3].handler
    BY <2>2, <2>3, EntryHit
  <2>5. func3 = 0 \/ func3 = 1 \/ func3 = 2 \/ func3 = 3
    BY <1>4 DEF Func3
  <2> QED BY <1>2, <1>3, <2>4, <2>5
<1>5. CASE func3 > 3
  <2>1. \A q \in 1..49 : ~Matches(q, STORE, func3, func7)
    BY <1>1, <1>5, RowsOf DEF Matches, Func3
  <2> QED BY <1>5, <2>1, EntryMissed
<1> QED BY <1>4, <1>5 DEF Func3

LEMMA EntryBranch ==
    ASSUME NEW func3 \in Func3, NEW func7 \in Func7
    PROVE  Entry(BRANCH, func3, func7) =
               IF func3 \in {2, 3} THEN "illegal" ELSE Branches[func3 + 1]
<1> DEFINE r == IF func3 <= 1 THEN func3 + 5 ELSE func3 + 3
<1>1. /\ Registrations[5].func3 = {0} /\ Registrations[6].func3 = {1}
      /\ \A q \in 7..10 : Registrations[q].func3 = {q - 3}
      /\ \A q \in 5..10 : Registrations[q].func7 = Func7
  <2>1. /\ Registrations[5].func3 = {0} /\ Registrations[6].func3 = {1}
        /\ Registrations[7].func3 = {4} /\ Registrations[8].func3 = {5}
        /\ Registrations[9].func3 = {6} /\ Registrations[10].func3 = {7}
    BY DEF Registrations, Row, F3, FUNC3
  <2>2. /\ Registrations[5].func7 = Func7 /\ Registrations[6].func7 = Func7
        /\ Registrations[7].func7 = Func7 /\ Registrations[8].func7 = Func7
        /\ Registrations[9].func7 = Func7 /\ Registrations[10].func7 = Func7
    BY DEF Registrations, Row, F3
  <2>3. /\ \A q \in 7..10 : q = 7 \/ q = 8 \/ q = 9 \/ q = 10
        /\ \A q \in 5..10 : q = 5 \/ q = 6 \/ q \in 7..10
    OBVIOUS
  <2> QED BY <2>1, <2>2, <2>3
<1>2. /\ Registrations[5].handler = "beq" /\ Registrations[6].handler = "bne"
      /\ Registrations[7].handler = "blt" /\ Registrations[8].handler = "bge"
      /\ Registrations[9].handler = "bltu" /\ Registrations[10].handler = "bgeu"
  BY DEF Registrations, Row, F3
<1>3. /\ Branches[1] = "beq" /\ Branches[2] = "bne" /\ Branches[5] = "blt"
      /\ Branches[6] = "bge" /\ Branches[7] = "bltu" /\ Branches[8] = "bgeu"
  BY DEF Branches
<1>4. \A q \in 5..10 : func3 \in Registrations[q].func3 <=> q = r /\ func3 \notin {2, 3}
  <2> SUFFICES ASSUME NEW q \in 5..10
               PROVE  func3 \in Registrations[q].func3 <=> q = r /\ func3 \notin {2, 3}
    OBVIOUS
  <2>1. q = 5 \/ q = 6 \/ q \in 7..10
    OBVIOUS
  <2> QED BY <1>1, <2>1 DEF Func3
<1>5. CASE func3 \notin {2, 3}
  <2>1. func3 = 0 \/ func3 = 1 \/ func3 = 4 \/ func3 = 5 \/ func3 = 6 \/ func3 = 7
    BY <1>5 DEF Func3
  <2>2. r \in 5..10
    BY <2>1
  <2>3. Matches(r, BRANCH, func3, func7)
    BY <1>1, <1>4, <1>5, <2>2, RowsOf DEF Matches
  <2>4. \A q \in 1..49 : Matches(q, BRANCH, func3, func7) => q = r
    BY <1>4, RowsOf DEF Matches
  <2>5. Entry(BRANCH, func3, func7) = Registrations[r].handler
    BY <2>3, <2>4, EntryHit
  <2> QED BY <1>2, <1>3, <1>5, <2>1, <2>5
<1>6. CASE func3 \in {2, 3}
  <2>1. \A q \in 1..49 : ~Matches(q, BRANCH, func3, func7)
    BY <1>4, <1>6, RowsOf DEF Matches
  <2> QED BY <1>6, <2>1, EntryMissed
<1> QED BY <1>5, <1>6

LEMMA EntryOpImm ==
    ASSUME NEW func3 \in Func3, NEW func7 \in Func7
    PROVE  Entry(OP_IMM, func3, func7) =
               IF func3 = 5 THEN IF func7 \in {0, 32} THEN "srlai" ELSE "illegal"
               ELSE IF func3 = 1 /\ func7 # 0 THEN "illegal" ELSE ImmName[Ops[func3 + 1]]
<1> DEFINE r == IF func3 = 1 THEN 28 ELSE IF func3 = 5 THEN IF func7 = 32 THEN 30 ELSE 29
                ELSE IF func3 = 0 THEN 22 ELSE IF func3 <= 4 THEN func3 + 21 ELSE func3 + 20
           valid == (func3 = 1 => func7 = 0) /\ (func3 = 5 => func7 \in {0, 32})
<1>1. /\ Registrations[22].func3 = {0} /\ Registrations[23].func3 = {2}
      /\ Registrations[24].func3 = {3} /\ Registrations[25].func3 = {4}
      /\ Registrations[26].func3 = {6} /\ Registrations[27].func3 = {7}
      /\ Registrations[28].func3 = {1} /\ Registrations[29].func3 = {5}
      /\ Registrations[30].func3 = {5}
  <2>1. /\ Registrations[22].func3 = {0} /\ Registrations[23].func3 = {2}
        /\ Registrations[24].func3 = {3} /\ Registrations[25].func3 = {4}
        /\ Registrations[26].func3 = {6} /\ Registrations[27].func3 = {7}
    BY DEF Registrations, Row, F3, FUNC3
  <2>2. /\ Registrations[28].func3 = {1} /\ Registrations[29].func3 = {5}
        /\ Registrations[30].func3 = {5}
    BY DEF Registrations, Row, F37, FUNC3
  <2> QED BY <2>1, <2>2
<1>2. /\ Registrations[22].func7 = Func7 /\ Registrations[23].func7 = Func7
      /\ Registrations[24].func7 = Func7 /\ Registrations[25].func7 = Func7
      /\ Registrations[26].func7 = Func7 /\ Registrations[27].func7 = Func7
      /\ Registrations[28].func7 = {0} /\ Registrations[29].func7 = {0}
      /\ Registrations[30].func7 = {32}
  BY DEF Registrations, Row, F3, F37, FUNC7
<1>3. /\ Registrations[22].handler = "addi" /\ Registrations[23].handler = "slti"
      /\ Registrations[24].handler = "sltiu" /\ Registrations[25].handler = "xori"
      /\ Registrations[26].handler = "ori" /\ Registrations[27].handler = "andi"
      /\ Registrations[28].handler = "slli" /\ Registrations[29].handler = "srlai"
      /\ Registrations[30].handler = "srlai"
  BY DEF Registrations, Row, F3, F37
<1>4. /\ ImmName[Ops[1]] = "addi" /\ ImmName[Ops[2]] = "slli" /\ ImmName[Ops[3]] = "slti"
      /\ ImmName[Ops[4]] = "sltiu" /\ ImmName[Ops[5]] = "xori" /\ ImmName[Ops[7]] = "ori"
      /\ ImmName[Ops[8]] = "andi"
  BY DEF Ops, ImmName
<1>5. \A q \in 22..30 : func3 \in Registrations[q].func3
                            /\ func7 \in Registrations[q].func7 <=> q = r /\ valid
  <2> SUFFICES ASSUME NEW q \in 22..30
               PROVE  func3 \in Registrations[q].func3 /\ func7 \in Registrations[q].func7
                          <=> q = r /\ valid
    OBVIOUS
  <2>1. q = 22 \/ q = 23 \/ q = 24 \/ q = 25 \/ q = 26 \/ q = 27 \/ q = 28 \/ q = 29 \/ q = 30
    OBVIOUS
  <2> QED BY <1>1, <1>2, <2>1 DEF Func3
<1>6. func3 = 0 \/ func3 = 1 \/ func3 = 2 \/ func3 = 3 \/ func3 = 4 \/ func3 = 5
          \/ func3 = 6 \/ func3 = 7
  BY DEF Func3
<1>7. CASE valid
  <2>1. r \in 22..30
    BY <1>6, <1>7
  <2>2. Matches(r, OP_IMM, func3, func7)
    BY <1>5, <1>7, <2>1, RowsOf DEF Matches
  <2>3. \A q \in 1..49 : Matches(q, OP_IMM, func3, func7) => q = r
    BY <1>5, RowsOf DEF Matches
  <2>4. Entry(OP_IMM, func3, func7) = Registrations[r].handler
    BY <2>2, <2>3, EntryHit
  <2> QED BY <1>3, <1>4, <1>6, <1>7, <2>4
<1>8. CASE ~valid
  <2>1. \A q \in 1..49 : ~Matches(q, OP_IMM, func3, func7)
    BY <1>5, <1>8, RowsOf DEF Matches
  <2> QED BY <1>6, <1>8, <2>1, EntryMissed
<1> QED BY <1>7, <1>8

LEMMA EntryOpImm32 ==
    ASSUME NEW func3 \in Func3, NEW func7 \in Func7
    PROVE  Entry(OP_IMM_32, func3, func7) =
               IF func3 = 0 THEN "addiw"
               ELSE IF func3 = 1 /\ func7 = 0 THEN "slliw"
               ELSE IF func3 = 5 /\ func7 \in {0, 32} THEN "srlaiw" ELSE "illegal"
<1> DEFINE r == IF func3 <= 1 THEN 31 + func3 ELSE IF func7 = 32 THEN 34 ELSE 33
           valid == \/ func3 = 0
                    \/ func3 = 1 /\ func7 = 0
                    \/ func3 = 5 /\ func7 \in {0, 32}
<1>1. /\ Registrations[31].func3 = {0} /\ Registrations[32].func3 = {1}
      /\ Registrations[33].func3 = {5} /\ Registrations[34].func3 = {5}
  BY DEF Registrations, Row, F3, F37, FUNC3
<1>2. /\ Registrations[31].func7 = Func7 /\ Registrations[32].func7 = {0}
      /\ Registrations[33].func7 = {0} /\ Registrations[34].func7 = {32}
  BY DEF Registrations, Row, F3, F37, FUNC7
<1>3. /\ Registrations[31].handler = "addiw" /\ Registrations[32].handler = "slliw"
      /\ Registrations[33].handler = "srlaiw" /\ Registrations[34].handler = "srlaiw"
  BY DEF Registrations, Row, F3, F37
<1>5. \A q \in 31..34 : func3 \in Registrations[q].func3
                            /\ func7 \in Registrations[q].func7 <=> q = r /\ valid
  <2> SUFFICES ASSUME NEW q \in 31..34
               PROVE  func3 \in Registrations[q].func3 /\ func7 \in Registrations[q].func7
                          <=> q = r /\ valid
    OBVIOUS
  <2>1. q = 31 \/ q = 32 \/ q = 33 \/ q = 34
    OBVIOUS
  <2> QED BY <1>1, <1>2, <2>1 DEF Func3
<1>6. func3 = 0 \/ func3 = 1 \/ func3 = 2 \/ func3 = 3 \/ func3 = 4 \/ func3 = 5
          \/ func3 = 6 \/ func3 = 7
  BY DEF Func3
<1>7. CASE valid
  <2>1. r \in 31..34
    BY <1>6, <1>7
  <2>2. Matches(r, OP_IMM_32, func3, func7)
    BY <1>5, <1>7, <2>1, RowsOf DEF Matches
  <2>3. \A q \in 1..49 : Matches(q, OP_IMM_32, func3, func7) => q = r
    BY <1>5, RowsOf DEF Matches
  <2>4. Entry(OP_IMM_32, func3, func7) = Registrations[r].handler
    BY <2>2, <2>3, EntryHit
  <2> QED BY <1>3, <1>6, <1>7, <2>4
<1>8. CASE ~valid
  <2>1. \A q \in 1..49 : ~Matches(q, OP_IMM_32, func3, func7)
    BY <1>5, <1>8, RowsOf DEF Matches
  <2> QED BY <1>6, <1>8, <2>1, EntryMissed
<1> QED BY <1>7, <1>8

LEMMA EntryOp ==
    ASSUME NEW func3 \in Func3, NEW func7 \in Func7
    PROVE  Entry(OP, func3, func7) =
               IF func3 = 5 /\ func7 \in {0, 32} THEN "srla"
               ELSE IF func7 = 0 THEN Ops[func3 + 1]
               ELSE IF func3 = 0 /\ func7 = 32 THEN "sub" ELSE "illegal"
<1> DEFINE r == IF func7 = 32 THEN IF func3 = 0 THEN 36 ELSE 42
                ELSE IF func3 = 0 THEN 35 ELSE IF func3 <= 5 THEN func3 + 36 ELSE func3 + 37
           valid == func7 = 0 \/ (func7 = 32 /\ func3 \in {0, 5})
<1>1. /\ Registrations[35].func3 = {0} /\ Registrations[36].func3 = {0}
      /\ Registrations[37].func3 = {1} /\ Registrations[38].func3 = {2}
      /\ Registrations[39].func3 = {3} /\ Registrations[40].func3 = {4}
      /\ Registrations[41].func3 = {5} /\ Registrations[42].func3 = {5}
      /\ Registrations[43].func3 = {6} /\ Registrations[44].func3 = {7}
  <2>1. /\ Registrations[35].func3 = {0} /\ Registrations[36].func3 = {0}
        /\ Registrations[37].func3 = {1} /\ Registrations[38].func3 = {2}
        /\ Registrations[39].func3 = {3}
    BY DEF Registrations, Row, F37, FUNC3
  <2>2. /\ Registrations[40].func3 = {4} /\ Registrations[41].func3 = {5}
        /\ Registrations[42].func3 = {5} /\ Registrations[43].func3 = {6}
        /\ Registrations[44].func3 = {7}
    BY DEF Registrations, Row, F37, FUNC3
  <2> QED BY <2>1, <2>2
<1>2. /\ Registrations[35].func7 = {0} /\ Registrations[36].func7 = {32}
      /\ Registrations[37].func7 = {0} /\ Registrations[38].func7 = {0}
      /\ Registrations[39].func7 = {0} /\ Registrations[40].func7 = {0}
      /\ Registrations[41].func7 = {0} /\ Registrations[42].func7 = {32}
      /\ Registrations[43].func7 = {0} /\ Registrations[44].func7 = {0}
  BY DEF Registrations, Row, F3, F37, FUNC7
<1>3. /\ Registrations[35].handler = "add" /\ Registrations[36].handler = "sub"
      /\ Registrations[37].handler = "sll" /\ Registrations[38].handler = "slt"
      /\ Registrations[39].handler = "sltu" /\ Registrations[40].handler = "xor"
      /\ Registrations[41].handler = "srla" /\ Registrations[42].handler = "srla"
      /\ Registrations[43].handler = "or" /\ Registrations[44].handler = "and"
  BY DEF Registrations, Row, F3, F37
<1>4. /\ Ops[1] = "add" /\ Ops[2] = "sll" /\ Ops[3] = "slt" /\ Ops[4] = "sltu"
      /\ Ops[5] = "xor" /\ Ops[6] = "srl" /\ Ops[7] = "or" /\ Ops[8] = "and"
  BY DEF Ops
<1>5. \A q \in 35..44 : func3 \in Registrations[q].func3
                            /\ func7 \in Registrations[q].func7 <=> q = r /\ valid
  <2> SUFFICES ASSUME NEW q \in 35..44
               PROVE  func3 \in Registrations[q].func3 /\ func7 \in Registrations[q].func7
                          <=> q = r /\ valid
    OBVIOUS
  <2>1. q = 35 \/ q = 36 \/ q = 37 \/ q = 38 \/ q = 39 \/ q = 40 \/ q = 41 \/ q = 42 \/ q = 43 \/ q = 44
    OBVIOUS
  <2> QED BY <1>1, <1>2, <2>1 DEF Func3
<1>6. func3 = 0 \/ func3 = 1 \/ func3 = 2 \/ func3 = 3 \/ func3 = 4 \/ func3 = 5
          \/ func3 = 6 \/ func3 = 7
  BY DEF Func3
<1>7. CASE valid
  <2>1. r \in 35..44
    BY <1>6, <1>7
  <2>2. Matches(r, OP, func3, func7)
    BY <1>5, <1>7, <2>1, RowsOf DEF Matches
  <2>3. \A q \in 1..49 : Matches(q, OP, func3, func7) => q = r
    BY <1>5, RowsOf DEF Matches
  <2>4. Entry(OP, func3, func7) = Registrations[r].handler
    BY <2>2, <2>3, EntryHit
  <2> QED BY <1>3, <1>4, <1>6, <1>7, <2>4
<1>8. CASE ~valid
  <2>1. \A q \in 1..49 : ~Matches(q, OP, func3, func7)
    BY <1>5, <1>8, RowsOf DEF Matches
  <2> QED BY <1>6, <1>8, <2>1, EntryMissed
<1> QED BY <1>7, <1>8

LEMMA EntryOp32 ==
    ASSUME NEW func3 \in Func3, NEW func7 \in Func7
    PROVE  Entry(OP_32, func3, func7) =
               IF func3 = 0 /\ func7 = 0 THEN "addw"
               ELSE IF func3 = 0 /\ func7 = 32 THEN "subw"
               ELSE IF func3 = 1 /\ func7 = 0 THEN "sllw"
               ELSE IF func3 = 5 /\ func7 \in {0, 32} THEN "srlaw" ELSE "illegal"
<1> DEFINE r == IF func3 = 0 THEN IF func7 = 32 THEN 46 ELSE 45
                ELSE IF func3 = 1 THEN 47 ELSE IF func7 = 32 THEN 49 ELSE 48
           valid == \/ func3 \in {0, 5} /\ func7 \in {0, 32}
                    \/ func3 = 1 /\ func7 = 0
<1>1. /\ Registrations[45].func3 = {0} /\ Registrations[46].func3 = {0}
      /\ Registrations[47].func3 = {1} /\ Registrations[48].func3 = {5}
      /\ Registrations[49].func3 = {5}
  BY DEF Registrations, Row, F3, F37, FUNC3
<1>2. /\ Registrations[45].func7 = {0} /\ Registrations[46].func7 = {32}
      /\ Registrations[47].func7 = {0} /\ Registrations[48].func7 = {0}
      /\ Registrations[49].func7 = {32}
  BY DEF Registrations, Row, F3, F37, FUNC7
<1>3. /\ Registrations[45].handler = "addw" /\ Registrations[46].handler = "subw"
      /\ Registrations[47].handler = "sllw" /\ Registrations[48].handler = "srlaw"
      /\ Registrations[49].handler = "srlaw"
  BY DEF Registrations, Row, F3, F37
<1>5. \A q \in 45..49 : func3 \in Registrations[q].func3
                            /\ func7 \in Registrations[q].func7 <=> q = r /\ valid
  <2> SUFFICES ASSUME NEW q \in 45..49
               PROVE  func3 \in Registrations[q].func3 /\ func7 \in Registrations[q].func7
                          <=> q = r /\ valid
    OBVIOUS
  <2>1. q = 45 \/ q = 46 \/ q = 47 \/ q = 48 \/ q = 49
    OBVIOUS
  <2> QED BY <1>1, <1>2, <2>1 DEF Func3
<1>6. func3 = 0 \/ func3 = 1 \/ func3 = 2 \/ func3 = 3 \/ func3 = 4 \/ func3 = 5
          \/ func3 = 6 \/ func3 = 7
  BY DEF Func3
<1>7. CASE valid
  <2>1. r \in 45..49
    BY <1>6, <1>7
  <2>2. Matches(r, OP_32, func3, func7)
    BY <1>5, <1>7, <2>1, RowsOf DEF Matches
  <2>3. \A q \in 1..49 : Matches(q, OP_32, func3, func7) => q = r
    BY <1>5, RowsOf DEF Matches
  <2>4. Entry(OP_32, func3, func7) = Registrations[r].handler
    BY <2>2, <2>3, EntryHit
  <2> QED BY <1>3, <1>6, <1>7, <2>4
<1>8. CASE ~valid
  <2>1. \A q \in 1..49 : ~Matches(q, OP_32, func3, func7)
    BY <1>5, <1>8, RowsOf DEF Matches
  <2> QED BY <1>6, <1>8, <2>1, EntryMissed
<1> QED BY <1>7, <1>8

LEMMA EntryOther ==
    ASSUME NEW opcode, NEW func3, NEW func7,
           opcode \notin {LUI, AUIPC, JAL, JALR, BRANCH, LOAD, STORE, OP_IMM, OP_IMM_32,
                          OP, OP_32}
    PROVE  Entry(opcode, func3, func7) = "illegal"
<1>1. \A q \in 1..49 : Registrations[q].opcode \in {LUI, AUIPC, JAL, JALR, BRANCH, LOAD,
                                                    STORE, OP_IMM, OP_IMM_32, OP, OP_32}
  BY RowOpcodes
<1>2. \A q \in 1..49 : ~Matches(q, opcode, func3, func7)
  BY <1>1 DEF Matches
<1> QED BY <1>2, EntryMissed

------------------------------------------------------------------------------
\* From the entry to the manual's name.

\* What each decoder looks up.
LEMMA LookupOf ==
    ASSUME NEW w
    PROVE  LET o == decode_opcode(w)
               func3 == decode_func3(w)
           IN  /\ Format(o) = "i" => Lookup(w) = Entry(o, func3, HackFunc7(w))
               /\ Format(o) \in {"s", "b"} => Lookup(w) = Entry(o, func3, 0)
               /\ Format(o) \in {"u", "j"} => Lookup(w) = Entry(o, 0, 0)
               /\ Format(o) = "r" => Lookup(w) = Entry(o, func3, decode_func7(w))
               /\ Format(o) = "none" => Lookup(w) = "illegal"
  BY DEF Lookup

\* The bit that tells an arithmetic shift from a logical one.
Arithmetic(w) == IF Format(decode_opcode(w)) = "r" THEN (decode_func7(w) \div 32) % 2
                 ELSE Imm("i", w)[10]

LEMMA ResolvedOf ==
    ASSUME NEW w
    PROVE  /\ Lookup(w) \notin {"srlai", "srlaiw", "srla", "srlaw"}
                  => Resolved(w) = Lookup(w)
           /\ Lookup(w) = "srlai"
                  => Resolved(w) = IF Arithmetic(w) = 1 THEN "srai" ELSE "srli"
           /\ Lookup(w) = "srlaiw"
                  => Resolved(w) = IF Arithmetic(w) = 1 THEN "sraiw" ELSE "srliw"
           /\ Lookup(w) = "srla"
                  => Resolved(w) = IF Arithmetic(w) = 1 THEN "sra" ELSE "srl"
           /\ Lookup(w) = "srlaw"
                  => Resolved(w) = IF Arithmetic(w) = 1 THEN "sraw" ELSE "srlw"
  BY DEF Resolved, Arithmetic

\* hack_func7 leaves that bit alone: bit 10 of the immediate is bit 5 of func7.
LEMMA ShiftBit ==
    ASSUME NEW w \in AnyWord
    PROVE  Imm("i", w)[10] = (decode_func7(w) \div 32) % 2
<1>1. 10 \in ImmBit /\ 10 <= 11 /\ ~(10 >= FillFrom["i"])
  BY DEF ImmBit, FillFrom
<1>2. Imm("i", w)[10] = PieceBit("i", w, 10)
  BY <1>1 DEF Imm
<1>3. PieceBit("i", w, 10) = w[20 + 10]
  BY <1>1, PiecesI
<1>4. decode_func7(w) = Sum7(w, 25)
  BY Extract7 DEF decode_func7
<1>5. /\ w[25] \in {0, 1} /\ w[25 + 1] \in {0, 1} /\ w[25 + 2] \in {0, 1}
      /\ w[25 + 3] \in {0, 1} /\ w[25 + 4] \in {0, 1} /\ w[25 + 5] \in {0, 1}
      /\ w[25 + 6] \in {0, 1}
  BY DEF AnyWord, InsBit
<1>6. (Sum7(w, 25) \div 32) % 2 = w[25 + 5]
  BY <1>5 DEF Sum7
<1> QED BY <1>2, <1>3, <1>4, <1>6

\* The manual's name of what it reserves; no instruction has it.
Reserved == ""

LEMMA HandlersOf ==
    /\ HandlerOf(Reserved) = "illegal"
    /\ \A name \in {"lui", "auipc", "jal", "jalr", "beq", "bne", "blt", "bge", "bltu", "bgeu",
                     "lb", "lh", "lw", "ld", "lbu", "lhu", "lwu", "sb", "sh", "sw", "sd",
                     "addi", "slti", "sltiu", "xori", "ori", "andi", "slli", "srli", "srai",
                     "addiw", "slliw", "srliw", "sraiw", "add", "sub", "sll", "slt", "sltu",
                     "xor", "srl", "sra", "or", "and", "addw", "subw", "sllw", "srlw", "sraw"} :
           HandlerOf(name) = name
<1> DEFINE names == {"lui", "auipc", "jal", "jalr", "beq", "bne", "blt", "bge", "bltu", "bgeu",
                     "lb", "lh", "lw", "ld", "lbu", "lhu", "lwu", "sb", "sh", "sw", "sd",
                     "addi", "slti", "sltiu", "xori", "ori", "andi", "slli", "srli", "srai",
                     "addiw", "slliw", "srliw", "sraiw", "add", "sub", "sll", "slt", "sltu",
                     "xor", "srl", "sra", "or", "and", "addw", "subw", "sllw", "srlw", "sraw"}
<1>1. HandlerOf(Reserved) = "illegal"
  BY Zenon DEF Reserved, HandlerOf
<1>2. Reserved \notin names /\ "fence" \notin names /\ "environment" \notin names
  BY Zenon DEF Reserved
<1> HIDE DEF names
<1>3. \A name \in names : name \notin {Reserved} \cup Unimplemented
  BY <1>2, Zenon DEF Unimplemented
<1>4. \A name \in names : HandlerOf(name) = name
  BY <1>3, Zenon DEF HandlerOf, Reserved
<1> QED BY <1>1, <1>4 DEF names

LEMMA NotReserved ==
    Reserved \notin {"lui", "auipc", "jal", "jalr", "beq", "bne", "blt", "bge", "bltu", "bgeu",
                     "lb", "lh", "lw", "ld", "lbu", "lhu", "lwu", "sb", "sh", "sw", "sd",
                     "addi", "slti", "sltiu", "xori", "ori", "andi", "slli", "srli", "srai",
                     "addiw", "slliw", "srliw", "sraiw", "add", "sub", "sll", "slt", "sltu",
                     "xor", "srl", "sra", "or", "and", "addw", "subw", "sllw", "srlw", "sraw"}
  BY Zenon DEF Reserved

\* The manual's names.
LEMMA OpNames ==
    ASSUME NEW func3 \in Func3, NEW func7
    PROVE  /\ OpName(func3, 0) = Ops[func3 + 1]
           /\ OpName(0, 32) = "sub" /\ OpName(5, 32) = "sra"
           /\ func3 \notin {0, 5} => OpName(func3, 32) = Reserved
           /\ func7 \notin {0, 32} => OpName(func3, func7) = Reserved
<1>1. /\ Ops[1] = "add" /\ Ops[2] = "sll" /\ Ops[3] = "slt" /\ Ops[4] = "sltu"
      /\ Ops[5] = "xor" /\ Ops[6] = "srl" /\ Ops[7] = "or" /\ Ops[8] = "and"
  BY DEF Ops
<1>2. DOMAIN Alternate = {"add", "srl"} /\ Alternate["add"] = "sub" /\ Alternate["srl"] = "sra"
  BY DEF Alternate
<1>3. Ops[0 + 1] = "add" /\ Ops[5 + 1] = "srl"
  BY <1>1
<1>4. func3 \notin {0, 5} => Ops[func3 + 1] \notin {"add", "srl"}
  <2>1. func3 = 0 \/ func3 = 1 \/ func3 = 2 \/ func3 = 3 \/ func3 = 4 \/ func3 = 5
            \/ func3 = 6 \/ func3 = 7
    BY DEF Func3
  <2> QED BY <1>1, <2>1
<1>5. 32 # 0
  OBVIOUS
<1>6. OpName(func3, 0) = Ops[func3 + 1]
  BY <1>5, Zenon DEF OpName, Reserved
<1>7. OpName(0, 32) = "sub" /\ OpName(5, 32) = "sra"
  BY <1>2, <1>3, <1>5, Zenon DEF OpName, Reserved
<1>8. func3 \notin {0, 5} => OpName(func3, 32) = Reserved
  BY <1>2, <1>4, <1>5, Zenon DEF OpName, Reserved
<1>9. func7 \notin {0, 32} => OpName(func3, func7) = Reserved
  BY Zenon DEF OpName, Reserved
<1> QED BY <1>6, <1>7, <1>8, <1>9

\* The amount of a shift by an immediate reaches into func7.
ImmediateName(func3, func7) ==
    OpName(func3, IF IsShift(func3) THEN (func7 \div 2) * 2 ELSE 0)

\* The opcodes are all different.
LEMMA Opcodes ==
    /\ LUI \notin {AUIPC, JAL, JALR, BRANCH, LOAD, STORE, OP_IMM, OP_IMM_32, OP, OP_32,
                   MISC_MEM, SYSTEM}
    /\ AUIPC \notin {LUI, JAL, JALR, BRANCH, LOAD, STORE, OP_IMM, OP_IMM_32, OP, OP_32,
                     MISC_MEM, SYSTEM}
    /\ JAL \notin {LUI, AUIPC, JALR, BRANCH, LOAD, STORE, OP_IMM, OP_IMM_32, OP, OP_32,
                   MISC_MEM, SYSTEM}
    /\ JALR \notin {LUI, AUIPC, JAL, BRANCH, LOAD, STORE, OP_IMM, OP_IMM_32, OP, OP_32,
                    MISC_MEM, SYSTEM}
    /\ BRANCH \notin {LUI, AUIPC, JAL, JALR, LOAD, STORE, OP_IMM, OP_IMM_32, OP, OP_32,
                      MISC_MEM, SYSTEM}
    /\ LOAD \notin {LUI, AUIPC, JAL, JALR, BRANCH, STORE, OP_IMM, OP_IMM_32, OP, OP_32,
                    MISC_MEM, SYSTEM}
    /\ STORE \notin {LUI, AUIPC, JAL, JALR, BRANCH, LOAD, OP_IMM, OP_IMM_32, OP, OP_32,
                     MISC_MEM, SYSTEM}
    /\ OP_IMM \notin {LUI, AUIPC, JAL, JALR, BRANCH, LOAD, STORE, OP_IMM_32, OP, OP_32,
                      MISC_MEM, SYSTEM}
    /\ OP_IMM_32 \notin {LUI, AUIPC, JAL, JALR, BRANCH, LOAD, STORE, OP_IMM, OP, OP_32,
                         MISC_MEM, SYSTEM}
    /\ OP \notin {LUI, AUIPC, JAL, JALR, BRANCH, LOAD, STORE, OP_IMM, OP_IMM_32, OP_32,
                  MISC_MEM, SYSTEM}
    /\ OP_32 \notin {LUI, AUIPC, JAL, JALR, BRANCH, LOAD, STORE, OP_IMM, OP_IMM_32, OP,
                     MISC_MEM, SYSTEM}
  BY DEF LOAD, OP_IMM, AUIPC, OP_IMM_32, STORE, OP, LUI, OP_32, BRANCH, JALR, JAL, MISC_MEM,
         SYSTEM

LEMMA ManualOf ==
    ASSUME NEW func3, NEW func7
    PROVE  /\ Manual(LUI, func3, func7) = "lui"
           /\ Manual(AUIPC, func3, func7) = "auipc"
           /\ Manual(JAL, func3, func7) = "jal"
           /\ Manual(JALR, func3, func7) = IF func3 = 0 THEN "jalr" ELSE Reserved
           /\ Manual(LOAD, func3, func7) = Loads[func3 + 1]
           /\ Manual(STORE, func3, func7) = Stores[func3 + 1]
           /\ Manual(BRANCH, func3, func7) = Branches[func3 + 1]
           /\ Manual(OP, func3, func7) = OpName(func3, func7)
           /\ Manual(OP_32, func3, func7) = In(WordName, OpName(func3, func7))
           /\ Manual(OP_IMM, func3, func7) = In(ImmName, ImmediateName(func3, func7))
           /\ Manual(OP_IMM_32, func3, func7) = In(WordImmName, ImmediateName(func3, func7))
<1>1. Manual(LUI, func3, func7) = "lui"
  BY Opcodes, Zenon DEF Manual, Reserved, ImmediateName
<1>2. Manual(AUIPC, func3, func7) = "auipc"
  BY Opcodes, Zenon DEF Manual, Reserved, ImmediateName
<1>3. Manual(JAL, func3, func7) = "jal"
  BY Opcodes, Zenon DEF Manual, Reserved, ImmediateName
<1>4. Manual(JALR, func3, func7) = IF func3 = 0 THEN "jalr" ELSE Reserved
  BY Opcodes, Zenon DEF Manual, Reserved, ImmediateName
<1>5. Manual(LOAD, func3, func7) = Loads[func3 + 1]
  BY Opcodes, Zenon DEF Manual, Reserved, ImmediateName
<1>6. Manual(STORE, func3, func7) = Stores[func3 + 1]
  BY Opcodes, Zenon DEF Manual, Reserved, ImmediateName
<1>7. Manual(BRANCH, func3, func7) = Branches[func3 + 1]
  BY Opcodes, Zenon DEF Manual, Reserved, ImmediateName
<1>8. Manual(OP, func3, func7) = OpName(func3, func7)
  BY Opcodes, Zenon DEF Manual, Reserved, ImmediateName
<1>9. Manual(OP_32, func3, func7) = In(WordName, OpName(func3, func7))
  BY Opcodes, Zenon DEF Manual, Reserved, ImmediateName
<1>10. Manual(OP_IMM, func3, func7) = In(ImmName, ImmediateName(func3, func7))
  BY Opcodes, Zenon DEF Manual, Reserved, ImmediateName
<1>11. Manual(OP_IMM_32, func3, func7) = In(WordImmName, ImmediateName(func3, func7))
  BY Opcodes, Zenon DEF Manual, Reserved, ImmediateName
<1> QED
  BY ONLY <1>1, <1>2, <1>3, <1>4, <1>5, <1>6, <1>7, <1>8, <1>9, <1>10, <1>11, Zenon

LEMMA ManualOther ==
    ASSUME NEW opcode, NEW func3, NEW func7,
           opcode \notin {LUI, AUIPC, JAL, JALR, BRANCH, LOAD, STORE, OP_IMM, OP_IMM_32,
                          OP, OP_32}
    PROVE  HandlerOf(Manual(opcode, func3, func7)) = "illegal"
<1>1. CASE opcode \notin {MISC_MEM, SYSTEM}
  <2>1. Manual(opcode, func3, func7) = Reserved
    BY <1>1, Zenon DEF Manual, Reserved
  <2> QED BY <2>1, HandlersOf
<1>2. CASE opcode \in {MISC_MEM, SYSTEM}
  <2>1. Manual(opcode, func3, func7) \in {"fence", "environment", ""}
    BY <1>2, Zenon DEF Manual
  <2> QED BY <2>1, Zenon DEF HandlerOf, Unimplemented
<1> QED BY <1>1, <1>2

LEMMA FormatOther ==
    ASSUME NEW opcode,
           opcode \notin {LUI, AUIPC, JAL, JALR, BRANCH, LOAD, STORE, OP_IMM, OP_IMM_32,
                          OP, OP_32}
    PROVE  Format(opcode) \in {"i", "none"}
  BY Zenon DEF Format, ImmediateOps

\* The dispatch of a word, and the manual's name of it.
Dispatched(w) ==
    Resolved(w) = HandlerOf(Manual(decode_opcode(w), decode_func3(w), decode_func7(w)))

\* Opcodes without a register operation.
LEMMA PlainDispatch ==
    ASSUME NEW w \in AnyWord,
           decode_opcode(w) \in {LUI, AUIPC, JAL, JALR, BRANCH, LOAD, STORE}
    PROVE  Dispatched(w)
<1> DEFINE o == decode_opcode(w)
           func3 == decode_func3(w)
           name == Manual(o, func3, decode_func7(w))
<1>1. func3 \in Func3 /\ HackFunc7(w) \in Func7 /\ 0 \in Func3 /\ 0 \in Func7
  BY FieldsTyped DEF Func3, Func7
<1>2. func3 = 0 \/ func3 = 1 \/ func3 = 2 \/ func3 = 3 \/ func3 = 4 \/ func3 = 5
          \/ func3 = 6 \/ func3 = 7
  BY <1>1 DEF Func3
<1> HIDE DEF o, func3
<1>3. CASE o \in {LUI, AUIPC, JAL}
  <2>1. Lookup(w) = Entry(o, 0, 0)
    BY <1>3, Formats, LookupOf DEF o
  <2>2. Lookup(w) = name /\ name \in {"lui", "auipc", "jal"}
    <3>1. CASE o = LUI
      BY <1>1, <2>1, <3>1, EntryUpper, ManualOf
    <3>2. CASE o = AUIPC
      BY <1>1, <2>1, <3>2, EntryUpper, ManualOf
    <3>3. CASE o = JAL
      BY <1>1, <2>1, <3>3, EntryUpper, ManualOf
    <3> QED BY <1>3, <3>1, <3>2, <3>3
  <2> QED BY <2>2, ResolvedOf, HandlersOf DEF Dispatched, o, func3
<1>4. CASE o = JALR
  <2>1. Lookup(w) = Entry(JALR, func3, HackFunc7(w))
    BY <1>4, Formats, LookupOf DEF o, func3
  <2>2. Lookup(w) = HandlerOf(name) /\ name \in {"jalr", Reserved}
    BY <1>1, <1>4, <2>1, EntryJalr, ManualOf, HandlersOf
  <2> QED BY <2>2, ResolvedOf, HandlersOf DEF Dispatched, o, func3
<1>5. CASE o = LOAD
  <2>1. Lookup(w) = Entry(LOAD, func3, HackFunc7(w))
    BY <1>5, Formats, LookupOf DEF o, func3
  <2>2. /\ Loads[1] = "lb" /\ Loads[2] = "lh" /\ Loads[3] = "lw" /\ Loads[4] = "ld"
        /\ Loads[5] = "lbu" /\ Loads[6] = "lhu" /\ Loads[7] = "lwu" /\ Loads[8] = Reserved
    BY Zenon DEF Loads, Reserved
  <2>3. Lookup(w) = IF func3 = 7 THEN "illegal" ELSE Loads[func3 + 1]
    BY <1>1, <2>1, EntryLoad
  <2>4. name = Loads[func3 + 1]
    BY <1>5, ManualOf
  <2> HIDE DEF name
  <2>5. Lookup(w) = HandlerOf(name) /\ Lookup(w) \notin {"srlai", "srlaiw", "srla", "srlaw"}
    <3>1. IF func3 = 7 THEN Loads[func3 + 1] = Reserved
          ELSE Loads[func3 + 1] \in {"lb", "lh", "lw", "ld", "lbu", "lhu", "lwu"}
      BY <1>2, <2>2
    <3> QED BY <2>3, <2>4, <3>1, HandlersOf
  <2> QED BY <2>5, ResolvedOf DEF Dispatched, o, func3, name
<1>6. CASE o = STORE
  <2>1. Lookup(w) = Entry(STORE, func3, 0)
    BY <1>6, Formats, LookupOf DEF o, func3
  <2>2. /\ Stores[1] = "sb" /\ Stores[2] = "sh" /\ Stores[3] = "sw" /\ Stores[4] = "sd"
        /\ Stores[5] = Reserved /\ Stores[6] = Reserved /\ Stores[7] = Reserved /\ Stores[8] = Reserved
    BY Zenon DEF Stores, Reserved
  <2>3. Lookup(w) = IF func3 > 3 THEN "illegal" ELSE Stores[func3 + 1]
    BY <1>1, <2>1, EntryStore
  <2>4. name = Stores[func3 + 1]
    BY <1>6, ManualOf
  <2> HIDE DEF name
  <2>5. Lookup(w) = HandlerOf(name) /\ Lookup(w) \notin {"srlai", "srlaiw", "srla", "srlaw"}
    <3>1. IF func3 > 3 THEN Stores[func3 + 1] = Reserved
          ELSE Stores[func3 + 1] \in {"sb", "sh", "sw", "sd"}
      BY <1>2, <2>2
    <3> QED BY <2>3, <2>4, <3>1, HandlersOf
  <2> QED BY <2>5, ResolvedOf DEF Dispatched, o, func3, name
<1>7. CASE o = BRANCH
  <2>1. Lookup(w) = Entry(BRANCH, func3, 0)
    BY <1>7, Formats, LookupOf DEF o, func3
  <2>2. /\ Branches[1] = "beq" /\ Branches[2] = "bne" /\ Branches[3] = Reserved /\ Branches[4] = Reserved
        /\ Branches[5] = "blt" /\ Branches[6] = "bge" /\ Branches[7] = "bltu"
        /\ Branches[8] = "bgeu"
    BY Zenon DEF Branches, Reserved
  <2>3. Lookup(w) = IF func3 \in {2, 3} THEN "illegal" ELSE Branches[func3 + 1]
    BY <1>1, <2>1, EntryBranch
  <2>4. name = Branches[func3 + 1]
    BY <1>7, ManualOf
  <2> HIDE DEF name
  <2>5. Lookup(w) = HandlerOf(name) /\ Lookup(w) \notin {"srlai", "srlaiw", "srla", "srlaw"}
    <3>1. IF func3 \in {2, 3} THEN Branches[func3 + 1] = Reserved
          ELSE Branches[func3 + 1] \in {"beq", "bne", "blt", "bge", "bltu", "bgeu"}
      BY <1>2, <2>2
    <3> QED BY <2>3, <2>4, <3>1, HandlersOf
  <2> QED BY <2>5, ResolvedOf DEF Dispatched, o, func3, name
<1> QED BY <1>3, <1>4, <1>5, <1>6, <1>7 DEF o

LEMMA OpsAre ==
    /\ Ops[0 + 1] = "add" /\ Ops[1 + 1] = "sll" /\ Ops[2 + 1] = "slt" /\ Ops[3 + 1] = "sltu"
    /\ Ops[4 + 1] = "xor" /\ Ops[5 + 1] = "srl" /\ Ops[6 + 1] = "or" /\ Ops[7 + 1] = "and"
  BY DEF Ops

LEMMA ShiftsAre == ASSUME NEW func3 \in Func3 PROVE IsShift(func3) <=> func3 \in {1, 5}
<1>1. func3 = 0 \/ func3 = 1 \/ func3 = 2 \/ func3 = 3 \/ func3 = 4 \/ func3 = 5
          \/ func3 = 6 \/ func3 = 7
  BY DEF Func3
<1> QED BY <1>1, OpsAre DEF IsShift

\* The families of names.
LEMMA InWord ==
    /\ In(WordName, "add") = "addw" /\ In(WordName, "sub") = "subw"
    /\ In(WordName, "sll") = "sllw" /\ In(WordName, "srl") = "srlw"
    /\ In(WordName, "sra") = "sraw"
    /\ \A op \in {"slt", "sltu", "xor", "or", "and", Reserved} : In(WordName, op) = Reserved
<1>1. DOMAIN WordName = {"add", "sub", "sll", "srl", "sra"}
  BY DEF WordName
<1>2. /\ WordName["add"] = "addw" /\ WordName["sub"] = "subw" /\ WordName["sll"] = "sllw"
      /\ WordName["srl"] = "srlw" /\ WordName["sra"] = "sraw"
  BY DEF WordName
<1> QED BY <1>1, <1>2, NotReserved, Zenon DEF In, Reserved

LEMMA InImm ==
    /\ \A op \in {"add", "sll", "slt", "sltu", "xor", "srl", "sra", "or", "and"} :
           In(ImmName, op) = ImmName[op]
    /\ ImmName["sll"] = "slli" /\ ImmName["srl"] = "srli" /\ ImmName["sra"] = "srai"
    /\ \A op \in {"add", "slt", "sltu", "xor", "or", "and"} :
           ImmName[op] \in {"addi", "slti", "sltiu", "xori", "ori", "andi"}
    /\ In(ImmName, Reserved) = Reserved
<1>1. DOMAIN ImmName = {"add", "slt", "sltu", "xor", "or", "and", "sll", "srl", "sra"}
  BY DEF ImmName
<1>2. /\ ImmName["sll"] = "slli" /\ ImmName["srl"] = "srli" /\ ImmName["sra"] = "srai"
      /\ ImmName["add"] = "addi" /\ ImmName["slt"] = "slti" /\ ImmName["sltu"] = "sltiu"
      /\ ImmName["xor"] = "xori" /\ ImmName["or"] = "ori" /\ ImmName["and"] = "andi"
  BY DEF ImmName
<1>3. \A op \in {"add", "sll", "slt", "sltu", "xor", "srl", "sra", "or", "and"} :
          In(ImmName, op) = ImmName[op]
  BY <1>1, Zenon DEF In
<1>4. In(ImmName, Reserved) = Reserved
  BY <1>1, NotReserved, Zenon DEF In, Reserved
<1> QED BY <1>2, <1>3, <1>4

LEMMA InWordImm ==
    /\ In(WordImmName, "add") = "addiw" /\ In(WordImmName, "sll") = "slliw"
    /\ In(WordImmName, "srl") = "srliw" /\ In(WordImmName, "sra") = "sraiw"
    /\ \A op \in {"slt", "sltu", "xor", "or", "and", Reserved} :
           In(WordImmName, op) = Reserved
<1>1. DOMAIN WordImmName = {"add", "sll", "srl", "sra"}
  BY DEF WordImmName
<1>2. /\ WordImmName["add"] = "addiw" /\ WordImmName["sll"] = "slliw"
      /\ WordImmName["srl"] = "srliw" /\ WordImmName["sra"] = "sraiw"
  BY DEF WordImmName
<1> QED BY <1>1, <1>2, NotReserved, Zenon DEF In, Reserved

\* What the table makes of a name that is not shared, and of one that is.
LEMMA PlainResolved ==
    ASSUME NEW w, Lookup(w) \notin {"srlai", "srlaiw", "srla", "srlaw"},
           Lookup(w) =
               HandlerOf(Manual(decode_opcode(w), decode_func3(w), decode_func7(w)))
    PROVE  Dispatched(w)
  BY ResolvedOf DEF Dispatched

LEMMA RegisterDispatch ==
    ASSUME NEW w \in AnyWord, decode_opcode(w) = OP
    PROVE  Dispatched(w)
<1> DEFINE func3 == decode_func3(w)
           func7 == decode_func7(w)
<1>1. func3 \in Func3 /\ func7 \in Func7
  BY FieldsTyped
<1>2. Lookup(w) = Entry(OP, func3, func7) /\ Arithmetic(w) = (func7 \div 32) % 2
  BY Formats, LookupOf DEF Arithmetic
<1>3. Manual(decode_opcode(w), func3, func7) = OpName(func3, func7)
  BY ManualOf
<1> HIDE DEF func3, func7
<1>4. Lookup(w) = IF func3 = 5 /\ func7 \in {0, 32} THEN "srla"
                  ELSE IF func7 = 0 THEN Ops[func3 + 1]
                  ELSE IF func3 = 0 /\ func7 = 32 THEN "sub" ELSE "illegal"
  BY <1>1, <1>2, EntryOp
<1>5. CASE func3 = 5 /\ func7 = 0
  <2>1. Resolved(w) = "srl"
    BY <1>2, <1>4, <1>5, ResolvedOf
  <2>2. OpName(func3, func7) = "srl"
    BY <1>1, <1>5, OpNames, OpsAre
  <2> QED BY <1>3, <2>1, <2>2, HandlersOf DEF Dispatched, func3, func7
<1>6. CASE func3 = 5 /\ func7 = 32
  <2>1. Resolved(w) = "sra"
    BY <1>2, <1>4, <1>6, ResolvedOf
  <2>2. OpName(func3, func7) = "sra"
    BY <1>1, <1>6, OpNames
  <2> QED BY <1>3, <2>1, <2>2, HandlersOf DEF Dispatched, func3, func7
<1>7. CASE func3 # 5 /\ func7 = 0
  <2>1. func3 = 0 \/ func3 = 1 \/ func3 = 2 \/ func3 = 3 \/ func3 = 4 \/ func3 = 6 \/ func3 = 7
    BY <1>1, <1>7 DEF Func3
  <2>2. OpName(func3, func7) = Ops[func3 + 1] /\ Lookup(w) = Ops[func3 + 1]
    BY <1>1, <1>4, <1>7, OpNames
  <2>3. Ops[func3 + 1] \in {"add", "sll", "slt", "sltu", "xor", "or", "and"}
    BY <2>1, OpsAre
  <2> QED BY <1>3, <2>2, <2>3, PlainResolved, HandlersOf DEF func3, func7
<1>8. CASE func3 = 0 /\ func7 = 32
  <2>1. Lookup(w) = "sub" /\ OpName(func3, func7) = "sub"
    BY <1>1, <1>4, <1>8, OpNames
  <2> QED BY <1>3, <2>1, PlainResolved, HandlersOf DEF func3, func7
<1>9. CASE func7 # 0 /\ ~(func7 = 32 /\ func3 \in {0, 5})
  <2>1. Lookup(w) = "illegal" /\ OpName(func3, func7) = Reserved
    BY <1>1, <1>4, <1>9, OpNames
  <2> QED BY <1>3, <2>1, PlainResolved, HandlersOf DEF func3, func7
<1> QED BY <1>5, <1>6, <1>7, <1>8, <1>9

LEMMA WordDispatch ==
    ASSUME NEW w \in AnyWord, decode_opcode(w) = OP_32
    PROVE  Dispatched(w)
<1> DEFINE func3 == decode_func3(w)
           func7 == decode_func7(w)
<1>1. func3 \in Func3 /\ func7 \in Func7
  BY FieldsTyped
<1>2. Lookup(w) = Entry(OP_32, func3, func7) /\ Arithmetic(w) = (func7 \div 32) % 2
  BY Formats, LookupOf DEF Arithmetic
<1>3. Manual(decode_opcode(w), func3, func7) = In(WordName, OpName(func3, func7))
  BY ManualOf
<1> HIDE DEF func3, func7
<1>4. Lookup(w) = IF func3 = 0 /\ func7 = 0 THEN "addw"
                  ELSE IF func3 = 0 /\ func7 = 32 THEN "subw"
                  ELSE IF func3 = 1 /\ func7 = 0 THEN "sllw"
                  ELSE IF func3 = 5 /\ func7 \in {0, 32} THEN "srlaw" ELSE "illegal"
  BY <1>1, <1>2, EntryOp32
<1>5. CASE func3 = 5 /\ func7 = 0
  <2>1. Resolved(w) = "srlw"
    BY <1>2, <1>4, <1>5, ResolvedOf
  <2>2. OpName(func3, func7) = "srl"
    BY <1>1, <1>5, OpNames, OpsAre
  <2> QED BY <1>3, <2>1, <2>2, InWord, HandlersOf DEF Dispatched, func3, func7
<1>6. CASE func3 = 5 /\ func7 = 32
  <2>1. Resolved(w) = "sraw"
    BY <1>2, <1>4, <1>6, ResolvedOf
  <2>2. OpName(func3, func7) = "sra"
    BY <1>1, <1>6, OpNames
  <2> QED BY <1>3, <2>1, <2>2, InWord, HandlersOf DEF Dispatched, func3, func7
<1>7. CASE func3 \in {0, 1} /\ func7 = 0
  <2>1. OpName(func3, func7) = IF func3 = 0 THEN "add" ELSE "sll"
    BY <1>1, <1>7, OpNames, OpsAre
  <2>2. Lookup(w) = IF func3 = 0 THEN "addw" ELSE "sllw"
    BY <1>4, <1>7
  <2> QED BY <1>3, <2>1, <2>2, InWord, PlainResolved, HandlersOf DEF func3, func7
<1>8. CASE func3 = 0 /\ func7 = 32
  <2>1. Lookup(w) = "subw" /\ OpName(func3, func7) = "sub"
    BY <1>1, <1>4, <1>8, OpNames
  <2> QED BY <1>3, <2>1, InWord, PlainResolved, HandlersOf DEF func3, func7
<1>9. CASE func7 # 0 /\ ~(func7 = 32 /\ func3 \in {0, 5})
  <2>1. Lookup(w) = "illegal" /\ OpName(func3, func7) = Reserved
    BY <1>1, <1>4, <1>9, OpNames
  <2> QED BY <1>3, <2>1, InWord, PlainResolved, HandlersOf DEF func3, func7
<1>10. CASE func7 = 0 /\ func3 \notin {0, 1, 5}
  <2>1. func3 = 2 \/ func3 = 3 \/ func3 = 4 \/ func3 = 6 \/ func3 = 7
    BY <1>1, <1>10 DEF Func3
  <2>2. Lookup(w) = "illegal" /\ OpName(func3, func7) = Ops[func3 + 1]
    BY <1>1, <1>4, <1>10, OpNames
  <2>3. Ops[func3 + 1] \in {"slt", "sltu", "xor", "or", "and"}
    BY <2>1, OpsAre
  <2> QED BY <1>3, <2>2, <2>3, InWord, PlainResolved, HandlersOf DEF func3, func7
<1> QED BY <1>5, <1>6, <1>7, <1>8, <1>9, <1>10

\* What a shift by an immediate is, from the upper six bits of func7.
LEMMA ShiftKinds ==
    ASSUME NEW w \in AnyWord, Format(decode_opcode(w)) = "i"
    PROVE  /\ HackFunc7(w) = 0 => Arithmetic(w) = 0
           /\ HackFunc7(w) = 32 => Arithmetic(w) = 1
<1>1. Arithmetic(w) = (decode_func7(w) \div 32) % 2
  BY ShiftBit DEF Arithmetic
<1>2. decode_func7(w) \in 0..127
  BY FieldsTyped DEF Func7
<1> QED BY <1>1, <1>2 DEF HackFunc7

LEMMA ImmediateNameOf ==
    ASSUME NEW w \in AnyWord
    PROVE  LET func3 == decode_func3(w)
               name == ImmediateName(func3, decode_func7(w))
           IN  /\ func3 \notin {1, 5} => name = Ops[func3 + 1]
               /\ func3 = 1 => name = IF HackFunc7(w) = 0 THEN "sll" ELSE Reserved
               /\ func3 = 5 => name = IF HackFunc7(w) = 0 THEN "srl"
                                      ELSE IF HackFunc7(w) = 32 THEN "sra" ELSE Reserved
<1> DEFINE func3 == decode_func3(w)
           name == ImmediateName(func3, decode_func7(w))
<1>1. func3 \in Func3
  BY FieldsTyped
<1>2. name = OpName(func3, IF func3 \in {1, 5} THEN HackFunc7(w) ELSE 0)
  BY <1>1, ShiftsAre DEF ImmediateName, HackFunc7
<1> HIDE DEF func3, name
<1>3. func3 \notin {1, 5} => name = Ops[func3 + 1]
  BY <1>1, <1>2, OpNames
<1>4. CASE func3 = 1
  <2>1. name = OpName(1, HackFunc7(w)) /\ 1 \in Func3
    BY <1>1, <1>2, <1>4
  <2>2. HackFunc7(w) = 32 => name = Reserved
    BY <2>1, OpNames
  <2>3. HackFunc7(w) = 0 => name = "sll"
    BY <2>1, OpNames, OpsAre
  <2>4. HackFunc7(w) \notin {0, 32} => name = Reserved
    BY <2>1, OpNames
  <2> QED BY <1>4, <2>2, <2>3, <2>4 DEF func3, name
<1>5. CASE func3 = 5
  <2>1. name = OpName(5, HackFunc7(w)) /\ 5 \in Func3
    BY <1>1, <1>2, <1>5
  <2>2. HackFunc7(w) = 32 => name = "sra"
    BY <2>1, OpNames
  <2>3. HackFunc7(w) = 0 => name = "srl"
    BY <2>1, OpNames, OpsAre
  <2>4. HackFunc7(w) \notin {0, 32} => name = Reserved
    BY <2>1, OpNames
  <2> QED BY <1>5, <2>2, <2>3, <2>4 DEF func3, name
<1> QED BY <1>3, <1>4, <1>5 DEF func3, name

LEMMA ImmediateDispatch ==
    ASSUME NEW w \in AnyWord, decode_opcode(w) = OP_IMM
    PROVE  Dispatched(w)
<1> DEFINE func3 == decode_func3(w)
           func7 == HackFunc7(w)
           name == ImmediateName(func3, decode_func7(w))
<1>1. func3 \in Func3 /\ func7 \in Func7
  BY FieldsTyped
<1>2. Format(decode_opcode(w)) = "i" /\ Lookup(w) = Entry(OP_IMM, func3, func7)
  BY Formats, LookupOf
<1>3. Manual(decode_opcode(w), func3, decode_func7(w)) = In(ImmName, name)
  BY ManualOf
<1>4. /\ func3 \notin {1, 5} => name = Ops[func3 + 1]
      /\ func3 = 1 => name = IF func7 = 0 THEN "sll" ELSE Reserved
      /\ func3 = 5 => name = IF func7 = 0 THEN "srl"
                             ELSE IF func7 = 32 THEN "sra" ELSE Reserved
  BY ImmediateNameOf
<1>5. (func7 = 0 => Arithmetic(w) = 0) /\ (func7 = 32 => Arithmetic(w) = 1)
  BY <1>2, ShiftKinds
<1> HIDE DEF func3, func7, name
<1>6. Lookup(w) = IF func3 = 5 THEN IF func7 \in {0, 32} THEN "srlai" ELSE "illegal"
                  ELSE IF func3 = 1 /\ func7 # 0 THEN "illegal" ELSE ImmName[Ops[func3 + 1]]
  BY <1>1, <1>2, EntryOpImm
<1>7. CASE func3 = 5 /\ func7 = 0
  <2>1. Resolved(w) = "srli" /\ In(ImmName, name) = "srli"
    BY <1>4, <1>5, <1>6, <1>7, ResolvedOf, InImm
  <2> QED BY <1>3, <2>1, HandlersOf DEF Dispatched, func3
<1>8. CASE func3 = 5 /\ func7 = 32
  <2>1. Resolved(w) = "srai" /\ In(ImmName, name) = "srai"
    BY <1>4, <1>5, <1>6, <1>8, ResolvedOf, InImm
  <2> QED BY <1>3, <2>1, HandlersOf DEF Dispatched, func3
<1>9. CASE (func3 = 5 /\ func7 \notin {0, 32}) \/ (func3 = 1 /\ func7 # 0)
  <2>1. Lookup(w) = "illegal" /\ In(ImmName, name) = Reserved
    BY <1>4, <1>6, <1>9, InImm
  <2> QED BY <1>3, <2>1, PlainResolved, HandlersOf DEF func3
<1>10. CASE func3 = 1 /\ func7 = 0
  <2>1. Lookup(w) = "slli" /\ In(ImmName, name) = "slli"
    BY <1>4, <1>6, <1>10, InImm, OpsAre
  <2> QED BY <1>3, <2>1, PlainResolved, HandlersOf DEF func3
<1>11. CASE func3 \notin {1, 5}
  <2>1. func3 = 0 \/ func3 = 2 \/ func3 = 3 \/ func3 = 4 \/ func3 = 6 \/ func3 = 7
    BY <1>1, <1>11 DEF Func3
  <2>2. name \in {"add", "slt", "sltu", "xor", "or", "and"}
    BY <1>4, <1>11, <2>1, OpsAre
  <2>3. Lookup(w) = ImmName[name]
    BY <1>4, <1>6, <1>11
  <2>4. In(ImmName, name) = ImmName[name]
    BY <2>2, InImm
  <2>5. ImmName[name] \in {"addi", "slti", "sltiu", "xori", "ori", "andi"}
    BY <2>2, InImm
  <2> QED BY <1>3, <2>3, <2>4, <2>5, PlainResolved, HandlersOf DEF func3
<1> QED BY <1>7, <1>8, <1>9, <1>10, <1>11

LEMMA WordImmediateDispatch ==
    ASSUME NEW w \in AnyWord, decode_opcode(w) = OP_IMM_32
    PROVE  Dispatched(w)
<1> DEFINE func3 == decode_func3(w)
           func7 == HackFunc7(w)
           name == ImmediateName(func3, decode_func7(w))
<1>1. func3 \in Func3 /\ func7 \in Func7
  BY FieldsTyped
<1>2. Format(decode_opcode(w)) = "i" /\ Lookup(w) = Entry(OP_IMM_32, func3, func7)
  BY Formats, LookupOf
<1>3. Manual(decode_opcode(w), func3, decode_func7(w)) = In(WordImmName, name)
  BY ManualOf
<1>4. /\ func3 \notin {1, 5} => name = Ops[func3 + 1]
      /\ func3 = 1 => name = IF func7 = 0 THEN "sll" ELSE Reserved
      /\ func3 = 5 => name = IF func7 = 0 THEN "srl"
                             ELSE IF func7 = 32 THEN "sra" ELSE Reserved
  BY ImmediateNameOf
<1>5. (func7 = 0 => Arithmetic(w) = 0) /\ (func7 = 32 => Arithmetic(w) = 1)
  BY <1>2, ShiftKinds
<1> HIDE DEF func3, func7, name
<1>6. Lookup(w) = IF func3 = 0 THEN "addiw"
                  ELSE IF func3 = 1 /\ func7 = 0 THEN "slliw"
                  ELSE IF func3 = 5 /\ func7 \in {0, 32} THEN "srlaiw" ELSE "illegal"
  BY <1>1, <1>2, EntryOpImm32
<1>7. CASE func3 = 5 /\ func7 = 0
  <2>1. Resolved(w) = "srliw" /\ In(WordImmName, name) = "srliw"
    BY <1>4, <1>5, <1>6, <1>7, ResolvedOf, InWordImm
  <2> QED BY <1>3, <2>1, HandlersOf DEF Dispatched, func3
<1>8. CASE func3 = 5 /\ func7 = 32
  <2>1. Resolved(w) = "sraiw" /\ In(WordImmName, name) = "sraiw"
    BY <1>4, <1>5, <1>6, <1>8, ResolvedOf, InWordImm
  <2> QED BY <1>3, <2>1, HandlersOf DEF Dispatched, func3
<1>9. CASE (func3 = 5 /\ func7 \notin {0, 32}) \/ (func3 = 1 /\ func7 # 0)
  <2>1. Lookup(w) = "illegal" /\ In(WordImmName, name) = Reserved
    BY <1>4, <1>6, <1>9, InWordImm
  <2> QED BY <1>3, <2>1, PlainResolved, HandlersOf DEF func3
<1>10. CASE func3 = 1 /\ func7 = 0
  <2>1. Lookup(w) = "slliw" /\ In(WordImmName, name) = "slliw"
    BY <1>4, <1>6, <1>10, InWordImm
  <2> QED BY <1>3, <2>1, PlainResolved, HandlersOf DEF func3
<1>11. CASE func3 = 0
  <2>1. Lookup(w) = "addiw" /\ In(WordImmName, name) = "addiw"
    BY <1>4, <1>6, <1>11, InWordImm, OpsAre
  <2> QED BY <1>3, <2>1, PlainResolved, HandlersOf DEF func3
<1>12. CASE func3 \notin {0, 1, 5}
  <2>1. func3 = 2 \/ func3 = 3 \/ func3 = 4 \/ func3 = 6 \/ func3 = 7
    BY <1>1, <1>12 DEF Func3
  <2>2. name \in {"slt", "sltu", "xor", "or", "and"}
    BY <1>4, <1>12, <2>1, OpsAre
  <2>3. Lookup(w) = "illegal" /\ In(WordImmName, name) = Reserved
    BY <1>6, <1>12, <2>2, InWordImm
  <2> QED BY <1>3, <2>3, PlainResolved, HandlersOf DEF func3
<1> QED BY <1>7, <1>8, <1>9, <1>10, <1>11, <1>12

LEMMA OtherDispatch ==
    ASSUME NEW w \in AnyWord,
           decode_opcode(w) \notin {LUI, AUIPC, JAL, JALR, BRANCH, LOAD, STORE, OP_IMM,
                                    OP_IMM_32, OP, OP_32}
    PROVE  Dispatched(w)
<1>1. Lookup(w) = "illegal"
  BY FormatOther, LookupOf, EntryOther
<1>2. HandlerOf(Manual(decode_opcode(w), decode_func3(w), decode_func7(w))) = "illegal"
  BY ManualOther
<1> QED BY <1>1, <1>2, PlainResolved

(***************************************************************************)
(* For each of the 2^32 words: the handler it is given to is the one of    *)
(* the instruction the manual encodes in it.  If there is none, or if it   *)
(* is FENCE, ECALL or EBREAK, it is illegal_instruction_handler.           *)
(***************************************************************************)
THEOREM EveryWordDispatched == \A w \in AnyWord : Dispatched(w)
  BY PlainDispatch, RegisterDispatch, WordDispatch, ImmediateDispatch, WordImmediateDispatch,
     OtherDispatch

LEMMA BitsOfFunc3 ==
    ASSUME NEW m \in Func3
    PROVE  LET b == Bits(m, 12, 3)
           IN  /\ b[12] \in {0, 1} /\ b[12 + 1] \in {0, 1} /\ b[12 + 2] \in {0, 1}
               /\ 4 * b[12 + 2] + 2 * b[12 + 1] + b[12] = m
<1> DEFINE b == Bits(m, 12, 3)
<1>1. b[12] = m % 2 /\ b[12 + 1] = (m \div 2) % 2 /\ b[12 + 2] = (m \div 4) % 2
  <2>1. m \div 1 = m
    BY DEF Func3
  <2> QED BY <2>1 DEF Bits
<1>2. /\ m % 2 \in {0, 1} /\ (m \div 2) % 2 \in {0, 1} /\ (m \div 4) % 2 \in {0, 1}
      /\ 4 * ((m \div 4) % 2) + 2 * ((m \div 2) % 2) + (m % 2) = m
  BY DEF Func3
<1> HIDE DEF b
<1> QED BY <1>1, <1>2 DEF b

\* A word with given fields is a word, and has them.
LEMMA WordFields ==
    ASSUME open \in {0, 1}, NEW opcode \in 0..127, NEW func3 \in Func3, NEW func7 \in Func7,
           fixed = Fields(opcode, func3, func7)
    PROVE  /\ Word \in AnyWord
           /\ decode_opcode(Word) = opcode
           /\ decode_func3(Word) = func3
           /\ decode_func7(Word) = func7
<1> DEFINE op == Bits(opcode, 0, 7)
           f3 == Bits(func3, 12, 3)
           f7 == Bits(func7, 25, 7)
<1>1. (\A k \in 0..6 : op[k] \in {0, 1}) /\ Sum7(op, 0) = opcode
  <2>1. 0 \in Nat /\ 0 + 6 = 6
    OBVIOUS
  <2> QED BY <2>1, BitsValue
<1>2. (\A k \in 25..31 : f7[k] \in {0, 1}) /\ Sum7(f7, 25) = func7
  <2>1. 25 \in Nat /\ 25 + 6 = 31 /\ func7 \in 0..127
    BY DEF Func7
  <2> QED BY <2>1, BitsValue
<1>3. /\ f3[12] \in {0, 1} /\ f3[12 + 1] \in {0, 1} /\ f3[12 + 2] \in {0, 1}
      /\ 4 * f3[12 + 2] + 2 * f3[12 + 1] + f3[12] = func3
  BY BitsOfFunc3
<1> HIDE DEF op, f3, f7
<1>4. \A k \in 12..14 : f3[k] \in {0, 1}
  <2>1. \A k \in 12..14 : k = 12 \/ k = 12 + 1 \/ k = 12 + 2
    OBVIOUS
  <2> QED BY <1>3, <2>1
<1>5. fixed = [n \in (0..6) \cup (12..14) \cup (25..31) |->
                  IF n <= 6 THEN op[n] ELSE IF n <= 14 THEN f3[n] ELSE f7[n]]
  BY DEF Fields, op, f3, f7
<1>6. Word \in [InsBit -> {0, 1}]
  BY <1>1, <1>2, <1>4, <1>5 DEF Word
<1>7. \A k \in 0..6 : Word[k] = op[k]
  BY <1>5 DEF Word, InsBit
<1>8. \A k \in 12..14 : Word[k] = f3[k]
  BY <1>5 DEF Word, InsBit
<1>9. \A k \in 25..31 : Word[k] = f7[k]
  BY <1>5 DEF Word, InsBit
<1>10. decode_opcode(Word) = opcode
  <2>1. decode_opcode(Word) = Sum7(Word, 0)
    BY <1>6, Extract7 DEF decode_opcode, AnyWord
  <2>2. Sum7(Word, 0) = Sum7(op, 0)
    BY <1>7 DEF Sum7
  <2> QED BY <1>1, <2>1, <2>2
<1>11. decode_func7(Word) = func7
  <2>1. decode_func7(Word) = Sum7(Word, 25)
    BY <1>6, Extract7 DEF decode_func7, AnyWord
  <2>2. Sum7(Word, 25) = Sum7(f7, 25)
    BY <1>9 DEF Sum7
  <2> QED BY <1>2, <2>1, <2>2
<1>12. decode_func3(Word) = func3
  <2>1. decode_func3(Word) = 4 * Word[12 + 2] + 2 * Word[12 + 1] + Word[12]
    BY <1>6, Extract3 DEF decode_func3, AnyWord
  <2>2. Word[12 + 2] = f3[12 + 2] /\ Word[12 + 1] = f3[12 + 1] /\ Word[12] = f3[12]
    BY <1>8
  <2> QED BY <1>3, <2>1, <2>2
<1> QED BY <1>6, <1>10, <1>11, <1>12 DEF AnyWord

(***************************************************************************)
(* DispatchMatchesManual: each opcode, func3 and func7 finds the manual's  *)
(* instruction in the tables the constructors filled, FENCE, ECALL and     *)
(* EBREAK excepted, for which they hold no handler.                        *)
(***************************************************************************)
THEOREM DispatchFollowsManual == Spec => []DispatchMatchesManual
<1>1. WordInv => DispatchMatchesManual
  <2> SUFFICES ASSUME WordInv, OfFields
               PROVE  DecodedIns(Word).handler =
                          HandlerOf(Manual(what.opcode, what.func3, what.func7))
    BY Zenon DEF DispatchMatchesManual
  <2>1. HoldsFields
    <3>1. HoldsImmediate => DOMAIN what = {"fmt", "ones"}
      BY DEF HoldsImmediate
    <3> QED BY <3>1 DEF WordInv, OfFields
  <2>2. PICK opcode \in 0..127, func3 \in Func3, func7 \in Func7 :
            /\ what = [opcode |-> opcode, func3 |-> func3, func7 |-> func7]
            /\ fixed = Fields(opcode, func3, func7)
    BY <2>1 DEF HoldsFields
  <2>3. /\ Word \in AnyWord
        /\ decode_opcode(Word) = what.opcode
        /\ decode_func3(Word) = what.func3
        /\ decode_func7(Word) = what.func7
    BY <2>2, WordFields DEF WordInv
  <2>4. DecodedIns(Word).handler = Resolved(Word)
    BY DEF DecodedIns
  <2>5. Resolved(Word) = HandlerOf(Manual(what.opcode, what.func3, what.func7))
    BY <2>3, EveryWordDispatched DEF Dispatched
  <2> QED BY <2>4, <2>5
<1> QED BY <1>1, WordInvariant, PTL
=============================================================================
