------------------------------ MODULE MCMachine ------------------------------
(***************************************************************************)
(* Machine on one-bit bytes: a word has eight bits, an instruction word    *)
(* four, so that all sixteen of them, all programs of three instructions   *)
(* and programs that overwrite themselves are checked.                     *)
(***************************************************************************)
EXTENDS MachineRefinement

\* The arithmetic of the handlers, at the width of eight one-bit bytes.
A == INSTANCE Alu WITH XLEN <- 8

MCFn == {"add", "sub", "srl"}
MCCond == {"eq", "lt"}
MCAlu(f, x, y) == A!Compute(f, x, y)
MCTaken(c, x, y) == A!Holds(c, x, y)

Op(kind, rd, rs1, rs2, imm) ==
    [kind |-> kind, rd |-> rd, rs1 |-> rs1, rs2 |-> rs2, imm |-> imm,
     fn |-> "add", cond |-> "eq", len |-> 4, sext |-> TRUE]
Ld(rd, rs1, imm, len, sext) ==
    [Op("load", rd, rs1, 0, imm) EXCEPT !.len = len, !.sext = sext]
St(rs1, rs2, imm, len) == [Op("store", 0, rs1, rs2, imm) EXCEPT !.len = len]

Table == <<
    Op("alui", 1, 1, 0, 5),
    Op("alui", 2, 0, 0, 8),
    [Op("alu", 1, 1, 2, 0) EXCEPT !.fn = "sub"],
    Ld(2, 0, 6, 4, TRUE),
    Ld(1, 2, 4, 8, FALSE),
    Ld(2, 1, 9, 1, FALSE),
    Ld(1, 0, 9, 2, FALSE),
    St(2, 1, 2, 8),
    St(1, 2, 8, 1),
    St(0, 1, 10, 4),
    Op("jal", 1, 0, 0, 8),
    Op("jalr", 2, 1, 0, 3),
    [Op("branch", 0, 1, 2, 252) EXCEPT !.cond = "lt"],
    Op("auipc", 2, 0, 0, 7),
    Op("illegal", 0, 0, 0, 0)>>

Number(word) == word[0] + 2 * word[1] + 4 * word[2] + 8 * word[3]
TableOf(table) ==
    [word \in [InsLane -> Byte] |->
        IF Number(word) = 0 THEN Op("illegal", 0, 0, 0, 0)
        ELSE table[Number(word)]]

\* No load writes its own base register, no jalr its own link register, and
\* only lw extends a sign.
RegularDecode == TableOf(Table)

\* The same, with lb and lh in the place of the unsigned loads.
SignedDecode ==
    TableOf([Table EXCEPT ![6].sext = TRUE, ![7].sext = TRUE])

\* The same, with an lwu into its own base register.
BaseDecode == TableOf([Table EXCEPT ![7] = Ld(1, 1, 4, 4, FALSE)])

\* The same, with a jalr that links into the register it jumps through.
LinkDecode == TableOf([Table EXCEPT ![12].rd = 1])

MCMapped == 0..11
MCImages == [MCMapped -> Byte]
=============================================================================
