-------------------------- MODULE MachineRefinement --------------------------
(***************************************************************************)
(* The cycle-level machine implements the instruction-level one: the       *)
(* refinement mapping and the statement.  An instruction takes effect in   *)
(* its first execution cycle; while an access is in flight the mapping     *)
(* completes it, so that the cycles left of it are stutters.               *)
(***************************************************************************)
EXTENDS Machine, FiniteSetsExt

Accessing(kind) == stall /\ at \in {"decide", "stepBus"} /\ Cur.kind = kind

\* The byte a load in flight will find in lane k: readdata keeps the last byte
\* some device answered with.
Arriving(k) ==
    LET start == bus.address - (rdOff - 1)
        answered == {j \in (rdOff - 1)..k : Wrap(start + j) \in Mapped}
    IN  IF answered = {} THEN bus.readdata ELSE mem[Wrap(start + Max(answered))]

Completed ==
    [k \in Lane |-> IF k < rdOff - 1 THEN loaded[k]
                    ELSE IF k < Cur.len THEN Arriving(k) ELSE 0]

\* The lanes a store has not yet put into the memory.
Pending ==
    IF Cur.kind = "store" /\ (at = "stepBus" \/ Accessing("store"))
    THEN (IF at = "stepBus" THEN wrOff - 1 ELSE wrOff)..(Cur.len - 1)
    ELSE {}

PendingAt(a) ==
    {k \in Pending : a = Wrap(bus.address - (wrOff - 1) + k)}

IsaRegs ==
    LET done == IF Accessing("load")
                THEN SetReg(regs, Cur.rd, LoadResult(Completed)) ELSE regs
    IN  IF Accessing("load") \/ Accessing("store")
        THEN [done EXCEPT ![PC] = Wrap(@ + 4)] ELSE regs

IsaMem ==
    [a \in Mapped |-> IF PendingAt(a) = {} THEN mem[a]
                      ELSE ByteOf(regs[Cur.rs2], Max(PendingAt(a)))]

IsaStatus ==
    CASE at = "halted" -> "halted"
      [] at = "exited" -> "illegal"
      [] OTHER -> "running"

Arch == INSTANCE Rv64Isa
            WITH regs <- IsaRegs, mem <- IsaMem, status <- IsaStatus

(***************************************************************************)
(* Every behaviour of the cycle-level loop is, seen through the mapping,   *)
(* one of the instruction-level machine.  This is about everything a       *)
(* multi-cycle access could get wrong: a byte in the wrong lane or at the  *)
(* wrong address, a store interrupted or repeated, an instruction that     *)
(* advances the pc twice or not at all, operands read after they changed.  *)
(***************************************************************************)
ImplementsIsa == Arch!IsaSpec

(***************************************************************************)
(* A load reads the bytes at its address, one behind the other: each call  *)
(* of its handler that has another byte of the access to ask for asks for  *)
(* the one after the byte asked for before.  (The last call asks for one   *)
(* behind the access, which is no part of it.)                             *)
(***************************************************************************)
LoadsReadOneRange ==
    [][at = "decide" /\ stall /\ Cur.kind = "load" /\ rdOff < Cur.len
         => bus'.address = Wrap(bus.address + 1)]_vars

(***************************************************************************)
(* What a load finds where no device answers: in every lane the byte that  *)
(* lies behind its own instruction, which the fetch asked for one byte     *)
(* past its end, and never anything that an earlier access left behind.    *)
(***************************************************************************)
UnansweredLoadRepeatsFetch ==
    (/\ at = "stepBus" /\ ~stall /\ Cur.kind = "load"
     /\ regs[PC] \in Mapped
     /\ \A k \in 0..(Cur.len - 1) : Wrap(Effective + k) \notin Mapped)
    => \A k \in 0..(Cur.len - 1) : loaded[k] = mem[regs[PC]]

(***************************************************************************)
(* When lb, lh or lw has finished, rd holds what it loaded, sign extended  *)
(* from the width it loaded.                                               *)
(***************************************************************************)
LoadsExtendTheirSign ==
    at = "stepBus" /\ ~stall /\ Cur.kind = "load" /\ Cur.sext /\ Cur.rd # 0
        => regs[Cur.rd] = Arch!Extended(loaded, Cur.len, TRUE)
=============================================================================
