------------------------------ MODULE SysBusMap ------------------------------
(***************************************************************************)
(* The system bus: the list of devices, memory mapping one more device     *)
(* into it, and one bus step finding the device of the driven address.     *)
(* Every device of the repository is an io_dev_memory, an array of bytes.  *)
(* Addresses are uint64_t and wrap at AddrSpace.  The list is a sequence:  *)
(* linked_list_append puts a node behind the tail.                         *)
(***************************************************************************)
EXTENDS Integers, Sequences

CONSTANTS
    AddrSpace,  \* number of addresses, 2^64 in the program
    Lens,       \* exposed_memory_length of the devices somebody maps
    Data,       \* values of a byte
    MaxDevs     \* bound on the number of mapped devices, for TLC

Address == 0..(AddrSpace - 1)

ASSUME BusAssumption ==
    /\ AddrSpace \in Nat \ {0}
    /\ Lens \subseteq Nat
    /\ 0 \in Data
    /\ MaxDevs \in Nat

VARIABLES
    devs,  \* self->io_devs
    bus    \* self->address, memwrite, writedata and readdata

vars == <<devs, bus>>

\* A device: its base address, exposed_memory_length and exposed_memory.
Device == UNION {[base : Address, len : {n}, mem : [0..(n - 1) -> Data]] : n \in Lens}

\* The end of a device, computed in uint64_t.
MaxAddr(d) == (d.base + d.len) % AddrSpace

\* is_address_inbounds_of_io_dev_exclusive.
InboundsInclusive(d, a) == d.base <= a /\ a <= MaxAddr(d)
Inbounds(d, a) == a = d.base \/ (d.base < a /\ a < MaxAddr(d))

\* The first device of the list whose bounds hold the address.
AnswersAny(i, a) == i \in DOMAIN devs /\ Inbounds(devs[i], a)
Answers(i, a) ==
    /\ i \in DOMAIN devs
    /\ Inbounds(devs[i], a)
    /\ \A j \in 1..(i - 1) : ~Inbounds(devs[j], a)
Routed(a) == \E i \in DOMAIN devs : Inbounds(devs[i], a)

\* The offset sysbus_do_io_with_dev hands to the device.
Offset(d, a) == (a - d.base) % AddrSpace

\* The conflict checks of sysbus_memory_map_iodev against one mapped device:
\* neither end of the new one may lie in the closed range of the old one.
ConflictOfBase(old, new) == old.base <= new.base /\ new.base <= MaxAddr(old)
Conflict(old, new) ==
    \/ old.base <= new.base /\ new.base <= MaxAddr(old)
    \/ old.base <= MaxAddr(new) /\ MaxAddr(new) <= MaxAddr(old)

Init ==
    /\ devs = <<>>
    /\ bus = [address |-> 0, memwrite |-> FALSE, writedata |-> 0, readdata |-> 0]

\* sysbus_memory_map_iodev: appended to the list, or refused with ENOMEM after a
\* conflict or when there is no memory for the list node.
LinkedInFront(new) == <<new>> \o devs
Linked(new) == Append(devs, new)
MapDevice(new) ==
    /\ Len(devs) < MaxDevs
    /\ \/ /\ \A i \in DOMAIN devs : ~Conflict(devs[i], new)
          /\ devs' = Linked(new)
       \/ UNCHANGED devs
    /\ UNCHANGED bus

\* read_mem or write_mem puts an access on the bus; a read leaves writedata.
DriveRead(a) ==
    /\ bus' = [bus EXCEPT !.address = a, !.memwrite = FALSE]
    /\ UNCHANGED devs
DriveWrite(a, d) ==
    /\ bus' = [bus EXCEPT !.address = a, !.memwrite = TRUE, !.writedata = d]
    /\ UNCHANGED devs

\* io_dev_memory_write and io_dev_memory_read do not check the offset: past the
\* end of the array a write stores a byte all the same, kept here with the device
\* (in the program it may hit anything), and a read may return any byte.
Write(d, offset, value) ==
    [d EXCEPT !.mem = [o \in DOMAIN d.mem \union {offset} |->
                          IF o = offset THEN value ELSE d.mem[o]]]
Reads(d, offset) == IF offset < d.len THEN {d.mem[offset]} ELSE Data

\* sysbus_step on a mapped address: sysbus_do_io_with_dev writes if it is asked
\* to and reads in every case.
StepMapped ==
    \E i \in DOMAIN devs :
        LET offset == Offset(devs[i], bus.address)
            after == IF bus.memwrite THEN Write(devs[i], offset, bus.writedata)
                     ELSE devs[i]
        IN  /\ Answers(i, bus.address)
            /\ devs' = [devs EXCEPT ![i] = after]
            /\ \E v \in Reads(after, offset) : bus' = [bus EXCEPT !.readdata = v]

\* sysbus_step on an address nobody answers.
StepUnmapped ==
    /\ ~Routed(bus.address)
    /\ UNCHANGED vars

Next ==
    \/ \E new \in Device : MapDevice(new)
    \/ \E a \in Address : DriveRead(a)
    \/ \E a \in Address, d \in Data : DriveWrite(a, d)
    \/ StepMapped
    \/ StepUnmapped

Spec == Init /\ [][Next]_vars

------------------------------------------------------------------------------
\* Correctness.

(***************************************************************************)
(* The types; the exposed memory of a device is an array of its length for *)
(* ever, that is, io_dev_memory_write, which indexes it without a check,   *)
(* never stores a byte outside it.                                         *)
(***************************************************************************)
TypeOK ==
    /\ devs \in Seq(Device)
    /\ bus \in [address : Address, memwrite : BOOLEAN,
                writedata : Data, readdata : Data]

(***************************************************************************)
(* A device is only ever handed an offset inside its exposed memory: what  *)
(* io_dev_memory_read and io_dev_memory_write, which index the array       *)
(* without a check, rely on.                                               *)
(***************************************************************************)
OffsetInRange ==
    \A i \in DOMAIN devs, a \in Address :
        Answers(i, a) => Offset(devs[i], a) < devs[i].len

(***************************************************************************)
(* The conflict check leaves one way for two devices to claim the same     *)
(* address: the later one begins before and ends behind the earlier one,   *)
(* which stays in front of it in the list.  (A device that wraps around    *)
(* the end of the address space is not protected by the check at all.)     *)
(***************************************************************************)
OverlapOnlyByEnclosure ==
    \A i, j \in DOMAIN devs : \A a \in Address :
        /\ i < j /\ devs[i].base <= MaxAddr(devs[i])
        /\ Inbounds(devs[i], a) /\ Inbounds(devs[j], a)
        => devs[j].base < devs[i].base /\ MaxAddr(devs[i]) < MaxAddr(devs[j])

(***************************************************************************)
(* No two devices claim the same address.                                  *)
(***************************************************************************)
RegionsDisjoint ==
    \A i, j \in DOMAIN devs : \A a \in Address :
        Inbounds(devs[i], a) /\ Inbounds(devs[j], a) => i = j

(***************************************************************************)
(* An address keeps its device for ever: mapping another device, over it   *)
(* or around it, never takes it away from the device that answers now.     *)
(* The byte it has there changes only in a step of the bus that writes     *)
(* this very address: neither mapping nor a write elsewhere disturbs it.   *)
(***************************************************************************)
RoutingStable ==
    [][\A a \in Address, i \in DOMAIN devs :
         Answers(i, a) =>
            /\ Answers(i, a)'
            /\ devs'[i].base = devs[i].base /\ devs'[i].len = devs[i].len
            /\ \/ devs'[i].mem[Offset(devs[i], a)] = devs[i].mem[Offset(devs[i], a)]
               \/ bus.memwrite /\ bus.address = a]_vars

\* The byte of every routed address.
Flat ==
    [a \in {b \in Address : Routed(b)} |->
        LET d == devs[CHOOSE i \in DOMAIN devs : Answers(i, a)]
        IN  d.mem[Offset(d, a)]]

FlatMem == INSTANCE FlatMemory WITH flat <- Flat

(***************************************************************************)
(* The list of devices with its first-match search is one flat memory: no  *)
(* two addresses share a byte, a write reaches one byte only, and a device *)
(* mapped around another never changes what the other one's addresses      *)
(* hold.                                                                   *)
(***************************************************************************)
ImplementsFlatMemory == FlatMem!FlatSpec
=============================================================================
