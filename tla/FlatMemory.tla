------------------------------ MODULE FlatMemory ------------------------------
(***************************************************************************)
(* What the bus promises its master: one byte per mapped address.  Mapping *)
(* a device makes more addresses mapped and changes nothing about those    *)
(* that already were; a bus step stores at most one byte, at the driven    *)
(* address, and reads that byte back.                                      *)
(***************************************************************************)
EXTENDS Integers

CONSTANTS AddrSpace, Data

VARIABLES flat, bus

Address == 0..(AddrSpace - 1)

FlatInit ==
    /\ flat = [a \in {} |-> 0]
    /\ bus = [address |-> 0, memwrite |-> FALSE, writedata |-> 0, readdata |-> 0]

\* More addresses answer; those that did before keep their byte.
Extend ==
    /\ DOMAIN flat \subseteq DOMAIN flat'
    /\ \A a \in DOMAIN flat : flat'[a] = flat[a]
    /\ UNCHANGED bus

\* The master sets up the next access.
Drive ==
    /\ \E a \in Address, w \in BOOLEAN, d \in Data :
           bus' = [bus EXCEPT !.address = a, !.memwrite = w, !.writedata = d]
    /\ UNCHANGED flat

Access ==
    LET a == bus.address
        stored == IF bus.memwrite THEN [flat EXCEPT ![a] = bus.writedata] ELSE flat
    IN  /\ a \in DOMAIN flat
        /\ flat' = stored
        /\ bus' = [bus EXCEPT !.readdata = stored[a]]

FlatSpec == FlatInit /\ [][Extend \/ Drive \/ Access]_<<flat, bus>>
=============================================================================
