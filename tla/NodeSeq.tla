------------------------------- MODULE NodeSeq -------------------------------
(***************************************************************************)
(* What the linked list promises its callers: a sequence of payloads.      *)
(* Nothing is said of nodes, links or the heap.                            *)
(***************************************************************************)
EXTENDS Integers, Sequences

CONSTANTS Datum, NULL, MaxAt

VARIABLE nodes

Payload == Datum \union {NULL}

\* The list made at least n long: what is missing carries no payload.
PaddedTo(n) ==
    nodes \o [i \in 1..(IF n > Len(nodes) THEN n - Len(nodes) ELSE 0) |-> NULL]

SeqInit == nodes = <<>>

PutLast(d) == nodes' = Append(nodes, d)
PutFirst(d) == nodes' = <<d>> \o nodes
\* Position at counts from zero and holds d afterwards.
PutAt(at, d) == nodes' = [PaddedTo(at + 1) EXCEPT ![at + 1] = d]
\* The memory ran out on the way to position at.
PadTowards(at) == \E n \in 0..at : nodes' = PaddedTo(n)
DropLast == nodes # <<>> /\ nodes' = SubSeq(nodes, 1, Len(nodes) - 1)
Clear == nodes' = <<>>

SeqNext ==
    \/ \E d \in Payload : PutLast(d) \/ PutFirst(d)
    \/ \E at \in 0..MaxAt, d \in Payload : PutAt(at, d)
    \/ \E at \in 0..MaxAt : PadTowards(at)
    \/ DropLast
    \/ Clear

SeqSpec == SeqInit /\ [][SeqNext]_nodes
=============================================================================
