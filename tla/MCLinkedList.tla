---------------------------- MODULE MCLinkedList ----------------------------
(***************************************************************************)
(* The linked list on a small heap.  Addresses are alike and so are        *)
(* payloads: nothing in LinkedList or in its properties tells two of them  *)
(* apart.                                                                  *)
(***************************************************************************)
EXTENDS LinkedList, TLC

Symmetry == Permutations(Node) \union Permutations(Datum)
=============================================================================
