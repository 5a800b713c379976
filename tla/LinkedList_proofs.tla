-------------------------- MODULE LinkedList_proofs --------------------------
(***************************************************************************)
(* The linked list, for any heap, any payloads and any positions.          *)
(*                                                                         *)
(* Walk follows the next pointers; the proofs need the other direction: a  *)
(* sequence of distinct live nodes, each leading to the next and the last  *)
(* to NULL, is what Walk finds.  The inductive invariant says that there   *)
(* is such a sequence, and that it and the client's nodes, which have no   *)
(* links, make up the heap; every call is then a change of the sequence.   *)
(***************************************************************************)
EXTENDS LinkedList, Recursion_proofs, FiniteSetTheorems, SequenceTheorems, TLAPS

N == Cardinality(Node)

\* The chain of next pointers from first visits the nodes of p, L of them.
Chain(h, first, p, L) ==
    /\ L \in Nat
    /\ p \in [0..(L - 1) -> DOMAIN h]
    /\ \A i, j \in 0..(L - 1) : p[i] = p[j] => i = j
    /\ first = IF L = 0 THEN NULL ELSE p[0]
    /\ \A i \in 0..(L - 1) : h[p[i]].next = IF i = L - 1 THEN NULL ELSE p[i + 1]

\* The nodes of the chain.
Places(p, L) == {p[i] : i \in 0..(L - 1)}

\* There are as many addresses as calloc can return.
LEMMA HeapSize == N \in Nat
BY ListAssumption, FS_CardinalityType DEF N

\* A chain is no longer than the heap.
LEMMA ChainFits ==
    ASSUME NEW p, NEW L, Chain(heap, head, p, L), Live \subseteq Node
    PROVE  L <= N
<1>1. L \in Nat /\ p \in [0..(L - 1) -> Node]
  BY DEF Chain, Live
<1>2. p \in Injection(0..(L - 1), Node)
  BY <1>1 DEF Chain, Injection, IsInjective
<1>3. IsFiniteSet(Node) /\ Cardinality(0..(L - 1)) <= N
  BY <1>2, ListAssumption, FS_Injection DEF N
<1>4. Cardinality(0..(L - 1)) = IF 0 > L - 1 THEN 0 ELSE (L - 1) - 0 + 1
  BY <1>1, FS_Interval
<1> QED
  BY <1>1, <1>3, <1>4, HeapSize

\* Walk visits the chain and stays at NULL behind it.
LEMMA WalkFollows ==
    ASSUME NEW p, NEW L, Chain(heap, head, p, L), Live \subseteq Node
    PROVE  Walk = [i \in 0..N |-> IF i < L THEN p[i] ELSE NULL]
<1> DEFINE W == [i \in 0..N |-> IF i < L THEN p[i] ELSE NULL]
           Follows(f) == f = [i \in 0..N |-> IF i = 0 THEN head
                                             ELSE IF f[i - 1] \in Live THEN heap[f[i - 1]].next
                                             ELSE NULL]
<1>1. L \in Nat /\ L <= N /\ N \in Nat
  BY ChainFits, HeapSize DEF Chain
<1>2. \A i \in 0..(L - 1) : p[i] \in Live
  BY DEF Chain, Live
<1>3. NULL \notin Live
  BY ListAssumption
<1>4. Follows(W)
  <2>1. ASSUME NEW i \in 0..N
        PROVE  W[i] = IF i = 0 THEN head
                      ELSE IF W[i - 1] \in Live THEN heap[W[i - 1]].next ELSE NULL
    <3>1. CASE i = 0
      BY <1>1, <3>1 DEF Chain
    <3>2. CASE i # 0 /\ i - 1 < L
      <4>1. W[i - 1] = p[i - 1] /\ p[i - 1] \in Live /\ i - 1 \in 0..(L - 1)
        BY <1>1, <1>2, <3>2
      <4>2. heap[p[i - 1]].next = IF i - 1 = L - 1 THEN NULL ELSE p[(i - 1) + 1]
        BY <4>1 DEF Chain
      <4> QED
        BY <1>1, <3>2, <4>1, <4>2
    <3>3. CASE i # 0 /\ ~(i - 1 < L)
      BY <1>1, <1>3, <3>3
    <3> QED
      BY <3>1, <3>2, <3>3
  <2> QED
    BY <2>1
<1>5. ASSUME NEW f, Follows(f) PROVE f = W
  <2> DEFINE T == {i \in 0..N : f[i] # W[i]}
  <2>1. ASSUME T # {} PROVE FALSE
    <3>1. T \in SUBSET Nat
      BY <1>1
    <3>2. PICK n \in T : \A m \in T : n <= m
      BY <2>1, <3>1, Smallest
    <3>3. n \in 0..N /\ f[n] # W[n]
      BY <3>2
    <3>4. CASE n = 0
      BY <1>4, <1>5, <3>3, <3>4
    <3>5. CASE n # 0
      <4>1. n - 1 \in 0..N /\ n - 1 \notin T
        BY <1>1, <3>1, <3>2, <3>3, <3>5
      <4>2. f[n - 1] = W[n - 1]
        BY <4>1
      <4>3. f[n] = IF f[n - 1] \in Live THEN heap[f[n - 1]].next ELSE NULL
        BY <1>5, <3>3, <3>5
      <4>4. W[n] = IF W[n - 1] \in Live THEN heap[W[n - 1]].next ELSE NULL
        <5> HIDE DEF W
        <5> QED
          BY <1>4, <3>3, <3>5
      <4> QED
        BY <3>3, <4>2, <4>3, <4>4
    <3> QED
      BY <3>4, <3>5
  <2>2. \A i \in 0..N : f[i] = W[i]
    BY <2>1
  <2>3. f = [i \in 0..N |-> f[i]]
    BY <1>5
  <2> HIDE DEF T
  <2> QED
    BY <2>2, <2>3
<1>6. Walk = CHOOSE f : Follows(f)
  BY DEF Walk, N
<1> HIDE DEF W, Follows
<1>7. Follows(Walk)
  BY <1>4, <1>6
<1>8. Walk = W
  BY <1>5, <1>7
<1> QED
  BY <1>8 DEF W

\* What the operations see of the list, read from its chain.
Seen(p, L) ==
    /\ L <= N
    /\ Length = L
    /\ Listed = Places(p, L)
    /\ \A at \in Int : GetAt(at) = IF at \in 0..(L - 1) THEN p[at] ELSE NULL
    /\ GetTail = IF L = 0 THEN NULL ELSE p[L - 1]

LEMMA ChainSeen ==
    Live \subseteq Node => \A p, L : Chain(heap, head, p, L) => Seen(p, L)
<1> SUFFICES ASSUME Live \subseteq Node, NEW p, NEW L, Chain(heap, head, p, L)
             PROVE  Seen(p, L)
  OBVIOUS
<1>1. L \in Nat /\ L <= N /\ N \in Nat
  BY ChainFits, HeapSize DEF Chain
<1>2. Walk = [i \in 0..N |-> IF i < L THEN p[i] ELSE NULL]
  BY WalkFollows
<1>3. \A i \in 0..(L - 1) : p[i] \in Live /\ p[i] # NULL
  BY ListAssumption DEF Chain, Live
<1>4. DOMAIN Walk = 0..N
  BY <1>2
<1>5. \A i \in 0..N : Walk[i] = IF i < L THEN p[i] ELSE NULL
  BY <1>2
<1>6. Length = L
  <2>1. {i \in DOMAIN Walk : Walk[i] # NULL} = 0..(L - 1)
    BY <1>1, <1>3, <1>4, <1>5
  <2>2. Cardinality(0..(L - 1)) = IF 0 > L - 1 THEN 0 ELSE (L - 1) - 0 + 1
    BY <1>1, FS_Interval
  <2>3. Cardinality(0..(L - 1)) = L
    BY <1>1, <2>2
  <2> QED
    BY <2>1, <2>3 DEF Length
<1>7. Listed = Places(p, L)
  <2>1. ASSUME NEW n \in Listed PROVE n \in Places(p, L)
    <3>1. PICK i \in 0..N : n = Walk[i] /\ n # NULL
      BY <1>4 DEF Listed, Range
    <3> QED
      BY <1>1, <1>5, <3>1 DEF Places
  <2>2. ASSUME NEW i \in 0..(L - 1) PROVE p[i] \in Listed
    <3>1. i \in 0..N /\ Walk[i] = p[i] /\ p[i] # NULL
      BY <1>1, <1>3, <1>5
    <3> QED
      BY <1>4, <3>1 DEF Listed, Range
  <2> QED
    BY <2>1, <2>2 DEF Places
<1>8. ASSUME NEW at \in Int
      PROVE  GetAt(at) = IF at \in 0..(L - 1) THEN p[at] ELSE NULL
  BY <1>1, <1>4, <1>5 DEF GetAt
<1>9. GetTail = IF L = 0 THEN NULL ELSE p[L - 1]
  <2>1. CASE L = 0
    BY <2>1 DEF GetTail, Chain
  <2>2. CASE L # 0
    <3>1. 0 \in 0..(L - 1) /\ head = p[0] /\ head # NULL
      BY <1>1, <1>3, <2>2 DEF Chain
    <3>2. L - 1 \in 0..N /\ Walk[L - 1] = p[L - 1]
      BY <1>1, <1>5, <2>2
    <3> QED
      BY <1>6, <2>2, <3>1, <3>2 DEF GetTail
  <2> QED
    BY <2>1, <2>2
<1> QED
  BY <1>1, <1>6, <1>7, <1>8, <1>9 DEF Seen

\* The same after a call.
LEMMA ChainSeenNext ==
    (Live \subseteq Node)' => (\A p, L : Chain(heap, head, p, L) => Seen(p, L))'
BY ChainSeen, PTL

------------------------------------------------------------------------------
\* The inductive invariant.

\* The heap is the chain and the client's nodes.
Shape(p, L) ==
    /\ Chain(heap, head, p, L)
    /\ Live = hand \union Places(p, L)
    /\ hand \intersect Places(p, L) = {}

\* The client's nodes have no links.
HandBlank == \A n \in hand : heap[n].next = NULL /\ heap[n].prev = NULL

\* The payload of every node is allocated and its own.
PayloadsOwned ==
    /\ \A m \in Live : heap[m].data # NULL => heap[m].data \in payloads
    /\ \A m, n \in Live : heap[m].data = heap[n].data /\ m # n => heap[m].data = NULL

ListInv == TypeOK /\ HandBlank /\ PayloadsOwned /\ \E p, L : Shape(p, L)

\* The nodes of a chain are live, distinct, and none of them NULL or the client's.
LEMMA ShapePlaces ==
    ASSUME TypeOK, NEW p, NEW L, Shape(p, L)
    PROVE  /\ L \in Nat
           /\ \A i \in 0..(L - 1) : /\ p[i] \in Live /\ p[i] \in Node /\ p[i] # NULL
                                    /\ p[i] \notin hand
           /\ \A m \in Live : m \in Node /\ m # NULL /\ heap[m] \in Cell
           /\ Seen(p, L)
           /\ Listed = Places(p, L)
           /\ Usable <=> fault = "none"
<1>1. L \in Nat /\ \A i \in 0..(L - 1) : p[i] \in Live /\ p[i] \in Places(p, L)
  BY DEF Shape, Chain, Places, Live
<1>2. Live \subseteq Node /\ \A m \in Live : heap[m] \in Cell
  BY DEF TypeOK
<1>3. NULL \notin Node
  BY ListAssumption
<1>4. Seen(p, L)
  BY <1>2, ChainSeen DEF Shape
<1>5. Listed = Places(p, L) /\ Places(p, L) \subseteq Live
  BY <1>4 DEF Seen, Shape
<1> QED
  BY <1>1, <1>2, <1>3, <1>4, <1>5 DEF Shape, Usable

\* Calls that free nodes, move none in and give new ones no payload keep the payloads.
LEMMA PayloadsKept ==
    ASSUME PayloadsOwned, payloads' = payloads,
           \A m \in Live' : heap'[m].data = IF m \in Live THEN heap[m].data ELSE NULL
    PROVE  PayloadsOwned'
BY DEF PayloadsOwned, Live

\* linked_list_make_node leaves the list alone.
LEMMA MakeShape ==
    ASSUME ListInv, NEW p, NEW L, Shape(p, L), NEW n \in Node, NEW d \in Payloads,
           NEW f \in BOOLEAN, Make(n, d, f)
    PROVE  /\ TypeOK' /\ HandBlank' /\ PayloadsOwned' /\ Shape(p, L)'
           /\ \A m \in Live : m \in Live' /\ heap'[m] = heap[m]
<1>1. TypeOK /\ HandBlank /\ PayloadsOwned
  BY DEF ListInv
<1>2. /\ Live' = Live \union {n} /\ n \notin Live /\ d \notin payloads
      /\ hand' = hand \union {n} /\ payloads' = payloads \union Moved(d)
      /\ head' = head /\ fault' = fault
      /\ \A m \in Live : heap'[m] = heap[m]
      /\ heap'[n] = [Blank EXCEPT !.data = d, !.free_data = f /\ d # NULL]
      /\ heap' = [m \in Live \union {n} |-> heap'[m]]
  BY DEF Make, Fresh, Live
<1>3. /\ heap'[n] \in Cell /\ heap'[n].next = NULL /\ heap'[n].prev = NULL
      /\ heap'[n].data = d
  BY <1>2 DEF Blank, Cell, Link, Payloads
<1>4. TypeOK'
  <2>1. Live' \subseteq Node /\ hand' \subseteq Node
    BY <1>1, <1>2 DEF TypeOK
  <2>2. payloads' \subseteq Datum
    BY <1>1, <1>2 DEF TypeOK, Moved, Payloads
  <2>3. \A m \in Live' : heap'[m] \in Cell
    BY <1>1, <1>2, <1>3 DEF TypeOK
  <2>4. heap' \in [Live' -> Cell]
    BY <1>2, <2>3
  <2> QED
    BY <1>1, <1>2, <2>1, <2>2, <2>4 DEF TypeOK
<1>5. hand \subseteq Live /\ \A i \in 0..(L - 1) : p[i] \in Live
  BY <1>1, ShapePlaces DEF Shape
<1>6. HandBlank'
  BY <1>1, <1>2, <1>3, <1>5 DEF HandBlank
<1>7. PayloadsOwned'
  <2>1. \A m \in Live : heap[m].data # d \/ d = NULL
    BY <1>1, <1>2 DEF PayloadsOwned
  <2>2. \A m \in Live' : \/ m \in Live /\ heap'[m].data = heap[m].data
                         \/ m = n /\ heap'[m].data = d
    BY <1>2, <1>3
  <2>3. \A m \in Live' : heap'[m].data # NULL => heap'[m].data \in payloads'
    BY <1>1, <1>2, <2>2 DEF PayloadsOwned, Moved
  <2>4. ASSUME NEW m \in Live', NEW k \in Live', heap'[m].data = heap'[k].data, m # k
        PROVE  heap'[m].data = NULL
    BY <1>1, <2>1, <2>2, <2>4 DEF PayloadsOwned
  <2> QED
    BY <2>3, <2>4 DEF PayloadsOwned
<1>8. Shape(p, L)'
  <2>1. Chain(heap', head', p, L)
    <3>1. p \in [0..(L - 1) -> DOMAIN heap']
      BY <1>2, <1>5 DEF Shape, Chain, Live
    <3> QED
      BY <1>2, <1>5, <3>1 DEF Shape, Chain
  <2>2. n \notin Places(p, L)
    BY <1>2, <1>5 DEF Places
  <2> QED
    BY <1>2, <2>1, <2>2 DEF Shape
<1> QED
  BY <1>2, <1>4, <1>6, <1>7, <1>8

\* Every prev of the chain leads back.
Backwards(h, p, L) ==
    \A i \in 0..(L - 1) : h[p[i]].prev = IF i = 0 THEN NULL ELSE p[i - 1]

\* The chain with n behind it, and with n before it.
AtEnd(p, L, n) == [i \in 0..L |-> IF i = L THEN n ELSE p[i]]
AtFront(p, L, n) == [i \in 0..L |-> IF i = 0 THEN n ELSE p[i - 1]]

\* The positions of a chain and of one that is longer by a node.
LEMMA Positions ==
    ASSUME NEW L \in Nat
    PROVE  /\ (L + 1) - 1 = L /\ L \in 0..L /\ 0 \in 0..L /\ L \notin 0..(L - 1)
           /\ L # 0 => L - 1 \in 0..(L - 1) /\ 0 \in 0..(L - 1)
           /\ (L - 1) + 1 = L
           /\ \A i \in 0..L : i = L \/ i \in 0..(L - 1)
           /\ \A i \in 0..L : i # 0 => i - 1 \in 0..(L - 1)
           /\ \A i \in 0..(L - 1) : /\ i \in 0..L /\ i + 1 \in 0..L /\ i # L /\ (i + 1) - 1 = i
                                    /\ i # 0 => i - 1 \in 0..(L - 1)
                                    /\ i # L - 1 => i + 1 \in 0..(L - 1)
OBVIOUS

\* linked_list_append puts the node behind the chain.
LEMMA AppendShape ==
    ASSUME ListInv, NEW p, NEW L, Shape(p, L), NEW n \in hand, AppendNode(n)
    PROVE  /\ TypeOK' /\ HandBlank' /\ PayloadsOwned' /\ Shape(AtEnd(p, L, n), L + 1)'
           /\ Backwards(heap, p, L) => Backwards(heap', AtEnd(p, L, n), L + 1)
           /\ Live' = Live /\ \A m \in Live : heap'[m].data = heap[m].data
<1> DEFINE q == AtEnd(p, L, n)
           tail == IF L = 0 THEN NULL ELSE p[L - 1]
<1>1. TypeOK /\ HandBlank /\ PayloadsOwned
  BY DEF ListInv
<1>2. /\ L \in Nat
      /\ \A i \in 0..(L - 1) : p[i] \in Live /\ p[i] # NULL /\ p[i] \notin hand
      /\ \A m \in Live : m # NULL /\ heap[m] \in Cell
      /\ GetTail = tail
  BY <1>1, ShapePlaces DEF Seen
<1>0. \/ L = 0 /\ tail = NULL
      \/ L # 0 /\ L - 1 \in 0..(L - 1) /\ tail = p[L - 1]
  BY <1>2
<1>3. n \in Live /\ n \in Node /\ n # tail /\ hand \subseteq Live /\ tail \notin hand
  BY <1>0, <1>1, <1>2 DEF TypeOK, Shape
<1>4. tail \in Link
  BY <1>0, <1>1, <1>2 DEF TypeOK, Link
<1> HIDE DEF tail
<1>5. /\ heap' = [m \in Live |-> heap'[m]]
      /\ heap'[n] = [heap[n] EXCEPT !.prev = tail]
      /\ tail \in Live => heap'[tail] = [heap[tail] EXCEPT !.next = n]
      /\ \A m \in Live : m # n /\ m # tail => heap'[m] = heap[m]
      /\ head' = IF head = NULL THEN n ELSE head
      /\ hand' = hand \ {n} /\ payloads' = payloads /\ fault' = fault
  BY <1>2, <1>3 DEF AppendNode, Appended
<1>6. Live' = Live
  BY <1>5 DEF Live
<1>7. \A m \in Live : /\ heap'[m] \in Cell /\ heap'[m].data = heap[m].data
                      /\ m # tail => heap'[m].next = heap[m].next
                      /\ m = tail => heap'[m].next = n
                      /\ m # n => heap'[m].prev = heap[m].prev
                      /\ m = n => heap'[m].prev = tail
  BY <1>2, <1>3, <1>4, <1>5 DEF Cell, Link
<1>8. TypeOK'
  BY <1>1, <1>3, <1>5, <1>6, <1>7 DEF TypeOK, Link
<1>9. HandBlank'
  BY <1>1, <1>3, <1>5, <1>7 DEF HandBlank
<1>10. PayloadsOwned'
  BY <1>1, <1>5, <1>6, <1>7, PayloadsKept
<1>11. /\ q = [i \in 0..L |-> q[i]]
       /\ q[L] = n /\ \A i \in 0..(L - 1) : q[i] = p[i]
  BY <1>2, Positions DEF AtEnd
<1>12. (L + 1) - 1 = L /\ \A i \in 0..L : i = L \/ i \in 0..(L - 1)
  BY <1>2, Positions
<1> HIDE DEF q
<1>13. Chain(heap', head', q, L + 1)
  <2>1. ASSUME NEW i \in 0..L PROVE q[i] \in Live
    BY <1>2, <1>3, <1>11, <1>12
  <2>2. q \in [0..((L + 1) - 1) -> DOMAIN heap']
    BY <1>5, <1>11, <1>12, <2>1
  <2>3. ASSUME NEW i \in 0..L, NEW j \in 0..L, q[i] = q[j] PROVE i = j
    <3>1. \A a, b \in 0..(L - 1) : p[a] = p[b] => a = b
      BY <1>2 DEF Shape, Chain
    <3>2. \A a \in 0..(L - 1) : q[a] = p[a] /\ p[a] # n
      BY <1>2, <1>3, <1>11
    <3>3. q[L] = n
      BY <1>11
    <3> QED
      BY <1>12, <2>3, <3>1, <3>2, <3>3
  <2>4. head' = q[0]
    BY <1>2, <1>5, <1>11, Positions DEF Shape, Chain
  <2>5. ASSUME NEW i \in 0..L
        PROVE  heap'[q[i]].next = IF i = (L + 1) - 1 THEN NULL ELSE q[i + 1]
    <3>1. CASE i = L
      <4>1. heap'[n].next = NULL
        BY <1>1, <1>3, <1>7 DEF HandBlank
      <4> QED
        BY <1>2, <1>11, <3>1, <4>1
    <3>2. CASE i \in 0..(L - 1) /\ i = L - 1
      <4>0. L # 0 /\ i + 1 = L
        BY <1>2, <3>2
      <4>1. q[i] = tail /\ tail \in Live /\ q[i + 1] = n
        BY <1>0, <1>2, <1>11, <3>2, <4>0
      <4> QED
        BY <1>2, <1>7, <3>2, <4>1
    <3>3. CASE i \in 0..(L - 1) /\ i # L - 1
      <4>1. q[i] = p[i] /\ p[i] \in Live /\ q[i + 1] = p[i + 1]
        BY <1>2, <1>11, <3>3, Positions
      <4>2. p[i] # tail
        BY <1>0, <1>2, <3>3 DEF Shape, Chain
      <4>3. heap[p[i]].next = p[i + 1]
        BY <3>3 DEF Shape, Chain
      <4> QED
        BY <1>2, <1>7, <3>3, <4>1, <4>2, <4>3
    <3> QED
      BY <1>12, <3>1, <3>2, <3>3
  <2> QED
    BY <1>2, <2>2, <2>3, <2>4, <2>5 DEF Chain
<1>14. Places(q, L + 1) = Places(p, L) \union {n}
  <2>1. ASSUME NEW i \in 0..L PROVE q[i] \in Places(p, L) \union {n}
    BY <1>11, <1>12 DEF Places
  <2>2. ASSUME NEW i \in 0..(L - 1) PROVE \E j \in 0..L : q[j] = p[i]
    BY <1>2, <1>11, Positions
  <2>3. \E j \in 0..L : q[j] = n
    BY <1>2, <1>11, Positions
  <2> QED
    BY <1>12, <2>1, <2>2, <2>3 DEF Places
<1>15. Shape(q, L + 1)'
  <2>1. n \notin Places(p, L)
    BY <1>2 DEF Places
  <2> QED
    BY <1>5, <1>6, <1>13, <1>14, <2>1 DEF Shape
<1>16. ASSUME Backwards(heap, p, L) PROVE Backwards(heap', q, L + 1)
  <2>1. ASSUME NEW i \in 0..((L + 1) - 1)
        PROVE  heap'[q[i]].prev = IF i = 0 THEN NULL ELSE q[i - 1]
    <3>1. CASE i = L
      BY <1>0, <1>2, <1>3, <1>7, <1>11, <3>1, Positions
    <3>2. CASE i \in 0..(L - 1)
      <4>1. q[i] = p[i] /\ p[i] \in Live /\ p[i] # n /\ (i # 0 => q[i - 1] = p[i - 1])
        BY <1>2, <1>3, <1>11, <3>2, Positions
      <4> QED
        BY <1>7, <1>16, <3>2, <4>1 DEF Backwards
    <3> QED
      BY <1>2, <1>12, <3>1, <3>2
  <2> QED
    BY <2>1 DEF Backwards
<1> QED
  BY <1>6, <1>7, <1>8, <1>9, <1>10, <1>15, <1>16 DEF q

\* linked_list_push_front puts the node before the chain.
LEMMA PushShape ==
    ASSUME ListInv, NEW p, NEW L, Shape(p, L), NEW n \in hand, PushFront(n)
    PROVE  /\ TypeOK' /\ HandBlank' /\ PayloadsOwned' /\ Shape(AtFront(p, L, n), L + 1)'
           /\ head = NULL => Backwards(heap', AtFront(p, L, n), L + 1)
           /\ Live' = Live /\ \A m \in Live : heap'[m].data = heap[m].data
<1> DEFINE q == AtFront(p, L, n)
<1>1. TypeOK /\ HandBlank /\ PayloadsOwned
  BY DEF ListInv
<1>2. /\ L \in Nat
      /\ \A i \in 0..(L - 1) : p[i] \in Live /\ p[i] # NULL /\ p[i] \notin hand
      /\ \A m \in Live : m # NULL /\ heap[m] \in Cell
  BY <1>1, ShapePlaces
<1>3. n \in Live /\ n \in Node /\ hand \subseteq Live /\ head \in Link
  BY <1>1 DEF TypeOK, Shape
<1>4. /\ heap' = [heap EXCEPT ![n].next = head]
      /\ head' = n /\ hand' = hand \ {n} /\ payloads' = payloads /\ fault' = fault
  BY DEF PushFront
<1>5. Live' = Live
  BY <1>4 DEF Live
<1>6. \A m \in Live : /\ heap'[m] \in Cell /\ heap'[m].data = heap[m].data
                      /\ heap'[m].prev = heap[m].prev
                      /\ m # n => heap'[m].next = heap[m].next
                      /\ m = n => heap'[m].next = head
  BY <1>2, <1>3, <1>4 DEF Cell, Link, Live
<1>7. TypeOK'
  BY <1>1, <1>3, <1>4, <1>5, <1>6 DEF TypeOK, Link
<1>8. HandBlank'
  BY <1>1, <1>3, <1>4, <1>6 DEF HandBlank
<1>9. PayloadsOwned'
  BY <1>1, <1>4, <1>5, <1>6, PayloadsKept
<1>10. /\ q = [i \in 0..L |-> q[i]]
       /\ q[0] = n /\ \A i \in 0..(L - 1) : q[i + 1] = p[i]
       /\ \A i \in 0..L : i # 0 => q[i] = p[i - 1] /\ i - 1 \in 0..(L - 1)
  BY <1>2, Positions DEF AtFront
<1>11. (L + 1) - 1 = L
  BY <1>2
<1> HIDE DEF q
<1>12. Chain(heap', head', q, L + 1)
  <2>1. ASSUME NEW i \in 0..L PROVE q[i] \in Live
    BY <1>2, <1>3, <1>10
  <2>2. q \in [0..((L + 1) - 1) -> DOMAIN heap']
    BY <1>5, <1>10, <1>11, <2>1 DEF Live
  <2>3. ASSUME NEW i \in 0..L, NEW j \in 0..L, q[i] = q[j] PROVE i = j
    <3>1. CASE i = 0 \/ j = 0
      BY <1>2, <1>10, <2>3, <3>1
    <3>2. CASE i # 0 /\ j # 0
      <4>1. i - 1 = j - 1
        BY <1>10, <2>3, <3>2 DEF Shape, Chain
      <4> QED
        BY <1>2, <4>1
    <3> QED
      BY <3>1, <3>2
  <2>4. head' = q[0]
    BY <1>4, <1>10
  <2>5. ASSUME NEW i \in 0..L
        PROVE  heap'[q[i]].next = IF i = L THEN NULL ELSE q[i + 1]
    <3>1. CASE i = 0
      <4>1. heap'[q[i]].next = head
        BY <1>3, <1>6, <1>10, <3>1
      <4>2. CASE L = 0
        BY <3>1, <4>1, <4>2 DEF Shape, Chain
      <4>3. CASE L # 0
        <5>1. 0 \in 0..(L - 1) /\ head = p[0]
          BY <1>2, <4>3 DEF Shape, Chain
        <5> QED
          BY <1>10, <3>1, <4>1, <4>3, <5>1
      <4> QED
        BY <4>2, <4>3
    <3>2. CASE i # 0
      <4>1. q[i] = p[i - 1] /\ i - 1 \in 0..(L - 1) /\ (i - 1) + 1 = i
        BY <1>2, <1>10, <3>2
      <4>2. heap'[q[i]].next = heap[p[i - 1]].next
        BY <1>2, <1>6, <4>1
      <4>3. heap[p[i - 1]].next = IF i - 1 = L - 1 THEN NULL ELSE p[(i - 1) + 1]
        BY <4>1 DEF Shape, Chain
      <4>4. i # L => i \in 0..(L - 1)
        BY <1>2
      <4>5. i - 1 = L - 1 <=> i = L
        BY <1>2
      <4> QED
        BY <1>10, <4>1, <4>2, <4>3, <4>4, <4>5
    <3> QED
      BY <3>1, <3>2
  <2>6. L + 1 \in Nat /\ L + 1 # 0
    BY <1>2
  <2> QED
    BY <1>11, <2>2, <2>3, <2>4, <2>5, <2>6 DEF Chain
<1>13. Places(q, L + 1) = Places(p, L) \union {n}
  <2>1. ASSUME NEW i \in 0..L PROVE q[i] \in Places(p, L) \union {n}
    BY <1>10 DEF Places
  <2>2. ASSUME NEW i \in 0..(L - 1) PROVE \E j \in 0..L : q[j] = p[i]
    BY <1>2, <1>10, Positions
  <2>3. \E j \in 0..L : q[j] = n
    BY <1>2, <1>10, Positions
  <2> QED
    BY <1>11, <2>1, <2>2, <2>3 DEF Places
<1>14. Shape(q, L + 1)'
  <2>1. n \notin Places(p, L)
    BY <1>2 DEF Places
  <2> QED
    BY <1>4, <1>5, <1>12, <1>13, <2>1 DEF Shape
<1>15. ASSUME head = NULL PROVE Backwards(heap', q, L + 1)
  <2>1. L = 0
    BY <1>2, <1>15, Positions DEF Shape, Chain
  <2>2. \A i \in 0..L : i = 0
    BY <2>1
  <2>3. heap'[q[0]].prev = NULL
    BY <1>1, <1>3, <1>6, <1>10 DEF HandBlank
  <2> QED
    BY <1>11, <2>2, <2>3 DEF Backwards
<1> QED
  BY <1>5, <1>6, <1>7, <1>8, <1>9, <1>14, <1>15 DEF q

\* The chain of M nodes that has n at the position at, and p's nodes elsewhere.
With(p, M, at, n) == [i \in 0..(M - 1) |-> IF i = at THEN n ELSE p[i]]

\* Putting n in the place of a node of the chain, or right behind it.
LEMMA ChainWith ==
    ASSUME NEW h, NEW first, NEW p, NEW L, Chain(h, first, p, L), NEW at \in 0..L,
           NULL \notin DOMAIN h, NEW n \in DOMAIN h, n \notin Places(p, L),
           NEW g, NEW top, NEW M, NEW old,
           M = IF at < L THEN L ELSE at + 1,
           old = IF at < L THEN p[at] ELSE NULL,
           DOMAIN g = DOMAIN h \ {old},
           top = IF at = 0 THEN n ELSE first,
           g[n].next = IF at < L THEN h[p[at]].next ELSE NULL,
           at # 0 => g[p[at - 1]].next = n,
           \A i \in 0..(L - 1) : i # at /\ i + 1 # at => g[p[i]].next = h[p[i]].next
    PROVE  /\ Chain(g, top, With(p, M, at, n), M)
           /\ Places(With(p, M, at, n), M) = (Places(p, L) \ {old}) \union {n}
<1> DEFINE q == With(p, M, at, n)
<1>1. L \in Nat /\ M \in Nat /\ at \in 0..(M - 1) /\ M # 0
  BY DEF Chain
<1>2. \A i \in 0..(M - 1) : i = at \/ (i # at /\ i \in 0..(L - 1))
  BY <1>1
<1>3. \A i \in 0..(L - 1) : /\ p[i] \in DOMAIN h /\ p[i] # n /\ p[i] # NULL
                            /\ i \in 0..(M - 1)
                            /\ i # at => p[i] # old
  <2>1. \A i \in 0..(L - 1) : p[i] \in DOMAIN h /\ p[i] # n
    BY DEF Chain, Places
  <2>2. \A i \in 0..(L - 1) : i \in 0..(M - 1)
    BY <1>1
  <2>3. ASSUME NEW i \in 0..(L - 1), i # at PROVE p[i] # old
    <3>1. CASE at < L
      <4>1. at \in 0..(L - 1) /\ old = p[at]
        BY <1>1, <3>1
      <4> QED
        BY <2>3, <4>1 DEF Chain
    <3>2. CASE ~(at < L)
      BY <2>1, <3>2
    <3> QED
      BY <3>1, <3>2
  <2> QED
    BY <2>1, <2>2, <2>3
<1>4. n # old
  <2>1. CASE at < L
    BY <1>1, <1>3, <2>1
  <2>2. CASE ~(at < L)
    BY <2>2
  <2> QED
    BY <2>1, <2>2
<1>5. /\ q = [i \in 0..(M - 1) |-> q[i]]
      /\ q[at] = n /\ \A i \in 0..(M - 1) : i # at => q[i] = p[i]
  BY <1>1 DEF With
<1> HIDE DEF q
<1>6. q \in [0..(M - 1) -> DOMAIN g]
  <2>1. ASSUME NEW i \in 0..(M - 1) PROVE q[i] \in DOMAIN g
    BY <1>2, <1>3, <1>4, <1>5
  <2> QED
    BY <1>5, <2>1
<1>7. ASSUME NEW i \in 0..(M - 1), NEW j \in 0..(M - 1), q[i] = q[j] PROVE i = j
  <2>0. \A m \in 0..(M - 1) : m # at => q[m] # n
    <3>1. \A m \in 0..(M - 1) : m # at => q[m] = p[m] /\ p[m] # n
      BY <1>2, <1>3, <1>5
    <3> QED
      BY <3>1
  <2>1. CASE i = at \/ j = at
    <3>1. q[at] = n
      BY <1>5
    <3> QED
      BY <1>7, <2>0, <2>1, <3>1
  <2>2. CASE i # at /\ j # at
    <3>1. i \in 0..(L - 1) /\ j \in 0..(L - 1) /\ p[i] = p[j]
      BY <1>2, <1>5, <1>7, <2>2
    <3> QED
      BY <3>1 DEF Chain
  <2> QED
    BY <2>1, <2>2
<1>8. top = q[0]
  <2>1. CASE at = 0
    BY <1>5, <2>1
  <2>2. CASE at # 0
    <3>1. 0 \in 0..(M - 1) /\ L # 0
      BY <1>1, <2>2
    <3> QED
      BY <1>5, <2>2, <3>1 DEF Chain
  <2> QED
    BY <2>1, <2>2
<1>9. ASSUME NEW i \in 0..(M - 1) PROVE g[q[i]].next = IF i = M - 1 THEN NULL ELSE q[i + 1]
  <2>1. CASE i = at
    <3>1. CASE at < L
      <4>1. at \in 0..(L - 1) /\ M = L
        BY <1>1, <3>1
      <4>2. h[p[at]].next = IF at = L - 1 THEN NULL ELSE p[at + 1]
        BY <4>1 DEF Chain
      <4>3. at # L - 1 => at + 1 \in 0..(M - 1) /\ at + 1 # at
        BY <1>1, <4>1
      <4> QED
        BY <1>5, <2>1, <3>1, <4>1, <4>2, <4>3
    <3>2. CASE ~(at < L)
      BY <1>1, <1>5, <2>1, <3>2
    <3> QED
      BY <3>1, <3>2
  <2>2. CASE i # at /\ i + 1 = at
    <3>1. i = at - 1 /\ at # 0 /\ i # M - 1
      BY <1>1, <2>2
    <3> QED
      BY <1>5, <2>2, <3>1
  <2>3. CASE i # at /\ i + 1 # at
    <3>1. i \in 0..(L - 1) /\ q[i] = p[i]
      BY <1>2, <1>5, <2>3
    <3>2. g[q[i]].next = IF i = L - 1 THEN NULL ELSE p[i + 1]
      BY <2>3, <3>1 DEF Chain
    <3>3. i = M - 1 <=> i = L - 1
      BY <1>1, <2>3, <3>1
    <3>4. i # M - 1 => q[i + 1] = p[i + 1]
      <4>1. i # M - 1 => i + 1 \in 0..(M - 1)
        BY <1>1
      <4> QED
        BY <1>5, <2>3, <4>1
    <3> QED
      BY <3>2, <3>3, <3>4
  <2> QED
    BY <2>1, <2>2, <2>3
<1>10. Chain(g, top, q, M)
  BY <1>1, <1>6, <1>7, <1>8, <1>9 DEF Chain
<1>11. Places(q, M) = (Places(p, L) \ {old}) \union {n}
  <2>1. ASSUME NEW i \in 0..(M - 1) PROVE q[i] \in (Places(p, L) \ {old}) \union {n}
    BY <1>2, <1>3, <1>5 DEF Places
  <2>2. ASSUME NEW i \in 0..(L - 1), p[i] # old PROVE \E j \in 0..(M - 1) : q[j] = p[i]
    <3>1. i # at
      BY <1>1, <2>2
    <3> QED
      BY <1>3, <1>5, <3>1
  <2>3. \E j \in 0..(M - 1) : q[j] = n
    BY <1>1, <1>5
  <2> QED
    BY <2>1, <2>2, <2>3 DEF Places
<1> QED
  BY <1>10, <1>11 DEF q

\* The length of a chain that n has been put into.
Reach(L, at) == IF at < L THEN L ELSE at + 1

\* linked_list_replace_at at position 0 puts the node there; what is freed is the old
\* head's node, not its payload.
LEMMA ReplaceHeadShape ==
    ASSUME ListInv, NEW p, NEW L, Shape(p, L), NEW n \in hand, ReplaceHead(n)
    PROVE  /\ TypeOK' /\ HandBlank' /\ PayloadsOwned' /\ payloads' = payloads
           /\ Shape(With(p, Reach(L, 0), 0, n), Reach(L, 0))'
           /\ L <= 1 => Backwards(heap', With(p, Reach(L, 0), 0, n), Reach(L, 0))
           /\ Live' = Live \ {head} /\ \A m \in Live' : heap'[m].data = heap[m].data
<1> DEFINE M == Reach(L, 0)
           q == With(p, M, 0, n)
<1>1. TypeOK /\ HandBlank /\ PayloadsOwned
  BY DEF ListInv
<1>2. /\ L \in Nat
      /\ \A i \in 0..(L - 1) : p[i] \in Live /\ p[i] # NULL /\ p[i] \notin hand
      /\ \A m \in Live : m # NULL /\ heap[m] \in Cell
  BY <1>1, ShapePlaces
<1>3. n \in Live /\ n \in Node /\ hand \subseteq Live /\ head \in Link /\ NULL \notin Live
  BY <1>1, <1>2 DEF TypeOK, Shape
<1>4. head = IF 0 < L THEN p[0] ELSE NULL
  BY <1>2 DEF Shape, Chain
<1>5. head \notin hand
  <2>1. 0 < L => 0 \in 0..(L - 1)
    BY <1>2
  <2> QED
    BY <1>2, <1>3, <1>4, <2>1
<1> DEFINE after == IF 0 < L THEN heap[head].next ELSE NULL
<1>6. after = IF head = NULL THEN NULL ELSE heap[head].next
  BY <1>2, <1>4
<1>7. after \in Link
  BY <1>2, <1>4 DEF Cell, Link
<1> HIDE DEF after
<1>8. /\ Live' = Live \ {head}
      /\ \A m \in Live' : heap'[m] = [heap EXCEPT ![n].next = after][m]
      /\ heap' = [m \in Live' |-> heap'[m]]
      /\ head' = n /\ hand' = hand \ {n} /\ payloads' = payloads /\ fault' = fault
  BY <1>6 DEF ReplaceHead, Freed, Restrict, Live
<1>9. n \in Live' /\ Live' \subseteq Live
  BY <1>3, <1>5, <1>8
<1>10. \A m \in Live' : /\ heap'[m] \in Cell /\ heap'[m].data = heap[m].data
                        /\ heap'[m].prev = heap[m].prev
                        /\ m # n => heap'[m].next = heap[m].next
                        /\ m = n => heap'[m].next = after
  BY <1>2, <1>3, <1>7, <1>8, <1>9 DEF Cell, Link, Live
<1>11. TypeOK'
  BY <1>1, <1>3, <1>8, <1>9, <1>10 DEF TypeOK, Link
<1>12. HandBlank'
  BY <1>1, <1>3, <1>5, <1>8, <1>10 DEF HandBlank
<1>13. PayloadsOwned'
  BY <1>1, <1>8, <1>9, <1>10, PayloadsKept
<1>14. /\ Chain(heap', head', q, M)
       /\ Places(q, M) = (Places(p, L) \ {head}) \union {n}
  <2>1. 0 \in 0..L /\ M = IF 0 < L THEN L ELSE 0 + 1
    BY <1>2 DEF Reach
  <2>2. n \notin Places(p, L) /\ Chain(heap, head, p, L) /\ head' = n
    BY <1>8 DEF Shape
  <2>3. heap'[n].next = IF 0 < L THEN heap[p[0]].next ELSE NULL
    BY <1>4, <1>9, <1>10 DEF after
  <2>4. ASSUME NEW i \in 0..(L - 1), i # 0 PROVE heap'[p[i]].next = heap[p[i]].next
    <3>1. p[i] # head /\ p[i] # n
      BY <1>2, <1>4, <2>4 DEF Shape, Chain
    <3> QED
      BY <1>2, <1>8, <1>10, <3>1
  <2> HIDE DEF M
  <2>5. DOMAIN heap' = DOMAIN heap \ {head} /\ NULL \notin DOMAIN heap /\ n \in DOMAIN heap
    BY <1>3, <1>8 DEF Live
  <2> QED
    BY <1>4, <2>1, <2>2, <2>3, <2>4, <2>5, ChainWith
<1> HIDE DEF q, M
<1>15. Shape(q, M)'
  BY <1>3, <1>5, <1>8, <1>14 DEF Shape
<1>16. ASSUME L <= 1 PROVE Backwards(heap', q, M)
  <2>1. M = 1 /\ q[0] = n
    BY <1>2, <1>16 DEF M, q, Reach, With
  <2>2. \A i \in 0..(M - 1) : i = 0
    BY <2>1
  <2>3. heap'[n].prev = NULL
    BY <1>1, <1>9, <1>10 DEF HandBlank
  <2> QED
    BY <2>1, <2>2, <2>3 DEF Backwards
<1> QED
  BY <1>8, <1>10, <1>11, <1>12, <1>13, <1>15, <1>16 DEF q, M

------------------------------------------------------------------------------
\* Padding.

\* The chain with the pads behind it.
PaddedBy(p, L, pads, k) ==
    [i \in 0..((L + k) - 1) |-> IF i < L THEN p[i] ELSE pads[(i - L) + 1]]

\* A pad leads from the one before it to the one behind it, and has no payload.
PadAt(pads, k, i) ==
    LET pad == Padded(pads)[pads[i]]
    IN  /\ pad.prev = IF i = 1 THEN GetTail ELSE pads[i - 1]
        /\ pad.next = IF i + 1 \in 1..k THEN pads[i + 1] ELSE NULL
        /\ pad.data = NULL
        /\ GetTail \in Link => pad \in Cell

\* What the padded heap holds, node by node.
LEMMA PadCells ==
    ASSUME NEW k \in Nat, NEW pads \in Pads(k)
    PROVE  /\ DOMAIN pads = 1..k /\ DOMAIN Padded(pads) = Live \union Range(pads)
           /\ \A i \in 1..k : /\ pads[i] \in Node /\ pads[i] \notin Live
                              /\ pads[i] \in DOMAIN Padded(pads)
           /\ \A i, j \in 1..k : pads[i] = pads[j] => i = j
           /\ \A i \in 1..k : PadAt(pads, k, i)
           /\ \A m \in Live :
                 Padded(pads)[m] = IF m = GetTail /\ k # 0
                                   THEN [heap[m] EXCEPT !.next = pads[1]] ELSE heap[m]
<1>1. pads \in [1..k -> Fresh] /\ \A i, j \in 1..k : pads[i] = pads[j] => i = j
  BY DEF Pads, Injection, IsInjective
<1>2. DOMAIN pads = 1..k /\ \A i \in 1..k : pads[i] \in Node /\ pads[i] \notin Live
  BY <1>1 DEF Fresh
<1> DEFINE Pad(i) == [Blank EXCEPT !.prev = IF i = 1 THEN GetTail ELSE pads[i - 1],
                                   !.next = IF i + 1 \in 1..k THEN pads[i + 1] ELSE NULL]
           Old(m) == IF m = GetTail /\ 1 \in DOMAIN pads
                     THEN [heap[m] EXCEPT !.next = pads[1]] ELSE heap[m]
           index(m) == CHOOSE i \in DOMAIN pads : pads[i] = m
<1>3. Padded(pads) = [m \in Live \union Range(pads) |->
                        IF \E i \in DOMAIN pads : pads[i] = m THEN Pad(index(m)) ELSE Old(m)]
  BY <1>2 DEF Padded
<1>4. ASSUME NEW i \in 1..k
      PROVE  pads[i] \in DOMAIN Padded(pads) /\ Padded(pads)[pads[i]] = Pad(i)
  <2>1. pads[i] \in Range(pads)
    BY <1>2 DEF Range
  <2>2. index(pads[i]) = i
    <3>1. index(pads[i]) \in 1..k /\ pads[index(pads[i])] = pads[i]
      BY <1>2
    <3> HIDE DEF index
    <3> QED
      BY <1>1, <3>1
  <2> HIDE DEF Pad, Old, index
  <2> QED
    BY <1>2, <1>3, <2>1, <2>2
<1>5. ASSUME NEW m \in Live PROVE Padded(pads)[m] = Old(m)
  <2>1. ~\E i \in DOMAIN pads : pads[i] = m
    BY <1>2
  <2> HIDE DEF Pad, Old, index
  <2> QED
    BY <1>3, <2>1
<1>6. 1 \in DOMAIN pads <=> k # 0
  BY <1>2
<1>7. DOMAIN Padded(pads) = Live \union Range(pads)
  BY <1>3
<1>8. ASSUME NEW i \in 1..k
      PROVE  /\ Pad(i).prev = IF i = 1 THEN GetTail ELSE pads[i - 1]
             /\ Pad(i).next = IF i + 1 \in 1..k THEN pads[i + 1] ELSE NULL
             /\ Pad(i).data = NULL
             /\ GetTail \in Link => Pad(i) \in Cell
  <2> DEFINE a == IF i = 1 THEN GetTail ELSE pads[i - 1]
             b == IF i + 1 \in 1..k THEN pads[i + 1] ELSE NULL
             c == [Blank EXCEPT !.prev = a, !.next = b]
  <2>1. b \in Link /\ (GetTail \in Link => a \in Link)
    BY <1>2 DEF Link
  <2> HIDE DEF a, b
  <2>2. c.prev = a /\ c.next = b /\ c.data = NULL
    BY DEF Blank
  <2>3. a \in Link => c \in Cell
    BY <2>1 DEF Blank, Cell, Link
  <2> HIDE DEF c
  <2>4. Pad(i) = c
    BY DEF a, b, c
  <2> HIDE DEF Pad
  <2>5. Pad(i).prev = a /\ Pad(i).next = b /\ Pad(i).data = NULL
        /\ (GetTail \in Link => Pad(i) \in Cell)
    BY <2>1, <2>2, <2>3, <2>4
  <2> QED
    BY <2>5 DEF a, b
<1> HIDE DEF Pad
<1>9. \A i \in 1..k : PadAt(pads, k, i)
  BY <1>4, <1>8 DEF PadAt
<1> QED
  BY <1>1, <1>2, <1>4, <1>5, <1>6, <1>7, <1>9

\* The pads lengthen the chain, and everything else stays as it was.
LEMMA PadChain ==
    ASSUME ListInv, NEW p, NEW L, Shape(p, L), NEW k \in Nat, NEW pads \in Pads(k)
    PROVE  /\ Chain(Padded(pads), HeadOf(pads), PaddedBy(p, L, pads, k), L + k)
           /\ Places(PaddedBy(p, L, pads, k), L + k) = Places(p, L) \union Range(pads)
           /\ Backwards(heap, p, L)
                => Backwards(Padded(pads), PaddedBy(p, L, pads, k), L + k)
<1> DEFINE h == Padded(pads)
           q == PaddedBy(p, L, pads, k)
           M == L + k
           tail == GetTail
<1>1. TypeOK
  BY DEF ListInv
<1>2. /\ L \in Nat /\ M \in Nat
      /\ \A i \in 0..(L - 1) : p[i] \in Live /\ p[i] # NULL
      /\ \A m \in Live : m # NULL /\ heap[m] \in Cell
      /\ tail = IF L = 0 THEN NULL ELSE p[L - 1]
  BY <1>1, ShapePlaces DEF Seen
<1>3. \A i \in 0..(M - 1) : \/ i \in 0..(L - 1)
                            \/ i \notin 0..(L - 1) /\ i >= L /\ (i - L) + 1 \in 1..k
  BY <1>2
<1>4. \A j \in 1..k : (L + j) - 1 \in 0..(M - 1) /\ ((L + j) - 1 - L) + 1 = j
                      /\ (L + j) - 1 >= L
  BY <1>2
<1>5. \A i \in 0..(L - 1) : i \in 0..(M - 1) /\ i < L
  BY <1>2
<1>6. /\ q = [i \in 0..(M - 1) |-> q[i]]
      /\ \A i \in 0..(L - 1) : q[i] = p[i]
      /\ \A i \in 0..(M - 1) : i >= L => q[i] = pads[(i - L) + 1]
  BY <1>2, <1>5 DEF PaddedBy
<1>7. \A j \in 1..k : q[(L + j) - 1] = pads[j]
  BY <1>4, <1>6
<1> HIDE DEF h, q, tail
<1>8. /\ DOMAIN pads = 1..k /\ DOMAIN h = Live \union Range(pads)
      /\ \A i \in 1..k : pads[i] \in Node /\ pads[i] \notin Live /\ pads[i] \in DOMAIN h
      /\ \A i, j \in 1..k : pads[i] = pads[j] => i = j
      /\ \A i \in 1..k : /\ h[pads[i]].prev = IF i = 1 THEN tail ELSE pads[i - 1]
                         /\ h[pads[i]].next = IF i + 1 \in 1..k THEN pads[i + 1] ELSE NULL
      /\ \A m \in Live : h[m] = IF m = tail /\ k # 0 THEN [heap[m] EXCEPT !.next = pads[1]]
                                ELSE heap[m]
  <2>1. /\ DOMAIN pads = 1..k /\ DOMAIN h = Live \union Range(pads)
        /\ \A i \in 1..k : pads[i] \in Node /\ pads[i] \notin Live /\ pads[i] \in DOMAIN h
        /\ \A i, j \in 1..k : pads[i] = pads[j] => i = j
        /\ \A m \in Live : h[m] = IF m = tail /\ k # 0 THEN [heap[m] EXCEPT !.next = pads[1]]
                                  ELSE heap[m]
    BY PadCells DEF h, tail
  <2>2. \A i \in 1..k : /\ h[pads[i]].prev = IF i = 1 THEN tail ELSE pads[i - 1]
                       /\ h[pads[i]].next = IF i + 1 \in 1..k THEN pads[i + 1] ELSE NULL
    <3>1. \A i \in 1..k : PadAt(pads, k, i)
      BY PadCells
    <3> QED
      BY <3>1 DEF PadAt, h, tail
  <2> QED
    BY <2>1, <2>2
<1>9. \A m \in Live : /\ h[m].prev = heap[m].prev
                      /\ h[m].next = IF m = tail /\ k # 0 THEN pads[1] ELSE heap[m].next
  <2> SUFFICES ASSUME NEW m \in Live
               PROVE  /\ h[m].prev = heap[m].prev
                      /\ h[m].next = IF m = tail /\ k # 0 THEN pads[1] ELSE heap[m].next
    OBVIOUS
  <2>1. heap[m] \in Cell
    BY <1>2
  <2>2. h[m] = IF m = tail /\ k # 0 THEN [heap[m] EXCEPT !.next = pads[1]] ELSE heap[m]
    BY <1>8
  <2> QED
    BY <2>1, <2>2 DEF Cell
<1>10. ASSUME NEW i \in 0..(M - 1)
       PROVE  q[i] \in DOMAIN h /\ (q[i] \in Live <=> i \in 0..(L - 1))
  <2>1. CASE i \in 0..(L - 1)
    <3>1. q[i] = p[i] /\ p[i] \in Live
      BY <1>2, <1>6, <2>1
    <3> QED
      BY <1>8, <2>1, <3>1
  <2>2. CASE i \notin 0..(L - 1)
    <3>1. i >= L /\ (i - L) + 1 \in 1..k
      BY <1>3, <2>2
    <3>2. q[i] = pads[(i - L) + 1]
      BY <1>6, <3>1
    <3>3. pads[(i - L) + 1] \notin Live /\ pads[(i - L) + 1] \in DOMAIN h
      BY <1>8, <3>1
    <3> QED
      BY <2>2, <3>2, <3>3
  <2> QED
    BY <2>1, <2>2
<1>11. ASSUME NEW i \in 0..(M - 1), NEW j \in 0..(M - 1), q[i] = q[j] PROVE i = j
  <2>1. CASE i \in 0..(L - 1) /\ j \in 0..(L - 1)
    BY <1>6, <1>11, <2>1 DEF Shape, Chain
  <2>2. CASE i \notin 0..(L - 1) /\ j \notin 0..(L - 1)
    <3>1. (i - L) + 1 \in 1..k /\ (j - L) + 1 \in 1..k /\ i >= L /\ j >= L
      BY <1>3, <2>2
    <3>2. (i - L) + 1 = (j - L) + 1
      BY <1>6, <1>8, <1>11, <3>1
    <3> QED
      BY <1>2, <3>2
  <2>3. i \in 0..(L - 1) <=> j \in 0..(L - 1)
    BY <1>10, <1>11
  <2> QED
    BY <2>1, <2>2, <2>3
<1>12. HeadOf(pads) = IF M = 0 THEN NULL ELSE q[0]
  <2>1. CASE L = 0
    <3>1. head = NULL
      BY <2>1 DEF Shape, Chain
    <3>2. k # 0 => 1 \in 1..k /\ q[0] = pads[1]
      BY <1>2, <1>7, <2>1
    <3> QED
      BY <1>2, <1>8, <2>1, <3>1, <3>2 DEF HeadOf
  <2>2. CASE L # 0
    <3>1. 0 \in 0..(L - 1) /\ head = p[0] /\ head # NULL /\ M # 0
      BY <1>2, <2>2 DEF Shape, Chain
    <3> QED
      BY <1>6, <3>1 DEF HeadOf
  <2> QED
    BY <2>1, <2>2
<1>13. ASSUME NEW i \in 0..(M - 1) PROVE h[q[i]].next = IF i = M - 1 THEN NULL ELSE q[i + 1]
  <2>1. CASE i \in 0..(L - 1) /\ i # L - 1
    <3>0. i + 1 \in 0..(L - 1) /\ i # M - 1
      BY <1>2, <2>1
    <3>1. q[i] = p[i] /\ q[i + 1] = p[i + 1] /\ i # M - 1
      BY <1>6, <2>1, <3>0
    <3>2. heap[p[i]].next = p[i + 1]
      BY <2>1 DEF Shape, Chain
    <3>3. p[i] # tail
      <4>1. L # 0 /\ L - 1 \in 0..(L - 1)
        BY <1>2, <2>1
      <4> QED
        BY <1>2, <2>1, <4>1 DEF Shape, Chain
    <3> QED
      BY <1>2, <1>9, <2>1, <3>1, <3>2, <3>3
  <2>2. CASE i = L - 1
    <3>1. i \in 0..(L - 1) /\ q[i] = tail /\ L # 0 /\ tail \in Live
      BY <1>2, <1>6, <2>2
    <3>2. heap[tail].next = NULL
      BY <1>2, <2>2, <3>1 DEF Shape, Chain
    <3>3. k # 0 => q[i + 1] = pads[1] /\ i # M - 1
      <4>1. k # 0 => 1 \in 1..k /\ (L + 1) - 1 = i + 1 /\ i # M - 1
        BY <1>2, <2>2
      <4> QED
        BY <1>7, <4>1
    <3>4. k = 0 => i = M - 1
      BY <1>2, <2>2
    <3> QED
      BY <1>9, <3>1, <3>2, <3>3, <3>4
  <2>3. CASE i \notin 0..(L - 1)
    <3>1. i >= L /\ (i - L) + 1 \in 1..k /\ q[i] = pads[(i - L) + 1]
      BY <1>3, <1>6, <2>3
    <3>2. h[q[i]].next = IF ((i - L) + 1) + 1 \in 1..k THEN pads[((i - L) + 1) + 1] ELSE NULL
      BY <1>8, <3>1
    <3>3. ((i - L) + 1) + 1 \in 1..k <=> i # M - 1
      BY <1>2, <3>1
    <3>4. i # M - 1 => q[i + 1] = pads[((i - L) + 1) + 1]
      <4>1. i # M - 1 => i + 1 \in 0..(M - 1) /\ i + 1 >= L
                         /\ ((i + 1) - L) + 1 = ((i - L) + 1) + 1
        BY <1>2, <3>1
      <4> QED
        BY <1>6, <4>1
    <3> QED
      BY <3>2, <3>3, <3>4
  <2> QED
    BY <2>1, <2>2, <2>3
<1>14. Chain(h, HeadOf(pads), q, M)
  <2>1. q \in [0..(M - 1) -> DOMAIN h]
    BY <1>6, <1>10
  <2> HIDE DEF M
  <2> QED
    BY <1>2, <1>11, <1>12, <1>13, <2>1 DEF Chain
<1>15. Places(q, M) = Places(p, L) \union Range(pads)
  <2>1. ASSUME NEW i \in 0..(M - 1) PROVE q[i] \in Places(p, L) \union Range(pads)
    <3>1. CASE i \in 0..(L - 1)
      BY <1>6, <3>1 DEF Places
    <3>2. CASE i \notin 0..(L - 1)
      BY <1>3, <1>6, <1>8, <3>2 DEF Range
    <3> QED
      BY <3>1, <3>2
  <2>2. ASSUME NEW i \in 0..(L - 1) PROVE \E j \in 0..(M - 1) : q[j] = p[i]
    BY <1>5, <1>6
  <2>3. ASSUME NEW i \in 1..k PROVE \E j \in 0..(M - 1) : q[j] = pads[i]
    BY <1>4, <1>7
  <2> HIDE DEF M
  <2> QED
    BY <1>8, <2>1, <2>2, <2>3 DEF Places, Range
<1>16. ASSUME Backwards(heap, p, L) PROVE Backwards(h, q, M)
  <2>1. ASSUME NEW i \in 0..(M - 1)
        PROVE  h[q[i]].prev = IF i = 0 THEN NULL ELSE q[i - 1]
    <3>1. CASE i \in 0..(L - 1)
      <4>1. q[i] = p[i] /\ (i # 0 => q[i - 1] = p[i - 1])
        BY <1>2, <1>6, <3>1, Positions
      <4> QED
        BY <1>2, <1>9, <1>16, <3>1, <4>1 DEF Backwards
    <3>2. CASE i \notin 0..(L - 1)
      <4>1. i >= L /\ (i - L) + 1 \in 1..k /\ q[i] = pads[(i - L) + 1]
        BY <1>3, <1>6, <3>2
      <4>2. h[q[i]].prev = IF (i - L) + 1 = 1 THEN tail ELSE pads[((i - L) + 1) - 1]
        BY <1>8, <4>1
      <4>3. CASE i = L
        <5>1. (i - L) + 1 = 1 /\ (L # 0 => L - 1 \in 0..(L - 1))
          BY <1>2, <4>3
        <5> QED
          BY <1>2, <1>6, <4>2, <4>3, <5>1
      <4>4. CASE i # L
        <5>1. /\ (i - L) + 1 # 1 /\ i # 0 /\ i - 1 \in 0..(M - 1) /\ i - 1 >= L
              /\ ((i - 1) - L) + 1 = ((i - L) + 1) - 1
          BY <1>2, <4>1, <4>4
        <5> QED
          BY <1>6, <4>2, <5>1
      <4> QED
        BY <4>3, <4>4
    <3> QED
      BY <3>1, <3>2
  <2> HIDE DEF M
  <2> QED
    BY <2>1 DEF Backwards
<1> QED
  BY <1>14, <1>15, <1>16 DEF h, q

\* The padded heap is typed; the client's nodes and all payloads are as they were.
LEMMA PadHeap ==
    ASSUME ListInv, NEW p, NEW L, Shape(p, L), NEW k \in Nat, NEW pads \in Pads(k)
    PROVE  /\ \A m \in DOMAIN Padded(pads) :
                 /\ m \in Node /\ m # NULL /\ Padded(pads)[m] \in Cell
                 /\ Padded(pads)[m].data = IF m \in Live THEN heap[m].data ELSE NULL
           /\ \A m \in hand : m \in DOMAIN Padded(pads) /\ Padded(pads)[m] = heap[m]
           /\ HeadOf(pads) \in Link
<1> DEFINE h == Padded(pads)
           tail == GetTail
<1>1. TypeOK
  BY DEF ListInv
<1>2. /\ L \in Nat
      /\ \A i \in 0..(L - 1) : p[i] \in Live /\ p[i] \in Node /\ p[i] \notin hand
      /\ \A m \in Live : m \in Node /\ m # NULL /\ heap[m] \in Cell
      /\ tail = IF L = 0 THEN NULL ELSE p[L - 1]
  BY <1>1, ShapePlaces DEF Seen
<1>3. tail \in Link /\ tail \notin hand
  <2>1. CASE L = 0
    BY <1>1, <1>2, <2>1, ListAssumption DEF TypeOK, Link
  <2>2. CASE L # 0
    <3>1. L - 1 \in 0..(L - 1)
      BY <1>2, <2>2
    <3> QED
      BY <1>2, <2>2, <3>1 DEF Link
  <2> QED
    BY <2>1, <2>2
<1>4. /\ DOMAIN pads = 1..k /\ DOMAIN h = Live \union Range(pads)
      /\ \A i \in 1..k : pads[i] \in Node /\ pads[i] \notin Live
      /\ \A m \in Live : h[m] = IF m = tail /\ k # 0 THEN [heap[m] EXCEPT !.next = pads[1]]
                                ELSE heap[m]
  BY PadCells
<1>5. \A i \in 1..k : PadAt(pads, k, i)
  BY PadCells
<1>6. \A i \in 1..k : h[pads[i]] \in Cell /\ h[pads[i]].data = NULL
  BY <1>3, <1>5 DEF PadAt
<1> HIDE DEF h, tail
<1>7. k # 0 => pads[1] \in Node
  <2>1. k # 0 => 1 \in 1..k
    OBVIOUS
  <2> QED
    BY <1>4, <2>1
<1>8. \A m \in Live : h[m] \in Cell /\ h[m].data = heap[m].data
  BY <1>2, <1>4, <1>7 DEF Cell, Link
<1>9. ASSUME NEW m \in DOMAIN h
      PROVE  /\ m \in Node /\ m # NULL /\ h[m] \in Cell
             /\ h[m].data = IF m \in Live THEN heap[m].data ELSE NULL
  <2>1. CASE m \in Live
    BY <1>2, <1>8, <2>1
  <2>2. CASE m \notin Live
    <3>1. PICK i \in 1..k : m = pads[i]
      BY <1>4, <2>2 DEF Range
    <3> QED
      BY <1>4, <1>6, <2>2, <3>1, ListAssumption
  <2> QED
    BY <2>1, <2>2
<1>10. \A m \in hand : m \in DOMAIN h /\ h[m] = heap[m]
  BY <1>3, <1>4 DEF Shape
<1>11. HeadOf(pads) \in Link
  <2>1. 1 \in DOMAIN pads => k # 0
    BY <1>4
  <2> QED
    BY <1>1, <1>7, <2>1 DEF HeadOf, TypeOK, Link
<1> QED
  BY <1>9, <1>10, <1>11 DEF h

\* Putting n behind a node changes that node's next, n's links, and nothing else.
PutBehind(g, h, n, before, old) ==
    /\ g = [m \in DOMAIN h \ {old} |-> g[m]]
    /\ \A m \in DOMAIN h \ {old} :
          /\ g[m] \in Cell /\ g[m].data = h[m].data
          /\ m # n => g[m].prev = h[m].prev
          /\ m # n /\ m # before => g[m].next = h[m].next
    /\ g[n].next = IF old = NULL THEN h[n].next ELSE h[old].next
    /\ g[n].prev = before
    /\ g[before].next = n

LEMMA SplicedCells ==
    ASSUME NEW h, \A m \in DOMAIN h : m \in Node /\ h[m] \in Cell,
           NEW n \in DOMAIN h, NEW before \in DOMAIN h, NEW old, before # n,
           n # old, before # old, old # NULL => old \in DOMAIN h,
           NEW g, g = Spliced(h, n, before, old)
    PROVE  PutBehind(g, h, n, before, old)
<1> DEFINE after == IF old = NULL THEN h[n].next ELSE h[old].next
           e == [h EXCEPT ![n].next = after, ![n].prev = before, ![before].next = n]
<1>1. after \in Link /\ before \in Link /\ n \in Link
  BY DEF Cell, Link
<1>2. g = [m \in DOMAIN h \ {old} |-> e[m]]
  BY DEF Spliced, Freed, Restrict
<1> HIDE DEF after
<1>3. /\ e[n] = [h[n] EXCEPT !.next = after, !.prev = before]
      /\ e[before] = [h[before] EXCEPT !.next = n]
      /\ \A m \in DOMAIN h : m # n /\ m # before => e[m] = h[m]
  OBVIOUS
<1> HIDE DEF e
<1>4. /\ e[n] \in Cell /\ e[n].data = h[n].data /\ e[n].next = after /\ e[n].prev = before
  BY <1>1, <1>3 DEF Cell
<1>5. /\ e[before] \in Cell /\ e[before].data = h[before].data /\ e[before].next = n
      /\ e[before].prev = h[before].prev
  BY <1>1, <1>3 DEF Cell
<1>6. g = [m \in DOMAIN h \ {old} |-> g[m]] /\ \A m \in DOMAIN h \ {old} : g[m] = e[m]
  BY <1>2
<1>7. \A m \in DOMAIN h \ {old} : /\ g[m] \in Cell /\ g[m].data = h[m].data
                                  /\ m # n => g[m].prev = h[m].prev
                                  /\ m # n /\ m # before => g[m].next = h[m].next
  <2>1. ASSUME NEW m \in DOMAIN h, m \notin {n, before} PROVE e[m] = h[m] /\ h[m] \in Cell
    BY <1>3, <2>1
  <2>2. ASSUME NEW m \in DOMAIN h
        PROVE  /\ e[m] \in Cell /\ e[m].data = h[m].data
               /\ m # n => e[m].prev = h[m].prev
               /\ m # n /\ m # before => e[m].next = h[m].next
    <3>1. CASE m = n
      BY <1>4, <3>1
    <3>2. CASE m = before
      BY <1>5, <3>2
    <3>3. CASE m \notin {n, before}
      BY <2>1, <3>3
    <3> QED
      BY <3>1, <3>2, <3>3
  <2> QED
    BY <1>6, <2>2
<1>8. g[n].next = after /\ g[n].prev = before /\ g[before].next = n
  BY <1>4, <1>5, <1>6
<1> QED
  BY <1>6, <1>7, <1>8 DEF after, PutBehind

\* linked_list_replace_at further in, with the pads that calloc returned.
Splices(n, at, pads) ==
    /\ at >= 1
    /\ heap' = Spliced(Padded(pads), n,
                       IF Missing(at) = 0 THEN GetAt(at - 1) ELSE pads[Missing(at)],
                       GetAt(at))
    /\ head' = HeadOf(pads)
    /\ hand' = hand \ {n}
    /\ UNCHANGED <<payloads, fault>>

\* The nodes that are missing for a position, and the chain with n at that position.
Short(L, at) == IF at > L THEN at - L ELSE 0
Replaced(p, L, pads, at, n) ==
    With(PaddedBy(p, L, pads, Short(L, at)), Reach(L, at), at, n)

\* It puts the node at the position, behind a list that is long enough; the node that
\* was there is freed, its payload is not, and only the prev of the node behind it is
\* left wrong.
LEMMA ReplaceBehindShape ==
    ASSUME ListInv, NEW p, NEW L, Shape(p, L), NEW n \in hand, NEW at \in Nat,
           NEW pads \in Pads(Short(L, at)), Splices(n, at, pads)
    PROVE  /\ TypeOK' /\ HandBlank' /\ PayloadsOwned' /\ payloads' = payloads
           /\ Shape(Replaced(p, L, pads, at, n), Reach(L, at))'
           /\ Backwards(heap, p, L) /\ L - 1 <= at
                => Backwards(heap', Replaced(p, L, pads, at, n), Reach(L, at))
           /\ Live' = (Live \union Range(pads)) \ {GetAt(at)}
           /\ \A m \in Live' : heap'[m].data = IF m \in Live THEN heap[m].data ELSE NULL
<1> DEFINE k == Short(L, at)
           h == Padded(pads)
           pp == PaddedBy(p, L, pads, k)
           K == L + k
           M == Reach(L, at)
           q == With(pp, M, at, n)
           old == GetAt(at)
           before == IF Missing(at) = 0 THEN GetAt(at - 1) ELSE pads[Missing(at)]
<1>1. TypeOK /\ HandBlank /\ PayloadsOwned
  BY DEF ListInv
<1>2. /\ L \in Nat
      /\ \A i \in 0..(L - 1) : p[i] \in Live /\ p[i] # NULL /\ p[i] \notin hand
      /\ Length = L
      /\ \A j \in Int : GetAt(j) = IF j \in 0..(L - 1) THEN p[j] ELSE NULL
  BY <1>1, ShapePlaces DEF Seen
<1>3. /\ k \in Nat /\ K \in Nat /\ at \in 0..K /\ at # 0 /\ Missing(at) = k
      /\ at < K <=> at < L
      /\ at < L => k = 0 /\ K = L
      /\ M = IF at < K THEN K ELSE at + 1
      /\ M \in Nat /\ at \in 0..(M - 1)
  <2>1. at >= 1
    BY DEF Splices
  <2>2. Missing(at) = k
    BY <1>2 DEF Missing, Short
  <2> QED
    BY <1>2, <2>1, <2>2 DEF Short, Reach
<1>4. /\ Chain(h, HeadOf(pads), pp, K)
      /\ Places(pp, K) = Places(p, L) \union Range(pads)
      /\ Backwards(heap, p, L) => Backwards(h, pp, K)
  BY <1>3, PadChain
<1>5. /\ \A m \in DOMAIN h : /\ m \in Node /\ m # NULL /\ h[m] \in Cell
                             /\ h[m].data = IF m \in Live THEN heap[m].data ELSE NULL
      /\ \A m \in hand : m \in DOMAIN h /\ h[m] = heap[m]
      /\ HeadOf(pads) \in Link
  BY <1>3, PadHeap
<1>6. /\ DOMAIN pads = 1..k /\ DOMAIN h = Live \union Range(pads)
      /\ \A i \in 1..k : pads[i] \in Node /\ pads[i] \notin Live
  BY <1>3, PadCells
<1>7. /\ heap' = Spliced(h, n, before, old)
      /\ head' = HeadOf(pads) /\ hand' = hand \ {n} /\ payloads' = payloads /\ fault' = fault
  BY DEF Splices
<1>8. \A i \in 0..(L - 1) : pp[i] = p[i]
  BY <1>2, <1>3 DEF PaddedBy
<1>9. old = IF at < K THEN pp[at] ELSE NULL
  <2>1. at < L => at \in 0..(L - 1)
    BY <1>2
  <2> QED
    BY <1>2, <1>3, <1>8, <2>1
<1>10. before = pp[at - 1] /\ at - 1 \in 0..(K - 1)
  <2>1. at - 1 \in 0..(K - 1) /\ at - 1 \in Int
    BY <1>3
  <2>2. CASE k = 0
    <3>1. at - 1 \in 0..(L - 1)
      BY <1>2, <1>3, <2>2
    <3> QED
      BY <1>2, <1>3, <1>8, <2>1, <2>2, <3>1
  <2>3. CASE k # 0
    <3>1. ~(at - 1 < L) /\ ((at - 1) - L) + 1 = k /\ k = at - L
      BY <1>2, <1>3, <2>3 DEF Short
    <3>2. pp[at - 1] = pads[k]
      <4> HIDE DEF k
      <4> QED
        BY <2>1, <3>1 DEF PaddedBy
    <3> QED
      BY <1>3, <2>1, <2>3, <3>2
  <2> QED
    BY <2>2, <2>3
<1>11. n \notin Places(pp, K)
  <2>1. n \in Live /\ n \notin Places(p, L)
    BY DEF Shape
  <2>2. n \notin Range(pads)
    BY <1>6, <2>1 DEF Range
  <2> QED
    BY <1>4, <2>1, <2>2
<1> HIDE DEF k, h, pp, K, M, q, old, before
<1>12. \A i \in 0..(K - 1) : pp[i] \in DOMAIN h /\ pp[i] # n /\ pp[i] \in Places(pp, K)
  BY <1>4, <1>11 DEF Chain, Places
<1>13. n \in DOMAIN h /\ n \in Node /\ NULL \notin DOMAIN h
  BY <1>5
<1>14. /\ before \in DOMAIN h /\ before # n /\ before # old /\ n # old
       /\ old # NULL => old \in DOMAIN h /\ old \in Places(pp, K)
  <2>1. before \in DOMAIN h /\ before # n
    BY <1>10, <1>12
  <2>2. CASE at < K
    <3>1. at \in 0..(K - 1) /\ at - 1 # at
      BY <1>3, <2>2
    <3>2. old = pp[at]
      BY <1>9, <2>2
    <3>3. pp[at - 1] # pp[at]
      BY <1>4, <1>10, <3>1 DEF Chain
    <3> QED
      BY <1>10, <1>12, <2>1, <3>1, <3>2, <3>3
  <2>3. CASE ~(at < K)
    BY <1>9, <1>13, <2>1, <2>3
  <2> QED
    BY <2>2, <2>3
<1>15. /\ heap' = [m \in DOMAIN h \ {old} |-> heap'[m]]
       /\ \A m \in DOMAIN h \ {old} :
             /\ heap'[m] \in Cell /\ heap'[m].data = h[m].data
             /\ m # n => heap'[m].prev = h[m].prev
             /\ m # n /\ m # before => heap'[m].next = h[m].next
       /\ heap'[n].next = IF old = NULL THEN h[n].next ELSE h[old].next
       /\ heap'[n].prev = before
       /\ heap'[before].next = n
  <2>1. \A m \in DOMAIN h : m \in Node /\ h[m] \in Cell
    BY <1>5
  <2>2. PutBehind(heap', h, n, before, old)
    BY ONLY <1>7, <1>13, <1>14, <2>1, SplicedCells
  <2> QED
    BY <2>2 DEF PutBehind
<1>16. Live' = DOMAIN h \ {old} /\ n \in Live'
  BY <1>13, <1>14, <1>15 DEF Live
<1>17. TypeOK'
  <2>1. Live' \subseteq Node /\ heap' \in [Live' -> Cell]
    BY <1>5, <1>15, <1>16
  <2> QED
    BY <1>1, <1>5, <1>7, <2>1 DEF TypeOK
<1>18. hand' \subseteq Live' /\ hand' \intersect Places(pp, K) = {} /\ hand' \subseteq DOMAIN h
  <2>1. ASSUME NEW m \in hand' PROVE m \in DOMAIN h /\ m \in Live /\ m \notin Places(pp, K)
    <3>1. m \in Live /\ m \notin Places(p, L)
      BY <1>7 DEF Shape
    <3>2. m \notin Range(pads)
      BY <1>6, <3>1 DEF Range
    <3> QED
      BY <1>4, <1>5, <1>7, <3>1, <3>2
  <2>2. old \notin hand'
    BY <1>13, <1>14, <2>1
  <2> QED
    BY <1>16, <2>1, <2>2
<1>19. HandBlank'
  <2>1. ASSUME NEW m \in hand' PROVE heap'[m].next = NULL /\ heap'[m].prev = NULL
    <3>1. m # n /\ m \in hand /\ m \in DOMAIN h \ {old}
      BY <1>7, <1>16, <1>18
    <3>2. m # before
      BY <1>10, <1>12, <1>18
    <3> QED
      BY <1>1, <1>5, <1>15, <3>1, <3>2 DEF HandBlank
  <2> QED
    BY <2>1 DEF HandBlank
<1>20. \A m \in Live' : heap'[m].data = IF m \in Live THEN heap[m].data ELSE NULL
  BY <1>5, <1>15, <1>16
<1>21. PayloadsOwned'
  BY <1>1, <1>7, <1>20, PayloadsKept
<1>22. /\ Chain(heap', head', q, M)
       /\ Places(q, M) = (Places(pp, K) \ {old}) \union {n}
  <2>1. heap'[n].next = IF at < K THEN h[pp[at]].next ELSE NULL
    <3>1. h[n].next = NULL
      BY <1>1, <1>5 DEF HandBlank
    <3>2. at < K => old # NULL
      <4>1. at < K => at \in 0..(K - 1)
        BY <1>3
      <4> QED
        BY <1>9, <1>12, <1>13, <4>1
    <3> QED
      BY <1>9, <1>15, <3>1, <3>2
  <2>2. ASSUME NEW i \in 0..(K - 1), i # at, i + 1 # at PROVE heap'[pp[i]].next = h[pp[i]].next
    <3>1. pp[i] # old
      <4>1. CASE at < K
        <5>1. at \in 0..(K - 1)
          BY <1>3, <4>1
        <5> QED
          BY <1>4, <1>9, <2>2, <4>1, <5>1 DEF Chain
      <4>2. CASE ~(at < K)
        BY <1>9, <1>12, <1>13, <4>2
      <4> QED
        BY <4>1, <4>2
    <3>2. pp[i] # before
      <4>1. i # at - 1
        BY <1>3, <2>2
      <4> QED
        BY <1>4, <1>10, <4>1 DEF Chain
    <3> QED
      BY <1>12, <1>15, <3>1, <3>2
  <2>3. DOMAIN heap' = DOMAIN h \ {old}
    BY <1>15
  <2>4. head' = IF at = 0 THEN n ELSE HeadOf(pads)
    BY <1>3, <1>7
  <2>5. heap'[pp[at - 1]].next = n
    BY <1>10, <1>15
  <2>6. at \in 0..K /\ M = IF at < K THEN K ELSE at + 1
    BY <1>3
  <2>7. Chain(h, HeadOf(pads), pp, K)
    BY <1>4
  <2>8. \A i \in 0..(K - 1) : i # at /\ i + 1 # at => heap'[pp[i]].next = h[pp[i]].next
    BY <2>2
  <2>9. /\ Chain(heap', head', With(pp, M, at, n), M)
        /\ Places(With(pp, M, at, n), M) = (Places(pp, K) \ {old}) \union {n}
    BY ONLY <1>9, <1>11, <1>13, <2>1, <2>3, <2>4, <2>5, <2>6, <2>7, <2>8, ChainWith
  <2> QED
    BY <2>9 DEF q
<1>23. Shape(q, M)'
  <2>1. Live' = hand' \union Places(q, M)
    <3>1. DOMAIN h = hand \union Places(pp, K)
      BY <1>4, <1>6 DEF Shape
    <3> QED
      BY <1>7, <1>14, <1>16, <1>18, <1>22, <3>1
  <2>2. hand' \intersect Places(q, M) = {}
    BY <1>7, <1>18, <1>22
  <2> QED
    BY <1>22, <2>1, <2>2 DEF Shape
<1>24. ASSUME Backwards(heap, p, L), L - 1 <= at PROVE Backwards(heap', q, M)
  <2>1. q[at] = n /\ \A i \in 0..(M - 1) : i # at => q[i] = pp[i]
    BY <1>3 DEF q, With
  <2>2. M = at + 1
    BY <1>2, <1>3, <1>24
  <2>3. ASSUME NEW i \in 0..(M - 1) PROVE heap'[q[i]].prev = IF i = 0 THEN NULL ELSE q[i - 1]
    <3>1. CASE i = at
      <4>1. at - 1 \in 0..(M - 1) /\ at - 1 # at
        BY <1>3, <2>2
      <4> QED
        BY <1>3, <1>10, <1>15, <2>1, <3>1, <4>1
    <3>2. CASE i # at
      <4>1. i \in 0..(K - 1) /\ q[i] = pp[i] /\ (i # 0 => i - 1 \in 0..(M - 1) /\ i - 1 # at)
        BY <1>3, <2>1, <2>2, <3>2
      <4>2. pp[i] # old
        <5>1. CASE at < K
          <6>1. at \in 0..(K - 1)
            BY <1>3, <5>1
          <6> QED
            BY <1>4, <1>9, <3>2, <4>1, <5>1, <6>1 DEF Chain
        <5>2. CASE ~(at < K)
          BY <1>9, <1>12, <1>13, <4>1, <5>2
        <5> QED
          BY <5>1, <5>2
      <4>3. heap'[pp[i]].prev = h[pp[i]].prev
        BY <1>12, <1>15, <4>1, <4>2
      <4> QED
        BY <1>4, <1>24, <2>1, <4>1, <4>3 DEF Backwards
    <3> QED
      BY <3>1, <3>2
  <2> QED
    BY <2>3 DEF Backwards
<1>25. Live' = (Live \union Range(pads)) \ {old}
  BY <1>6, <1>16
<1>26. Replaced(p, L, pads, at, n) = q
  BY DEF Replaced, q, pp, k, M
<1> QED
  BY <1>7, <1>17, <1>19, <1>20, <1>21, <1>23, <1>24, <1>25, <1>26 DEF old, M

\* Padding alone: the memory ran out before the position was reached.
LEMMA LengthensShape ==
    ASSUME ListInv, NEW p, NEW L, Shape(p, L), NEW k \in Nat, NEW pads \in Pads(k),
           heap' = Padded(pads), head' = HeadOf(pads),
           hand' = hand, payloads' = payloads, fault' \in {fault, "null"}
    PROVE  /\ TypeOK' /\ HandBlank' /\ PayloadsOwned'
           /\ Shape(PaddedBy(p, L, pads, k), L + k)'
           /\ Backwards(heap, p, L) => Backwards(heap', PaddedBy(p, L, pads, k), L + k)
           /\ Live' = Live \union Range(pads)
           /\ \A m \in Live' : heap'[m].data = IF m \in Live THEN heap[m].data ELSE NULL
<1> DEFINE h == Padded(pads)
           q == PaddedBy(p, L, pads, k)
           M == L + k
<1>1. TypeOK /\ HandBlank /\ PayloadsOwned
  BY DEF ListInv
<1>2. /\ Chain(h, HeadOf(pads), q, M)
      /\ Places(q, M) = Places(p, L) \union Range(pads)
      /\ Backwards(heap, p, L) => Backwards(h, q, M)
  BY PadChain
<1>3. /\ \A m \in DOMAIN h : /\ m \in Node /\ m # NULL /\ h[m] \in Cell
                             /\ h[m].data = IF m \in Live THEN heap[m].data ELSE NULL
      /\ \A m \in hand : m \in DOMAIN h /\ h[m] = heap[m]
      /\ HeadOf(pads) \in Link
  BY PadHeap
<1>4. /\ DOMAIN pads = 1..k /\ DOMAIN h = Live \union Range(pads)
      /\ \A i \in 1..k : pads[i] \notin Live
  BY PadCells
<1>5. h = [m \in DOMAIN h |-> h[m]]
  BY DEF Padded
<1>6. heap' = h /\ head' = HeadOf(pads)
  OBVIOUS
<1> HIDE DEF h, q, M
<1>7. Live' = DOMAIN h
  BY <1>6 DEF Live
<1>8. TypeOK'
  <2>1. Live' \subseteq Node /\ heap' \in [Live' -> Cell]
    BY <1>3, <1>5, <1>6, <1>7
  <2> QED
    BY <1>1, <1>3, <1>6, <2>1 DEF TypeOK
<1>9. HandBlank'
  BY <1>1, <1>3, <1>6 DEF HandBlank
<1>10. \A m \in Live' : heap'[m].data = IF m \in Live THEN heap[m].data ELSE NULL
  BY <1>3, <1>6, <1>7
<1>11. PayloadsOwned'
  BY <1>1, <1>10, PayloadsKept
<1>12. Shape(q, M)'
  <2>1. hand \subseteq Live /\ hand \intersect Places(p, L) = {}
    BY DEF Shape
  <2>2. hand \intersect Range(pads) = {}
    BY <1>4, <2>1 DEF Range
  <2> QED
    BY <1>2, <1>4, <1>6, <1>7, <2>1, <2>2 DEF Shape
<1> QED
  BY <1>2, <1>4, <1>6, <1>7, <1>8, <1>9, <1>10, <1>11, <1>12 DEF q, M

------------------------------------------------------------------------------
\* Freeing.

\* The chain of an empty list.
NoPlaces == [i \in 0..(0 - 1) |-> NULL]

\* What is freed takes its payloads with it, and the payloads of the rest stay.
LEMMA PayloadsFreed ==
    ASSUME PayloadsOwned, NEW S \in SUBSET Live, payloads' = payloads \ Destroyed(S),
           Live' = Live \ S, \A m \in Live' : heap'[m].data = heap[m].data
    PROVE  /\ PayloadsOwned'
           /\ NothingLost => NothingLost'
<1>1. Destroyed(S) = {heap[m].data : m \in S}
  BY DEF Destroyed, DataOf
<1>2. PayloadsOwned'
  BY <1>1 DEF PayloadsOwned
<1>3. ASSUME NothingLost PROVE NothingLost'
  <2>1. payloads = {heap[m].data : m \in Live} \ {NULL}
    BY <1>3 DEF NothingLost, DataOf
  <2>2. ASSUME NEW m \in Live', heap[m].data # NULL PROVE heap[m].data \notin Destroyed(S)
    BY <1>1, <2>2 DEF PayloadsOwned
  <2>3. payloads' = {heap[m].data : m \in Live'} \ {NULL}
    BY <1>1, <2>1, <2>2
  <2>4. payloads' = {heap'[m].data : m \in Live'} \ {NULL}
    BY <2>3
  <2> QED
    BY <2>4 DEF NothingLost, DataOf
<1> QED
  BY <1>2, <1>3

\* linked_list_free frees the whole chain and nothing else.
LEMMA FreeShape ==
    ASSUME ListInv, NEW p, NEW L, Shape(p, L), Free
    PROVE  /\ TypeOK' /\ HandBlank' /\ PayloadsOwned' /\ Shape(NoPlaces, 0)'
           /\ Backwards(heap', NoPlaces, 0)
           /\ NothingLost => NothingLost'
<1>1. TypeOK /\ HandBlank /\ PayloadsOwned
  BY DEF ListInv
<1>2. Listed = Places(p, L) /\ \A m \in Live : m \in Node /\ heap[m] \in Cell
  BY <1>1, ShapePlaces
<1>3. /\ heap' = [m \in Live \ Listed |-> heap[m]]
      /\ head' = NULL /\ payloads' = payloads \ Destroyed(Listed)
      /\ hand' = hand /\ fault' = fault
  BY DEF Free, Freed, Restrict, Live
<1>4. Live' = Live \ Listed
  BY <1>3 DEF Live
<1>5. Live' = hand
  BY <1>2, <1>4 DEF Shape
<1>6. \A m \in Live' : heap'[m] = heap[m]
  BY <1>3, <1>4
<1>7. PayloadsOwned' /\ (NothingLost => NothingLost')
  <2>1. Listed \in SUBSET Live
    BY <1>2 DEF Shape
  <2> QED
    BY <1>1, <1>3, <1>4, <1>6, <2>1, PayloadsFreed
<1>8. TypeOK'
  <2>1. Live' \subseteq Node /\ heap' \in [Live' -> Cell]
    BY <1>2, <1>3, <1>4
  <2> QED
    BY <1>1, <1>3, <2>1 DEF TypeOK, Link
<1>9. HandBlank'
  BY <1>1, <1>3, <1>5, <1>6 DEF HandBlank
<1>10. \A i \in 0..(0 - 1) : FALSE
  OBVIOUS
<1>11. Places(NoPlaces, 0) = {}
  BY <1>10 DEF Places
<1>12. Chain(heap', head', NoPlaces, 0)
  BY <1>3, <1>10 DEF Chain, NoPlaces
<1>13. Shape(NoPlaces, 0)'
  BY <1>3, <1>5, <1>11, <1>12 DEF Shape
<1> QED
  BY <1>7, <1>8, <1>9, <1>10, <1>13 DEF Backwards

\* The chain without its last node.
AllButLast(p, L) == [i \in 0..((L - 1) - 1) |-> p[i]]

\* linked_list_remove_node on the last node takes that one out.
LEMMA RemoveLastShape ==
    ASSUME ListInv, NEW p, NEW L, Shape(p, L), NEW n \in Listed, RemoveLast(n)
    PROVE  /\ TypeOK' /\ HandBlank' /\ PayloadsOwned' /\ L # 0
           /\ Shape(AllButLast(p, L), L - 1)'
           /\ Backwards(heap, p, L) => Backwards(heap', AllButLast(p, L), L - 1)
           /\ NothingLost => NothingLost'
           /\ \A m \in Live' : m \in Live /\ heap'[m].data = heap[m].data
<1> DEFINE q == AllButLast(p, L)
           prev == IF L = 1 THEN NULL ELSE p[L - 2]
<1>1. TypeOK /\ HandBlank /\ PayloadsOwned
  BY DEF ListInv
<1>2. /\ L \in Nat
      /\ \A i \in 0..(L - 1) : p[i] \in Live /\ p[i] # NULL /\ p[i] \notin hand
      /\ \A m \in Live : m \in Node /\ m # NULL /\ heap[m] \in Cell
      /\ L <= N /\ Length = L /\ Listed = Places(p, L)
      /\ GetTail = IF L = 0 THEN NULL ELSE p[L - 1]
      /\ \A j \in Int : GetAt(j) = IF j \in 0..(L - 1) THEN p[j] ELSE NULL
  BY <1>1, ShapePlaces DEF Seen
<1>3. L # 0 /\ L - 1 \in 0..(L - 1) /\ n = p[L - 1]
  <2>1. L # 0
    BY <1>2 DEF Places
  <2> QED
    BY <1>2, <2>1 DEF RemoveLast
<1>4. n \in Live /\ n \notin hand /\ heap[n].next = NULL /\ NULL \notin Live
  BY <1>2, <1>3 DEF Shape, Chain
<1>5. heap[n].prev = prev /\ heap[n].free_data = FALSE
  <2>1. heap[n].prev = GetAt(L - 2) /\ ~heap[n].free_data /\ L - 2 \in Int
    BY <1>2 DEF RemoveLast
  <2>2. L - 2 \in 0..(L - 1) <=> L # 1
    BY <1>2, <1>3
  <2>3. heap[n].free_data \in BOOLEAN
    BY <1>2, <1>4 DEF Cell
  <2> QED
    BY <1>2, <2>1, <2>2, <2>3
<1>6. L # 1 => L - 2 \in 0..(L - 1) /\ L - 2 \in 0..((L - 1) - 1) /\ L - 2 # L - 1
  BY <1>2, <1>3
<1>7. /\ prev \in Live \union {NULL} /\ prev # n
      /\ L # 1 => prev = p[L - 2] /\ prev \in Live
  BY <1>2, <1>3, <1>4, <1>6 DEF Shape, Chain
<1>8. Behind(n) = {n}
  <2>1. N \in Nat /\ Walk = [i \in 0..N |-> IF i < L THEN p[i] ELSE NULL]
    BY <1>1, HeapSize, WalkFollows DEF TypeOK, Shape
  <2>2. DOMAIN Walk = 0..N /\ L - 1 \in 0..N /\ Walk[L - 1] = n
    BY <1>2, <1>3, <2>1
  <2>3. ASSUME NEW j \in 0..N, NEW i \in 0..j, Walk[i] = n, Walk[j] # NULL PROVE Walk[j] = n
    <3>1. j \in 0..(L - 1) /\ i \in 0..(L - 1) /\ Walk[i] = p[i] /\ Walk[j] = p[j]
      BY <1>2, <2>1, <2>3
    <3>2. i = L - 1
      BY <1>3, <2>3, <3>1 DEF Shape, Chain
    <3>3. j = L - 1
      BY <1>2, <2>3, <3>1, <3>2
    <3> QED
      BY <1>3, <3>1, <3>3
  <2>4. L - 1 \in 0..(L - 1)
    BY <1>3
  <2> QED
    BY <1>2, <1>4, <2>2, <2>3, <2>4 DEF Behind
<1> HIDE DEF prev
<1>9. /\ Live' = Live \ {n}
      /\ heap' = [m \in Live \ {n} |-> heap'[m]]
      /\ \A m \in Live \ {n} :
            heap'[m] = [heap[m] EXCEPT !.next = IF m = prev THEN NULL ELSE heap[m].next,
                                       !.prev = IF m = NULL THEN prev ELSE heap[m].prev]
  BY <1>4, <1>5, <1>8 DEF RemoveLast, RemoveNode, Freed, Restrict, Unlinked, Live
<1>10. \A m \in Live' : /\ m \in Live /\ m # n
                        /\ heap'[m] \in Cell /\ heap'[m].data = heap[m].data
                        /\ heap'[m].prev = heap[m].prev
                        /\ heap'[m].next = IF m = prev THEN NULL ELSE heap[m].next
  <2>1. ASSUME NEW m \in Live \ {n}
        PROVE  /\ heap'[m] \in Cell /\ heap'[m].data = heap[m].data
               /\ heap'[m].prev = heap[m].prev
               /\ heap'[m].next = IF m = prev THEN NULL ELSE heap[m].next
    <3> DEFINE a == IF m = prev THEN NULL ELSE heap[m].next
               b == IF m = NULL THEN prev ELSE heap[m].prev
    <3>1. heap'[m] = [heap[m] EXCEPT !.next = a, !.prev = b]
      BY <1>9
    <3>2. b = heap[m].prev /\ a \in Link /\ b \in Link /\ heap[m] \in Cell
      BY <1>2 DEF Cell, Link
    <3> HIDE DEF a, b
    <3>3. /\ heap'[m] \in Cell /\ heap'[m].data = heap[m].data
          /\ heap'[m].prev = b /\ heap'[m].next = a
      BY <3>1, <3>2 DEF Cell
    <3> QED
      BY <3>2, <3>3 DEF a
  <2> QED
    BY <1>9, <2>1
<1>11. /\ hand' = hand /\ payloads' = payloads \ Destroyed({n}) /\ fault' = fault
  BY <1>5, <1>7, <1>8 DEF RemoveLast, RemoveNode
<1>12. head' = IF L = 1 THEN NULL ELSE head
  <2>1. 0 \in 0..(L - 1) /\ head = p[0]
    BY <1>2, <1>3 DEF Shape, Chain
  <2>2. n = head <=> L = 1
    <3>1. L - 1 = 0 <=> L = 1
      BY <1>2
    <3> QED
      BY <1>3, <2>1, <3>1 DEF Shape, Chain
  <2>3. head' = IF ~(n = head) THEN head
                ELSE IF heap[n].prev = NULL THEN heap[n].next ELSE NULL
    BY DEF RemoveLast, RemoveNode
  <2> QED
    BY <1>4, <2>2, <2>3
<1>13. PayloadsOwned' /\ (NothingLost => NothingLost')
  <2>1. {n} \in SUBSET Live
    BY <1>4
  <2> QED
    BY <1>1, <1>9, <1>10, <1>11, <2>1, PayloadsFreed
<1>14. TypeOK'
  <2>1. Live' \subseteq Node /\ heap' \in [Live' -> Cell]
    BY <1>2, <1>9, <1>10
  <2> QED
    BY <1>1, <1>11, <1>12, <2>1 DEF TypeOK, Link
<1>15. prev \notin hand
  BY <1>2, <1>6, <1>7, <1>1, ListAssumption DEF prev, TypeOK
<1>16. HandBlank'
  <2>1. \A m \in hand : m \in Live'
    BY <1>4, <1>9 DEF Shape
  <2> QED
    BY <1>1, <1>10, <1>11, <1>15, <2>1 DEF HandBlank
<1>17. /\ q = [i \in 0..((L - 1) - 1) |-> q[i]]
       /\ \A i \in 0..((L - 1) - 1) : q[i] = p[i] /\ i \in 0..(L - 1) /\ i # L - 1 /\ p[i] # n
  <2>1. \A i \in 0..((L - 1) - 1) : i \in 0..(L - 1) /\ i # L - 1
    BY <1>2
  <2>2. \A i \in 0..((L - 1) - 1) : p[i] # n
    BY <1>3, <2>1 DEF Shape, Chain
  <2> QED
    BY <2>1, <2>2 DEF AllButLast
<1> HIDE DEF q
<1>18. Chain(heap', head', q, L - 1)
  <2>1. \A i \in 0..((L - 1) - 1) : q[i] \in Live'
    BY <1>2, <1>9, <1>17
  <2>2. q \in [0..((L - 1) - 1) -> DOMAIN heap']
    BY <1>17, <2>1 DEF Live
  <2>3. \A i, j \in 0..((L - 1) - 1) : q[i] = q[j] => i = j
    BY <1>17 DEF Shape, Chain
  <2>4. head' = IF L - 1 = 0 THEN NULL ELSE q[0]
    <3>1. L # 1 => 0 \in 0..((L - 1) - 1) /\ L - 1 # 0
      BY <1>2, <1>3
    <3>2. L = 1 => L - 1 = 0
      BY <1>2
    <3> QED
      BY <1>3, <1>12, <1>17, <3>1, <3>2 DEF Shape, Chain
  <2>5. ASSUME NEW i \in 0..((L - 1) - 1)
        PROVE  heap'[q[i]].next = IF i = (L - 1) - 1 THEN NULL ELSE q[i + 1]
    <3>0. L # 1 /\ (L - 1) - 1 = L - 2
      BY <1>2
    <3>1. p[i] = prev <=> i = (L - 1) - 1
      BY <1>6, <1>7, <1>17, <3>0 DEF Shape, Chain
    <3>2. heap'[p[i]].next = IF p[i] = prev THEN NULL ELSE heap[p[i]].next
      BY <1>10, <1>17, <2>1
    <3>3. heap[p[i]].next = p[i + 1]
      BY <1>17 DEF Shape, Chain
    <3>4. i # (L - 1) - 1 => i + 1 \in 0..((L - 1) - 1)
      BY <1>2
    <3> QED
      BY <1>17, <3>1, <3>2, <3>3, <3>4
  <2>6. L - 1 \in Nat
    BY <1>2, <1>3
  <2> QED
    BY <2>2, <2>3, <2>4, <2>5, <2>6 DEF Chain
<1>19. Places(q, L - 1) = Places(p, L) \ {n}
  <2>1. ASSUME NEW i \in 0..(L - 1), p[i] # n PROVE i \in 0..((L - 1) - 1)
    BY <1>2, <1>3, <2>1
  <2> QED
    BY <1>17, <2>1 DEF Places
<1>20. Shape(q, L - 1)'
  <2>1. Live' = hand' \union Places(q, L - 1)
    <3>1. Live = hand \union Places(p, L) /\ n \notin hand
      BY <1>4 DEF Shape
    <3>2. Live' = Live \ {n} /\ hand' = hand
      BY <1>9, <1>11
    <3> HIDE DEF q
    <3> QED
      BY <1>19, <3>1, <3>2
  <2>2. hand' \intersect Places(q, L - 1) = {}
    BY <1>11, <1>19 DEF Shape
  <2> QED
    BY <1>18, <2>1, <2>2 DEF Shape
<1>21. ASSUME Backwards(heap, p, L) PROVE Backwards(heap', q, L - 1)
  <2>1. ASSUME NEW i \in 0..((L - 1) - 1)
        PROVE  heap'[q[i]].prev = IF i = 0 THEN NULL ELSE q[i - 1]
    <3>1. i # 0 => i - 1 \in 0..((L - 1) - 1)
      BY <1>2
    <3>2. heap'[q[i]].prev = heap[p[i]].prev
      BY <1>2, <1>9, <1>10, <1>17
    <3> QED
      BY <1>17, <1>21, <3>1, <3>2 DEF Backwards
  <2> QED
    BY <2>1 DEF Backwards
<1> QED
  BY <1>3, <1>10, <1>13, <1>14, <1>16, <1>20, <1>21 DEF q

------------------------------------------------------------------------------
\* Every call, and what follows from it.

\* Where the payloads stay and new nodes have none, nothing more is lost.
LEMMA NothingLostKept ==
    ASSUME payloads' = payloads, Live \subseteq Live',
           \A m \in Live' : heap'[m].data = IF m \in Live THEN heap[m].data ELSE NULL
    PROVE  NothingLost => NothingLost'
<1>1. {heap'[m].data : m \in Live'} \ {NULL} = {heap[m].data : m \in Live} \ {NULL}
  OBVIOUS
<1> QED
  BY <1>1 DEF NothingLost, DataOf

\* The chain of prev pointers is the chain of next pointers backwards.
LEMMA DoublyMeans ==
    TypeOK /\ HandBlank => \A p, L : Shape(p, L) => (DoublyLinked <=> Backwards(heap, p, L))
<1> SUFFICES ASSUME TypeOK, HandBlank, NEW p, NEW L, Shape(p, L)
             PROVE  DoublyLinked <=> Backwards(heap, p, L)
  OBVIOUS
<1>1. /\ L \in Nat /\ L <= N
      /\ \A i \in 0..(L - 1) : p[i] # NULL
      /\ \A at \in Int : GetAt(at) = IF at \in 0..(L - 1) THEN p[at] ELSE NULL
  BY ShapePlaces DEF Seen
<1>2. N \in Nat /\ Walk = [i \in 0..N |-> IF i < L THEN p[i] ELSE NULL]
  BY HeapSize, WalkFollows DEF TypeOK, Shape
<1>3. /\ DOMAIN Walk = 0..N
      /\ \A i \in 0..N : Walk[i] = IF i < L THEN p[i] ELSE NULL
  BY <1>2
<1>4. \A i \in 0..(L - 1) : i \in 0..N /\ Walk[i] = p[i]
  BY <1>1, <1>2, <1>3
<1>5. \A i \in 0..N : Walk[i] # NULL => i \in 0..(L - 1)
  BY <1>1, <1>3
<1>6. ASSUME NEW i \in 0..(L - 1) PROVE GetAt(i - 1) = IF i = 0 THEN NULL ELSE p[i - 1]
  <2>1. i - 1 \in Int /\ (i - 1 \in 0..(L - 1) <=> i # 0)
    BY <1>1
  <2> QED
    BY <1>1, <2>1
<1>7. (\A i \in DOMAIN Walk : Walk[i] # NULL => heap[Walk[i]].prev = GetAt(i - 1))
        <=> \A i \in 0..(L - 1) : heap[p[i]].prev = IF i = 0 THEN NULL ELSE p[i - 1]
  BY <1>1, <1>3, <1>4, <1>5, <1>6
<1> QED
  BY <1>7 DEF DoublyLinked, HandBlank, Backwards

\* The same after a call.
LEMMA DoublyMeansNext ==
    (TypeOK /\ HandBlank)'
      => (\A p, L : Shape(p, L) => (DoublyLinked <=> Backwards(heap, p, L)))'
BY DoublyMeans, PTL

\* The invariant holds of the empty list.
LEMMA InitListInv == Init => ListInv
<1> SUFFICES ASSUME Init PROVE ListInv
  OBVIOUS
<1>1. /\ heap = [n \in {} |-> Blank] /\ Live = {}
      /\ head = NULL /\ hand = {} /\ payloads = {} /\ fault = "none"
  BY DEF Init, Live
<1>2. TypeOK /\ HandBlank /\ PayloadsOwned
  BY <1>1 DEF TypeOK, Link, HandBlank, PayloadsOwned
<1>3. \A i \in 0..(0 - 1) : FALSE
  OBVIOUS
<1>4. Chain(heap, head, NoPlaces, 0) /\ Places(NoPlaces, 0) = {}
  BY <1>1, <1>3 DEF Chain, Places, NoPlaces
<1>5. Shape(NoPlaces, 0)
  BY <1>1, <1>4 DEF Shape
<1> QED
  BY <1>2, <1>5 DEF ListInv

\* What StalePrevOnlyByPushOrReplace and LeaksOnlyByReplace say of a step.
PrevStep ==
    DoublyLinked =>
          \/ DoublyLinked'
          \/ head # NULL /\ \E n \in hand : PushFront(n)
          \/ Length > 1 /\ \E n \in hand : ReplaceHead(n)
          \/ \E n \in hand, at \in 1..(Length - 2) : ReplaceBehind(n, at)
LeakStep ==
    NothingLost =>
          \/ NothingLost'
          \/ head # NULL /\ \E n \in hand : ReplaceHead(n)
          \/ \E n \in hand, at \in 1..(Length - 1) : ReplaceBehind(n, at)

\* A step that leaves the chain of prev pointers whole.
LEMMA PrevKept ==
    ASSUME ListInv, NEW p, NEW L, Shape(p, L), NEW q, NEW M, Shape(q, M)',
           TypeOK', HandBlank',
           Backwards(heap, p, L) => Backwards(heap', q, M)
    PROVE  PrevStep
<1>1. DoublyLinked <=> Backwards(heap, p, L)
  BY DoublyMeans DEF ListInv
<1>2. DoublyLinked' <=> Backwards(heap', q, M)
  BY DoublyMeansNext
<1> QED
  BY <1>1, <1>2 DEF PrevStep

\* A replacement picks the pads it needs, and one that runs out of memory fewer.
LEMMA ReplaceSplices ==
    ASSUME ListInv, NEW p, NEW L, Shape(p, L), NEW n \in hand, NEW at \in Nat,
           ReplaceBehind(n, at)
    PROVE  \E pads \in Pads(Short(L, at)) : Splices(n, at, pads)
<1>1. Length = L
  BY ShapePlaces DEF ListInv, Seen
<1>2. Missing(at) = Short(L, at)
  BY <1>1 DEF Missing, Short
<1> QED
  BY <1>2 DEF ReplaceBehind, Splices

\* One call, whichever it is.
LEMMA StepKeeps ==
    ASSUME ListInv, Next
    PROVE  ListInv' /\ PrevStep /\ LeakStep
<1> PICK p, L : Shape(p, L)
  BY DEF ListInv
<1>0. TypeOK /\ Length = L /\ L \in Nat /\ Live = hand \union Places(p, L)
  BY ShapePlaces DEF ListInv, Seen, Shape
<1>1. ASSUME UNCHANGED vars PROVE ListInv' /\ PrevStep /\ LeakStep
  <2>1. TypeOK' /\ HandBlank' /\ PayloadsOwned' /\ Shape(p, L)' /\ Backwards(heap', p, L) = Backwards(heap, p, L)
    BY <1>1 DEF vars, ListInv, TypeOK, HandBlank, PayloadsOwned, Shape, Live
  <2>2. PrevStep
    BY <2>1, PrevKept
  <2>3. LeakStep
    BY <1>1 DEF vars, LeakStep, NothingLost, DataOf, Live
  <2> QED
    BY <2>1, <2>2, <2>3 DEF ListInv
<1>2. ASSUME NEW n \in Node, NEW d \in Payloads, NEW f \in BOOLEAN, Make(n, d, f)
      PROVE  ListInv' /\ PrevStep /\ LeakStep
  <2>1. /\ TypeOK' /\ HandBlank' /\ PayloadsOwned' /\ Shape(p, L)'
        /\ \A m \in Live : m \in Live' /\ heap'[m] = heap[m]
    BY <1>2, MakeShape
  <2>2. Backwards(heap, p, L) => Backwards(heap', p, L)
    BY <1>0, <2>1, ShapePlaces DEF Backwards
  <2>3. PrevStep
    BY <2>1, <2>2, PrevKept
  <2>4. LeakStep
    <3>1. /\ Live' = Live \union {n} /\ n \notin Live /\ heap'[n].data = d
          /\ payloads' = payloads \union Moved(d)
      BY <1>2 DEF Make, Fresh, Blank, Live
    <3>2. {heap'[m].data : m \in Live'} \ {NULL}
            = ({heap[m].data : m \in Live} \ {NULL}) \union Moved(d)
      BY <2>1, <3>1 DEF Moved
    <3> QED
      BY <3>1, <3>2 DEF LeakStep, NothingLost, DataOf
  <2> QED
    BY <2>1, <2>3, <2>4 DEF ListInv
<1>3. ASSUME MakeFails \/ Stopped PROVE ListInv' /\ PrevStep /\ LeakStep
  BY <1>1, <1>3 DEF MakeFails, Stopped
<1>4. ASSUME NEW n \in hand, AppendNode(n) PROVE ListInv' /\ PrevStep /\ LeakStep
  <2>1. /\ TypeOK' /\ HandBlank' /\ PayloadsOwned' /\ Shape(AtEnd(p, L, n), L + 1)'
        /\ Backwards(heap, p, L) => Backwards(heap', AtEnd(p, L, n), L + 1)
        /\ Live' = Live /\ \A m \in Live : heap'[m].data = heap[m].data
    BY <1>4, AppendShape
  <2>2. PrevStep
    BY <2>1, PrevKept
  <2>3. payloads' = payloads
    BY <1>4 DEF AppendNode
  <2>4. LeakStep
    BY <2>1, <2>3, NothingLostKept DEF LeakStep
  <2> QED
    BY <2>1, <2>2, <2>4 DEF ListInv
<1>5. ASSUME Free PROVE ListInv' /\ PrevStep /\ LeakStep
  <2>1. /\ TypeOK' /\ HandBlank' /\ PayloadsOwned' /\ Shape(NoPlaces, 0)'
        /\ Backwards(heap', NoPlaces, 0)
        /\ NothingLost => NothingLost'
    BY <1>5, FreeShape
  <2>2. PrevStep
    BY <2>1, PrevKept
  <2> QED
    BY <2>1, <2>2 DEF ListInv, LeakStep
<1>6. ASSUME FreeEmpty PROVE ListInv' /\ PrevStep /\ LeakStep
  <2>1. heap' = heap /\ head' = head /\ hand' = hand /\ payloads' = payloads /\ fault' = "null"
    BY <1>6 DEF FreeEmpty
  <2>2. TypeOK' /\ HandBlank' /\ PayloadsOwned' /\ Shape(p, L)'
        /\ Backwards(heap', p, L) = Backwards(heap, p, L)
    BY <2>1 DEF ListInv, TypeOK, HandBlank, PayloadsOwned, Shape, Live
  <2>3. PrevStep
    BY <2>2, PrevKept
  <2>4. LeakStep
    BY <2>1 DEF LeakStep, NothingLost, DataOf, Live
  <2> QED
    BY <2>2, <2>3, <2>4 DEF ListInv
<1>7. ASSUME NEW n \in hand, PushFront(n) PROVE ListInv' /\ PrevStep /\ LeakStep
  <2>1. /\ TypeOK' /\ HandBlank' /\ PayloadsOwned' /\ Shape(AtFront(p, L, n), L + 1)'
        /\ head = NULL => Backwards(heap', AtFront(p, L, n), L + 1)
        /\ Live' = Live /\ \A m \in Live : heap'[m].data = heap[m].data
    BY <1>7, PushShape
  <2>2. PrevStep
    <3>1. CASE head = NULL
      BY <2>1, <3>1, PrevKept
    <3>2. CASE head # NULL
      BY <1>7, <3>2 DEF PrevStep
    <3> QED
      BY <3>1, <3>2
  <2>3. payloads' = payloads
    BY <1>7 DEF PushFront
  <2>4. LeakStep
    BY <2>1, <2>3, NothingLostKept DEF LeakStep
  <2> QED
    BY <2>1, <2>2, <2>4 DEF ListInv
<1>8. ASSUME NEW n \in hand, ReplaceHead(n) PROVE ListInv' /\ PrevStep /\ LeakStep
  <2> DEFINE q == With(p, Reach(L, 0), 0, n)
             M == Reach(L, 0)
  <2>1. /\ TypeOK' /\ HandBlank' /\ PayloadsOwned' /\ payloads' = payloads
        /\ Shape(q, M)'
        /\ L <= 1 => Backwards(heap', q, M)
        /\ Live' = Live \ {head} /\ \A m \in Live' : heap'[m].data = heap[m].data
    BY <1>8, ReplaceHeadShape
  <2> HIDE DEF q, M
  <2>2. PrevStep
    <3>1. CASE L <= 1
      BY <2>1, <3>1, PrevKept
    <3>2. CASE ~(L <= 1)
      BY <1>0, <1>8, <3>2 DEF PrevStep
    <3> QED
      BY <3>1, <3>2
  <2>3. LeakStep
    <3>1. CASE head = NULL
      <4>1. NULL \notin Live
        BY <1>0, ShapePlaces
      <4>2. Live' = Live
        BY <2>1, <3>1, <4>1
      <4> QED
        BY <2>1, <4>2, NothingLostKept DEF LeakStep
    <3>2. CASE head # NULL
      BY <1>8, <3>2 DEF LeakStep
    <3> QED
      BY <3>1, <3>2
  <2> QED
    BY <2>1, <2>2, <2>3 DEF ListInv
<1>9. ASSUME NEW n \in hand, NEW at \in 1..MaxAt, ReplaceBehind(n, at)
      PROVE  ListInv' /\ PrevStep /\ LeakStep
  <2>1. at \in Nat /\ at >= 1
    BY ListAssumption
  <2>2. PICK pads \in Pads(Short(L, at)) : Splices(n, at, pads)
    BY <1>9, <2>1, ReplaceSplices
  <2> DEFINE q == Replaced(p, L, pads, at, n)
             M == Reach(L, at)
  <2>3. /\ TypeOK' /\ HandBlank' /\ PayloadsOwned' /\ payloads' = payloads
        /\ Shape(q, M)'
        /\ Backwards(heap, p, L) /\ L - 1 <= at => Backwards(heap', q, M)
        /\ Live' = (Live \union Range(pads)) \ {GetAt(at)}
        /\ \A m \in Live' : heap'[m].data = IF m \in Live THEN heap[m].data ELSE NULL
    BY <2>1, <2>2, ReplaceBehindShape
  <2> HIDE DEF q, M
  <2>4. PrevStep
    <3>1. CASE L - 1 <= at
      BY <2>3, <3>1, PrevKept
    <3>2. CASE ~(L - 1 <= at)
      <4>1. at \in 1..(Length - 2)
        BY <1>0, <2>1, <3>2
      <4> QED
        BY <1>9, <4>1 DEF PrevStep
    <3> QED
      BY <3>1, <3>2
  <2>5. LeakStep
    <3>1. CASE at < L
      <4>1. at \in 1..(Length - 1)
        BY <1>0, <2>1, <3>1
      <4> QED
        BY <1>9, <4>1 DEF LeakStep
    <3>2. CASE ~(at < L)
      <4>1. GetAt(at) = NULL
        <5>1. at \in Int /\ at \notin 0..(L - 1)
          BY <1>0, <2>1, <3>2
        <5> QED
          BY <1>0, <5>1, ShapePlaces DEF Seen
      <4>2. NULL \notin Live
        BY <1>0, ShapePlaces
      <4>3. Live \subseteq Live'
        BY <2>3, <4>1, <4>2
      <4> QED
        BY <2>3, <4>3, NothingLostKept DEF LeakStep
    <3> QED
      BY <3>1, <3>2
  <2> QED
    BY <2>3, <2>4, <2>5 DEF ListInv
<1>10. ASSUME NEW n \in hand, NEW at \in 1..MaxAt, ReplaceFails(n, at)
       PROVE  ListInv' /\ PrevStep /\ LeakStep
  <2>1. PICK k \in 0..(Missing(at) - 1) : \E pads \in Pads(k) :
              heap' = Padded(pads) /\ head' = HeadOf(pads) /\ fault' \in {fault, "null"}
    BY <1>10 DEF ReplaceFails
  <2>2. PICK pads \in Pads(k) :
              heap' = Padded(pads) /\ head' = HeadOf(pads) /\ fault' \in {fault, "null"}
    BY <2>1
  <2>3. hand' = hand /\ payloads' = payloads
    BY <1>10 DEF ReplaceFails
  <2>4. k \in Nat
    OBVIOUS
  <2> DEFINE q == PaddedBy(p, L, pads, k)
             M == L + k
  <2>5. /\ TypeOK' /\ HandBlank' /\ PayloadsOwned' /\ Shape(q, M)'
        /\ Backwards(heap, p, L) => Backwards(heap', q, M)
        /\ Live' = Live \union Range(pads)
        /\ \A m \in Live' : heap'[m].data = IF m \in Live THEN heap[m].data ELSE NULL
    BY <2>2, <2>3, <2>4, LengthensShape
  <2> HIDE DEF q, M
  <2>6. PrevStep
    BY <2>5, PrevKept
  <2>7. LeakStep
    BY <2>3, <2>5, NothingLostKept DEF LeakStep
  <2> QED
    BY <2>5, <2>6, <2>7 DEF ListInv
<1>11. ASSUME NEW n \in Listed, RemoveLast(n) PROVE ListInv' /\ PrevStep /\ LeakStep
  <2>1. /\ TypeOK' /\ HandBlank' /\ PayloadsOwned'
        /\ Shape(AllButLast(p, L), L - 1)'
        /\ Backwards(heap, p, L) => Backwards(heap', AllButLast(p, L), L - 1)
        /\ NothingLost => NothingLost'
    BY <1>11, RemoveLastShape
  <2>2. PrevStep
    BY <2>1, PrevKept
  <2> QED
    BY <2>1, <2>2 DEF ListInv, LeakStep
<1> QED
  BY <1>2, <1>3, <1>4, <1>5, <1>6, <1>7, <1>8, <1>9, <1>10, <1>11 DEF Next

------------------------------------------------------------------------------
\* The theorems.

(***************************************************************************)
(* The heap under the list is always a chain of distinct nodes and the     *)
(* client's, whatever is called and whatever addresses calloc reuses.      *)
(***************************************************************************)
THEOREM ListInvariant == Spec => []ListInv
<1>1. Init => ListInv
  BY InitListInv
<1>2. ListInv /\ [Next]_vars => ListInv'
  <2>1. ASSUME ListInv, UNCHANGED vars PROVE ListInv'
    BY <2>1 DEF vars, ListInv, TypeOK, HandBlank, PayloadsOwned, Shape, Live
  <2> QED
    BY <2>1, StepKeeps
<1> QED
  BY <1>1, <1>2, PTL DEF Spec

(***************************************************************************)
(* The heap, the pointers and the payloads have their types.               *)
(***************************************************************************)
THEOREM ListTyped == Spec => []TypeOK
<1>1. ListInv => TypeOK
  BY DEF ListInv
<1> QED
  BY <1>1, ListInvariant, PTL

(***************************************************************************)
(* linked_list_get_at and its callers reach every node of the list, none   *)
(* that is freed or the client's, and come to the end; no two nodes share  *)
(* a payload or hold a freed one.                                          *)
(***************************************************************************)
THEOREM ListForwardSound == Spec => []ForwardSound
<1>1. ListInv => ForwardSound
  <2> SUFFICES ASSUME ListInv PROVE ForwardSound
    OBVIOUS
  <2>1. PICK p, L : Shape(p, L)
    BY DEF ListInv
  <2>2. Length = L /\ L <= N /\ Listed = Places(p, L)
    BY <2>1, ShapePlaces DEF ListInv, Seen
  <2>3. /\ DataOf(Live) \ {NULL} \subseteq payloads
        /\ \A m, n \in Live : heap[m].data = heap[n].data /\ m # n => heap[m].data = NULL
    BY DEF ListInv, PayloadsOwned, DataOf
  <2> QED
    BY <2>1, <2>2, <2>3 DEF ForwardSound, Shape, N
<1> QED
  BY <1>1, ListInvariant, PTL

(***************************************************************************)
(* A prev goes stale in linked_list_push_front before a node and in        *)
(* linked_list_replace_at of a node that has another behind it, and in no  *)
(* other call.                                                             *)
(***************************************************************************)
THEOREM ListStalePrev == Spec => StalePrevOnlyByPushOrReplace
<1>1. ListInv /\ [Next]_vars => [PrevStep]_vars
  BY StepKeeps
<1> QED
  BY <1>1, ListInvariant, PTL DEF Spec, StalePrevOnlyByPushOrReplace, PrevStep

(***************************************************************************)
(* linked_list_replace_at is the only call that loses a payload.           *)
(***************************************************************************)
THEOREM ListLeaks == Spec => LeaksOnlyByReplace
<1>1. ListInv /\ [Next]_vars => [LeakStep]_vars
  BY StepKeeps
<1> QED
  BY <1>1, ListInvariant, PTL DEF Spec, LeaksOnlyByReplace, LeakStep

\* What ReplacedIsFoundThere says of a step.
FoundStep == \A n \in hand : \A at \in 1..MaxAt : ReplaceBehind(n, at) => GetAt(at)' = n

(***************************************************************************)
(* linked_list_get_at finds at a position the node linked_list_replace_at  *)
(* has put there, however many nodes it had to make first.                 *)
(***************************************************************************)
THEOREM ListReplacedIsFound == Spec => ReplacedIsFoundThere
<1>1. ASSUME ListInv, NEW n \in hand, NEW at \in 1..MaxAt, ReplaceBehind(n, at)
      PROVE  GetAt(at)' = n
  <2>1. PICK p, L : Shape(p, L)
    BY <1>1 DEF ListInv
  <2>2. at \in Nat /\ at \in Int /\ L \in Nat
    BY <1>1, <2>1, ListAssumption, ShapePlaces DEF ListInv
  <2>3. PICK pads \in Pads(Short(L, at)) : Splices(n, at, pads)
    BY <1>1, <2>1, <2>2, ReplaceSplices
  <2> DEFINE q == Replaced(p, L, pads, at, n)
             M == Reach(L, at)
  <2>4. TypeOK' /\ Shape(q, M)'
    BY <1>1, <2>1, <2>2, <2>3, ReplaceBehindShape
  <2>5. at \in 0..(M - 1) /\ q[at] = n
    <3>1. at \in 0..(M - 1)
      BY <2>2 DEF Reach
    <3> QED
      BY <3>1 DEF Replaced, With
  <2> HIDE DEF q, M
  <2>6. Seen(q, M)'
    BY <2>4, ChainSeenNext DEF TypeOK, Shape
  <2>7. GetAt(at)' = IF at \in 0..(M - 1) THEN q[at] ELSE NULL
    BY <2>2, <2>6 DEF Seen
  <2> QED
    BY <2>5, <2>7
<1>2. ListInv /\ [Next]_vars => [FoundStep]_vars
  BY <1>1 DEF FoundStep
<1> QED
  BY <1>2, ListInvariant, PTL DEF Spec, ReplacedIsFoundThere, FoundStep

------------------------------------------------------------------------------
\* The list as a sequence of payloads.

\* A function on 1..M that agrees with a sequence of that length is the sequence.
LEMMA SeqSame ==
    ASSUME NEW S, NEW s \in Seq(S), NEW M, Len(s) = M, NEW t,
           t = [i \in 1..M |-> t[i]], \A i \in 1..M : t[i] = s[i]
    PROVE  t = s
<1>1. s \in [1..M -> S]
  BY LenProperties
<1> QED
  BY <1>1

\* A function on 1..M is a sequence of length M.
LEMMA SeqMade ==
    ASSUME NEW S, NEW M \in Nat, NEW t, t = [i \in 1..M |-> t[i]], \A i \in 1..M : t[i] \in S
    PROVE  t \in Seq(S) /\ Len(t) = M
<1>1. t \in [1..M -> S]
  OBVIOUS
<1>2. t \in Seq(S)
  BY <1>1, SeqDef
<1>3. Len(t) \in Nat /\ DOMAIN t = 1..Len(t)
  BY <1>2, LenProperties
<1>4. 1..M = 1..Len(t)
  BY <1>1, <1>3
<1>5. Len(t) = M
  <2>1. M # 0 => M \in 1..Len(t)
    BY <1>4
  <2>2. Len(t) # 0 => Len(t) \in 1..M
    BY <1>3, <1>4
  <2> QED
    BY <1>3, <2>1, <2>2
<1> QED
  BY <1>2, <1>5

\* The payloads along a chain.
PayloadsOf(h, p, L) == [i \in 1..L |-> h[p[i - 1]].data]

LEMMA ContentsAre ==
    TypeOK => \A p, L : Shape(p, L) =>
                 /\ Contents = PayloadsOf(heap, p, L)
                 /\ PayloadsOf(heap, p, L) \in Seq(Payloads)
                 /\ Len(PayloadsOf(heap, p, L)) = L
<1> SUFFICES ASSUME TypeOK, NEW p, NEW L, Shape(p, L)
             PROVE  /\ Contents = PayloadsOf(heap, p, L)
                    /\ PayloadsOf(heap, p, L) \in Seq(Payloads)
                    /\ Len(PayloadsOf(heap, p, L)) = L
  OBVIOUS
<1> DEFINE t == PayloadsOf(heap, p, L)
<1>1. /\ L \in Nat /\ Length = L
      /\ \A i \in 0..(L - 1) : p[i] \in Live /\ heap[p[i]] \in Cell
      /\ \A at \in Int : GetAt(at) = IF at \in 0..(L - 1) THEN p[at] ELSE NULL
  BY ShapePlaces DEF Seen
<1>2. \A i \in 1..L : i - 1 \in 0..(L - 1) /\ i - 1 \in Int
  BY <1>1
<1>3. \A i \in 1..L : /\ GetAt(i - 1) = p[i - 1] /\ p[i - 1] \in Live
                      /\ heap[p[i - 1]].data \in Payloads
  BY <1>1, <1>2 DEF Cell, Payloads
<1>4. t = [i \in 1..L |-> t[i]] /\ \A i \in 1..L : t[i] = heap[p[i - 1]].data
  BY DEF PayloadsOf
<1>5. Contents = t
  BY <1>1, <1>3 DEF Contents, PayloadsOf
<1> HIDE DEF t
<1>6. t \in Seq(Payloads) /\ Len(t) = L
  <2>1. \A i \in 1..L : t[i] \in Payloads
    BY <1>3, <1>4
  <2>2. L \in Nat /\ t = [i \in 1..L |-> t[i]]
    BY <1>1, <1>4
  <2> QED
    BY <2>1, <2>2, SeqMade
<1> QED
  BY <1>5, <1>6 DEF t

\* The same after a call.
LEMMA ContentsAreNext ==
    TypeOK' => (\A p, L : Shape(p, L) =>
                   /\ Contents = PayloadsOf(heap, p, L)
                   /\ PayloadsOf(heap, p, L) \in Seq(Payloads)
                   /\ Len(PayloadsOf(heap, p, L)) = L)'
BY ContentsAre, PTL

\* The payloads before and after a call, position by position.
Reads(p, L) ==
    /\ L \in Nat /\ Contents \in Seq(Payloads) /\ Len(Contents) = L
    /\ \A i \in 1..L : /\ Contents[i] = heap[p[i - 1]].data
                       /\ i - 1 \in 0..(L - 1) /\ p[i - 1] \in Live
    /\ Contents = [i \in 1..L |-> Contents[i]]

LEMMA ReadsContents == TypeOK => \A p, L : Shape(p, L) => Reads(p, L)
<1> SUFFICES ASSUME TypeOK, NEW p, NEW L, Shape(p, L)
             PROVE  Reads(p, L)
  OBVIOUS
<1>1. L \in Nat /\ \A i \in 0..(L - 1) : p[i] \in Live
  BY ShapePlaces
<1>2. /\ Contents = PayloadsOf(heap, p, L)
      /\ Contents \in Seq(Payloads) /\ Len(Contents) = L
  BY ContentsAre
<1>3. \A i \in 1..L : i - 1 \in 0..(L - 1)
  BY <1>1
<1>4. \A i \in 1..L : Contents[i] = heap[p[i - 1]].data
  BY <1>2 DEF PayloadsOf
<1>5. Contents = [i \in 1..L |-> Contents[i]]
  BY <1>2 DEF PayloadsOf
<1> QED
  BY <1>1, <1>2, <1>3, <1>4, <1>5 DEF Reads

\* The same after a call.
LEMMA ReadsContentsNext == TypeOK' => (\A p, L : Shape(p, L) => Reads(p, L))'
BY ReadsContents, PTL

\* What a step may do to the sequence.
SeqStep == [AsSeq!SeqNext]_Contents

\* linked_list_append puts a payload last.
LEMMA AppendIsPutLast ==
    ASSUME ListInv, NEW p, NEW L, Shape(p, L), NEW n \in hand, AppendNode(n)
    PROVE  SeqStep
<1> DEFINE q == AtEnd(p, L, n)
           d == heap[n].data
<1>1. /\ TypeOK' /\ Shape(q, L + 1)'
      /\ Live' = Live /\ \A m \in Live : heap'[m].data = heap[m].data
  BY AppendShape
<1>2. Reads(p, L)
  BY ReadsContents DEF ListInv
<1>3. Reads(q, L + 1)'
  BY <1>1, ReadsContentsNext
<1>4. n \in Live /\ d \in Payloads
  BY ShapePlaces DEF ListInv, Shape, Cell, Payloads
<1>5. \A i \in 1..L : i # L + 1 /\ i \in 1..(L + 1) /\ i - 1 \in 0..L /\ i - 1 # L
  BY <1>2 DEF Reads
<1>6. ASSUME NEW i \in 1..L PROVE Contents'[i] = Contents[i]
  <2>1. q[i - 1] = p[i - 1]
    BY <1>5 DEF AtEnd
  <2>2. Contents[i] = heap[p[i - 1]].data /\ p[i - 1] \in Live
    BY <1>2 DEF Reads
  <2>3. Contents'[i] = heap'[q[i - 1]].data
    BY <1>3, <1>5 DEF Reads
  <2> QED
    BY <1>1, <2>1, <2>2, <2>3
<1>7. Contents'[L + 1] = d
  <2>1. L + 1 \in 1..(L + 1) /\ (L + 1) - 1 = L /\ L \in 0..L
    BY <1>2 DEF Reads
  <2>2. q[L] = n
    BY <2>1 DEF AtEnd
  <2> QED
    BY <1>1, <1>3, <1>4, <2>1, <2>2 DEF Reads
<1>8. Contents' = Append(Contents, d)
  <2> DEFINE s == Append(Contents, d)
  <2>1. s \in Seq(Payloads) /\ Len(s) = L + 1 /\ (\A i \in 1..L : s[i] = Contents[i]) /\ s[L + 1] = d
    BY <1>2, <1>4, AppendProperties DEF Reads
  <2> HIDE DEF s, d
  <2>2. \A i \in 1..(L + 1) : i \in 1..L \/ i = L + 1
    BY <1>2 DEF Reads
  <2>3. \A i \in 1..(L + 1) : Contents'[i] = s[i]
    BY <1>6, <1>7, <2>1, <2>2
  <2>4. Contents' = [i \in 1..(L + 1) |-> Contents'[i]]
    BY <1>3 DEF Reads
  <2> QED
    BY <2>1, <2>3, <2>4, SeqSame DEF s
<1> QED
  BY <1>4, <1>8 DEF SeqStep, AsSeq!SeqNext, AsSeq!PutLast, AsSeq!Payload, Payloads

\* linked_list_push_front puts a payload first.
LEMMA PushIsPutFirst ==
    ASSUME ListInv, NEW p, NEW L, Shape(p, L), NEW n \in hand, PushFront(n)
    PROVE  SeqStep
<1> DEFINE q == AtFront(p, L, n)
           d == heap[n].data
<1>1. /\ TypeOK' /\ Shape(q, L + 1)'
      /\ Live' = Live /\ \A m \in Live : heap'[m].data = heap[m].data
  BY PushShape
<1>2. Reads(p, L)
  BY ReadsContents DEF ListInv
<1>3. Reads(q, L + 1)'
  BY <1>1, ReadsContentsNext
<1>4. n \in Live /\ d \in Payloads
  BY ShapePlaces DEF ListInv, Shape, Cell, Payloads
<1>5. ASSUME NEW i \in 1..(L + 1), i # 1 PROVE Contents'[i] = Contents[i - 1]
  <2>1. i - 1 \in 0..L /\ i - 1 # 0 /\ i - 1 \in 1..L
    BY <1>2, <1>5 DEF Reads
  <2>2. q[i - 1] = p[(i - 1) - 1]
    BY <2>1 DEF AtFront
  <2>3. Contents[i - 1] = heap[p[(i - 1) - 1]].data /\ p[(i - 1) - 1] \in Live
    BY <1>2, <2>1 DEF Reads
  <2>4. Contents'[i] = heap'[q[i - 1]].data
    BY <1>3 DEF Reads
  <2> QED
    BY <1>1, <2>2, <2>3, <2>4
<1>6. Contents'[1] = d
  <2>1. 1 \in 1..(L + 1) /\ 1 - 1 = 0 /\ 0 \in 0..L
    BY <1>2 DEF Reads
  <2>2. q[0] = n
    BY <2>1 DEF AtFront
  <2> QED
    BY <1>1, <1>3, <1>4, <2>1, <2>2 DEF Reads
<1>7. Contents' = <<d>> \o Contents
  <2> DEFINE s == <<d>> \o Contents
  <2>1. <<d>> \in Seq(Payloads) /\ Len(<<d>>) = 1 /\ <<d>>[1] = d
    BY <1>4
  <2>2. /\ s \in Seq(Payloads) /\ Len(s) = 1 + L
        /\ \A i \in 1..(1 + L) : s[i] = IF i <= 1 THEN <<d>>[i] ELSE Contents[i - 1]
    BY <1>2, <2>1, ConcatProperties DEF Reads
  <2> HIDE DEF s, d
  <2>3. 1 + L = L + 1
    BY <1>2 DEF Reads
  <2>4. \A i \in 1..(L + 1) : Contents'[i] = s[i]
    <3>1. \A i \in 1..(L + 1) : i <= 1 <=> i = 1
      BY <1>2 DEF Reads
    <3> QED
      BY <1>5, <1>6, <2>1, <2>2, <2>3, <3>1
  <2>5. Contents' = [i \in 1..(L + 1) |-> Contents'[i]]
    BY <1>3 DEF Reads
  <2> QED
    BY <2>2, <2>3, <2>4, <2>5, SeqSame DEF s
<1> QED
  BY <1>4, <1>7 DEF SeqStep, AsSeq!SeqNext, AsSeq!PutFirst, AsSeq!Payload, Payloads

\* The sequence with as many empty payloads behind it as are missing.
LEMMA PaddedSeq ==
    ASSUME NEW L \in Nat, Contents \in Seq(Payloads), Len(Contents) = L, NEW m \in Nat
    PROVE  /\ AsSeq!PaddedTo(m) \in Seq(Payloads)
           /\ Len(AsSeq!PaddedTo(m)) = IF m > L THEN m ELSE L
           /\ \A i \in 1..(IF m > L THEN m ELSE L) :
                 AsSeq!PaddedTo(m)[i] = IF i <= L THEN Contents[i] ELSE NULL
<1> DEFINE k == IF m > L THEN m - L ELSE 0
           t == [i \in 1..k |-> NULL]
<1>1. k \in Nat /\ L + k = IF m > L THEN m ELSE L
  OBVIOUS
<1> HIDE DEF k
<1>2. t = [i \in 1..k |-> t[i]] /\ \A i \in 1..k : t[i] = NULL /\ t[i] \in Payloads
  BY DEF Payloads
<1>3. AsSeq!PaddedTo(m) = Contents \o t
  BY DEF AsSeq!PaddedTo, k
<1> HIDE DEF t
<1>4. t \in Seq(Payloads) /\ Len(t) = k
  BY <1>1, <1>2, SeqMade
<1>5. /\ Contents \o t \in Seq(Payloads) /\ Len(Contents \o t) = L + k
      /\ \A i \in 1..(L + k) : (Contents \o t)[i] = IF i <= L THEN Contents[i] ELSE t[i - L]
  BY <1>4, ConcatProperties
<1>6. \A i \in 1..(L + k) : ~(i <= L) => i - L \in 1..k
  BY <1>1
<1> QED
  BY <1>1, <1>2, <1>3, <1>5, <1>6

\* linked_list_replace_at puts a payload at a position, on a padded list.
LEMMA ReplacedIsPutAt ==
    ASSUME NEW L, Contents \in Seq(Payloads), Len(Contents) = L, L \in Nat,
           NEW at \in 0..MaxAt, NEW d \in Payloads,
           Contents' = [i \in 1..Reach(L, at) |-> Contents'[i]],
           \A i \in 1..Reach(L, at) :
              Contents'[i] = IF i = at + 1 THEN d ELSE IF i <= L THEN Contents[i] ELSE NULL
    PROVE  SeqStep
<1> DEFINE s == AsSeq!PaddedTo(at + 1)
           e == [s EXCEPT ![at + 1] = d]
           M == Reach(L, at)
<1>1. at \in Nat /\ at + 1 \in Nat
  BY ListAssumption
<1>2. M = (IF at + 1 > L THEN at + 1 ELSE L) /\ at + 1 \in 1..M
  BY <1>1 DEF Reach
<1>3. /\ s \in Seq(Payloads) /\ Len(s) = M
      /\ \A i \in 1..M : s[i] = IF i <= L THEN Contents[i] ELSE NULL
  BY <1>1, <1>2, PaddedSeq
<1> HIDE DEF s, M
<1>4. /\ e \in Seq(Payloads) /\ Len(e) = M
      /\ \A i \in 1..M : e[i] = IF i = at + 1 THEN d ELSE s[i]
  BY <1>2, <1>3, ExceptSeq
<1> HIDE DEF e
<1>5. Contents' = [i \in 1..M |-> Contents'[i]] /\ \A i \in 1..M : Contents'[i] = e[i]
  BY <1>3, <1>4 DEF M
<1>6. Contents' = e
  BY <1>4, <1>5, SeqSame
<1> QED
  BY <1>6 DEF SeqStep, AsSeq!SeqNext, AsSeq!PutAt, AsSeq!Payload, Payloads, e, s

\* At the head it is position 0.
LEMMA ReplaceHeadIsPutAt ==
    ASSUME ListInv, NEW p, NEW L, Shape(p, L), NEW n \in hand, ReplaceHead(n)
    PROVE  SeqStep
<1> DEFINE M == Reach(L, 0)
           q == With(p, M, 0, n)
           d == heap[n].data
<1>1. /\ TypeOK' /\ Shape(q, M)'
      /\ \A m \in Live' : heap'[m].data = heap[m].data
  BY ReplaceHeadShape
<1>2. Reads(p, L)
  BY ReadsContents DEF ListInv
<1> HIDE DEF M
<1>3. Reads(q, M)'
  BY <1>1, ReadsContentsNext
<1>4. d \in Payloads
  BY ShapePlaces DEF ListInv, Shape, Cell, Payloads
<1>5. M = IF 0 < L THEN L ELSE 1
  BY <1>2 DEF M, Reach, Reads
<1>6. ASSUME NEW i \in 1..M
      PROVE  Contents'[i] = IF i = 0 + 1 THEN d ELSE IF i <= L THEN Contents[i] ELSE NULL
  <2>1. i - 1 \in 0..(M - 1) /\ (i - 1 = 0 <=> i = 1)
    BY <1>2, <1>5 DEF Reads
  <2>2. q[i - 1] = IF i = 1 THEN n ELSE p[i - 1]
    BY <2>1 DEF With
  <2>3. Contents'[i] = heap[q[i - 1]].data
    BY <1>1, <1>3 DEF Reads
  <2>4. i # 1 => i \in 1..L /\ i <= L
    BY <1>2, <1>5 DEF Reads
  <2>5. i # 1 => Contents[i] = heap[p[i - 1]].data
    BY <1>2, <2>4 DEF Reads
  <2> QED
    BY <2>2, <2>3, <2>4, <2>5
<1>7. Contents' = [i \in 1..Reach(L, 0) |-> Contents'[i]]
  BY <1>3 DEF Reads, M
<1>8. 0 \in 0..MaxAt
  BY ListAssumption
<1> HIDE DEF d
<1> QED
  BY <1>2, <1>4, <1>6, <1>7, <1>8, ReplacedIsPutAt DEF M, Reads

\* Further in, behind the pads.
LEMMA ReplaceBehindIsPutAt ==
    ASSUME ListInv, NEW p, NEW L, Shape(p, L), NEW n \in hand, NEW at \in 1..MaxAt,
           ReplaceBehind(n, at)
    PROVE  SeqStep
<1>1. at \in Nat /\ at \in 0..MaxAt
  BY ListAssumption
<1>2. PICK pads \in Pads(Short(L, at)) : Splices(n, at, pads)
  BY <1>1, ReplaceSplices
<1> DEFINE M == Reach(L, at)
           q == Replaced(p, L, pads, at, n)
           k == Short(L, at)
           d == heap[n].data
<1>3. /\ TypeOK' /\ Shape(q, M)'
      /\ \A m \in Live' : heap'[m].data = IF m \in Live THEN heap[m].data ELSE NULL
  BY <1>1, <1>2, ReplaceBehindShape
<1>4. Reads(p, L)
  BY ReadsContents DEF ListInv
<1> HIDE DEF M, q, k
<1>5. Reads(q, M)'
  BY <1>3, ReadsContentsNext
<1>6. n \in Live /\ d \in Payloads
  BY ShapePlaces DEF ListInv, Shape, Cell, Payloads
<1>7. /\ L \in Nat /\ k \in Nat /\ k = IF at > L THEN at - L ELSE 0
      /\ M = IF at < L THEN L ELSE at + 1
  BY <1>1, <1>4 DEF M, k, Short, Reach, Reads
<1>8. \A i \in 1..k : pads[i] \notin Live
  BY <1>2, <1>7, PadCells DEF k
<1>9. ASSUME NEW i \in 1..M
      PROVE  Contents'[i] = IF i = at + 1 THEN d ELSE IF i <= L THEN Contents[i] ELSE NULL
  <2>1. i - 1 \in 0..(M - 1) /\ (i - 1 = at <=> i = at + 1)
    BY <1>1, <1>7
  <2>2. q[i - 1] = IF i = at + 1 THEN n ELSE PaddedBy(p, L, pads, k)[i - 1]
    BY <2>1 DEF q, Replaced, With, M, k
  <2>3. /\ Contents'[i] = heap'[q[i - 1]].data
        /\ q[i - 1] \in Live'
    BY <1>5 DEF Reads
  <2>4. Contents'[i] = IF q[i - 1] \in Live THEN heap[q[i - 1]].data ELSE NULL
    BY <1>3, <2>3
  <2>5. CASE i = at + 1
    BY <1>6, <2>2, <2>4, <2>5
  <2>6. CASE i # at + 1 /\ i <= L
    <3>1. i \in 1..L /\ i - 1 < L /\ i - 1 \in 0..((L + k) - 1)
      BY <1>7, <2>6
    <3>2. q[i - 1] = p[i - 1]
      BY <2>2, <2>6, <3>1 DEF PaddedBy
    <3>3. Contents[i] = heap[p[i - 1]].data /\ p[i - 1] \in Live
      BY <1>4, <3>1 DEF Reads
    <3> QED
      BY <2>4, <2>6, <3>2, <3>3
  <2>7. CASE i # at + 1 /\ ~(i <= L)
    <3>1. /\ ~(i - 1 < L) /\ i - 1 \in 0..((L + k) - 1)
          /\ ((i - 1) - L) + 1 \in 1..k
      BY <1>1, <1>7, <2>7
    <3>2. q[i - 1] = pads[((i - 1) - L) + 1]
      BY <2>2, <2>7, <3>1 DEF PaddedBy
    <3> QED
      BY <1>8, <2>4, <2>7, <3>1, <3>2
  <2> QED
    BY <2>5, <2>6, <2>7
<1>10. Contents' = [i \in 1..Reach(L, at) |-> Contents'[i]]
  BY <1>5 DEF Reads, M
<1> HIDE DEF d
<1> QED
  BY <1>1, <1>4, <1>6, <1>9, <1>10, ReplacedIsPutAt DEF M, Reads

\* Out of memory, the sequence has been padded on the way to the position.
LEMMA ReplaceFailsIsPadTowards ==
    ASSUME ListInv, NEW p, NEW L, Shape(p, L), NEW n \in hand, NEW at \in 1..MaxAt,
           ReplaceFails(n, at)
    PROVE  SeqStep
<1>1. Reads(p, L) /\ Length = L
  BY ReadsContents, ShapePlaces DEF ListInv, Seen
<1>2. PICK k \in 0..(Missing(at) - 1) : \E pads \in Pads(k) :
            heap' = Padded(pads) /\ head' = HeadOf(pads) /\ fault' \in {fault, "null"}
  BY DEF ReplaceFails
<1>3. PICK pads \in Pads(k) :
            heap' = Padded(pads) /\ head' = HeadOf(pads) /\ fault' \in {fault, "null"}
  BY <1>2
<1>4. hand' = hand /\ payloads' = payloads
  BY DEF ReplaceFails
<1>5. L \in Nat /\ k \in Nat /\ at \in Nat /\ at \in 0..MaxAt /\ L + k \in 0..at
  BY <1>1, ListAssumption DEF Missing, Reads
<1> DEFINE q == PaddedBy(p, L, pads, k)
           M == L + k
           s == AsSeq!PaddedTo(M)
<1>6. /\ TypeOK' /\ Shape(q, M)'
      /\ \A m \in Live' : heap'[m].data = IF m \in Live THEN heap[m].data ELSE NULL
  BY <1>3, <1>4, <1>5, LengthensShape
<1>7. Reads(q, M)'
  BY <1>6, ReadsContentsNext
<1>8. \A i \in 1..k : pads[i] \notin Live
  BY <1>5, PadCells
<1>9. /\ s \in Seq(Payloads) /\ Len(s) = M
      /\ \A i \in 1..M : s[i] = IF i <= L THEN Contents[i] ELSE NULL
  <2>1. M \in Nat /\ M = IF M > L THEN M ELSE L
    BY <1>5
  <2> HIDE DEF M
  <2> QED
    BY <1>1, <1>5, <2>1, PaddedSeq DEF Reads
<1> HIDE DEF s
<1>10. ASSUME NEW i \in 1..M PROVE Contents'[i] = s[i]
  <2>1. i - 1 \in 0..((L + k) - 1)
    BY <1>5
  <2>2. Contents'[i] = heap'[q[i - 1]].data /\ q[i - 1] \in Live'
    BY <1>7 DEF Reads
  <2>3. Contents'[i] = IF q[i - 1] \in Live THEN heap[q[i - 1]].data ELSE NULL
    BY <1>6, <2>2
  <2>4. CASE i <= L
    <3>1. i \in 1..L /\ i - 1 < L
      BY <1>5, <2>4
    <3>2. q[i - 1] = p[i - 1]
      BY <2>1, <3>1 DEF PaddedBy
    <3>3. Contents[i] = heap[p[i - 1]].data /\ p[i - 1] \in Live
      BY <1>1, <3>1 DEF Reads
    <3> QED
      BY <1>9, <2>3, <2>4, <3>2, <3>3
  <2>5. CASE ~(i <= L)
    <3>1. ~(i - 1 < L) /\ ((i - 1) - L) + 1 \in 1..k
      BY <1>5, <2>5
    <3>2. q[i - 1] = pads[((i - 1) - L) + 1]
      BY <2>1, <3>1 DEF PaddedBy
    <3> QED
      BY <1>8, <1>9, <2>3, <2>5, <3>1, <3>2
  <2> QED
    BY <2>4, <2>5
<1>11. Contents' = s
  <2>1. Contents' = [i \in 1..M |-> Contents'[i]]
    BY <1>7 DEF Reads
  <2> HIDE DEF M
  <2> QED
    BY <1>9, <1>10, <2>1, SeqSame
<1>12. AsSeq!PadTowards(at)
  BY <1>5, <1>11 DEF AsSeq!PadTowards, s
<1> QED
  BY <1>5, <1>12 DEF SeqStep, AsSeq!SeqNext

\* linked_list_free leaves nothing.
LEMMA FreeIsClear ==
    ASSUME ListInv, NEW p, NEW L, Shape(p, L), Free
    PROVE  SeqStep
<1>1. TypeOK' /\ Shape(NoPlaces, 0)'
  BY FreeShape
<1>2. Reads(NoPlaces, 0)'
  BY <1>1, ReadsContentsNext
<1>3. Contents' \in Seq(Payloads) /\ Len(Contents') = 0
  BY <1>2 DEF Reads
<1>4. Contents' = <<>>
  BY <1>3, EmptySeq
<1> QED
  BY <1>4 DEF SeqStep, AsSeq!SeqNext, AsSeq!Clear

\* linked_list_remove_node on the last node drops the last payload.
LEMMA RemoveLastIsDropLast ==
    ASSUME ListInv, NEW p, NEW L, Shape(p, L), NEW n \in Listed, RemoveLast(n)
    PROVE  SeqStep
<1> DEFINE q == AllButLast(p, L)
           s == SubSeq(Contents, 1, L - 1)
<1>1. /\ TypeOK' /\ L # 0 /\ Shape(q, L - 1)'
      /\ \A m \in Live' : m \in Live /\ heap'[m].data = heap[m].data
  BY RemoveLastShape
<1>2. Reads(p, L)
  BY ReadsContents DEF ListInv
<1>3. Reads(q, L - 1)'
  BY <1>1, ReadsContentsNext
<1>4. /\ L \in Nat /\ L - 1 \in Nat /\ 1 \in Int /\ L - 1 \in Int
      /\ (L - 1) - 1 + 1 = L - 1 /\ (1 <= L - 1 <=> L - 1 # 0)
      /\ \A i \in 1..(L - 1) : i \in 1..L /\ (1 + i) - 1 = i /\ i - 1 \in 0..((L - 1) - 1)
  BY <1>1, <1>2 DEF Reads
<1>5. \A i \in 1..(L - 1) : Contents[i] \in Payloads
  BY <1>2, <1>4, ElementOfSeq DEF Reads
<1>6. /\ s \in Seq(Payloads) /\ Len(s) = L - 1
      /\ \A i \in 1..(L - 1) : s[i] = Contents[i]
  <2>1. /\ s \in Seq(Payloads) /\ Len(s) = IF 1 <= L - 1 THEN (L - 1) - 1 + 1 ELSE 0
        /\ \A i \in 1..((L - 1) - 1 + 1) : s[i] = Contents[(1 + i) - 1]
    BY <1>4, <1>5, SubSeqProperties
  <2> HIDE DEF s
  <2> QED
    BY <1>4, <2>1
<1> HIDE DEF s
<1>7. ASSUME NEW i \in 1..(L - 1) PROVE Contents'[i] = s[i]
  <2>1. q[i - 1] = p[i - 1]
    BY <1>4 DEF AllButLast
  <2>2. Contents'[i] = heap'[q[i - 1]].data /\ q[i - 1] \in Live'
    BY <1>3 DEF Reads
  <2>3. Contents[i] = heap[p[i - 1]].data
    BY <1>2, <1>4 DEF Reads
  <2> QED
    BY <1>1, <1>6, <2>1, <2>2, <2>3
<1>8. Contents' = s
  <2>1. Contents' = [i \in 1..(L - 1) |-> Contents'[i]]
    BY <1>3 DEF Reads
  <2> QED
    BY <1>6, <1>7, <2>1, SeqSame
<1>9. Contents # <<>> /\ Len(Contents) = L
  BY <1>1, <1>2, EmptySeq DEF Reads
<1> QED
  BY <1>8, <1>9 DEF SeqStep, AsSeq!SeqNext, AsSeq!DropLast, s

\* The other calls leave the sequence as it is.
LEMMA RestStutters ==
    ASSUME ListInv, NEW p, NEW L, Shape(p, L), TypeOK', Shape(p, L)',
           \A m \in Live : heap'[m].data = heap[m].data
    PROVE  SeqStep
<1>1. Reads(p, L) /\ Reads(p, L)'
  BY ReadsContents, ReadsContentsNext DEF ListInv
<1>2. \A i \in 1..L : Contents'[i] = Contents[i]
  BY <1>1 DEF Reads
<1>3. Contents' = [i \in 1..L |-> Contents'[i]] /\ Contents = [i \in 1..L |-> Contents[i]]
  BY <1>1 DEF Reads
<1>4. Contents' = Contents
  BY <1>2, <1>3
<1> QED
  BY <1>4 DEF SeqStep

(***************************************************************************)
(* Through linked_list_get_at the list is a sequence of payloads: append   *)
(* puts last, push_front first, replace_at at a position of a sequence     *)
(* padded to it, removal of the last node drops the last, free clears.     *)
(***************************************************************************)
THEOREM ListImplementsNodeSeq == Spec => ImplementsNodeSeq
<1>1. Init => AsSeq!SeqInit
  <2> SUFFICES ASSUME Init PROVE Contents = <<>>
    BY DEF AsSeq!SeqInit
  <2>1. ListInv /\ head = NULL
    BY InitListInv DEF Init
  <2>2. PICK p, L : Shape(p, L)
    BY <2>1 DEF ListInv
  <2>3. Reads(p, L)
    BY <2>1, <2>2, ReadsContents DEF ListInv
  <2>4. L = 0
    <3>1. L # 0 => 0 \in 0..(L - 1)
      BY <2>3 DEF Reads
    <3> QED
      BY <2>1, <2>2, <3>1, ShapePlaces DEF ListInv, Shape, Chain
  <2> QED
    BY <2>3, <2>4, EmptySeq DEF Reads
<1>2. ListInv /\ [Next]_vars => SeqStep
  <2> SUFFICES ASSUME ListInv, [Next]_vars PROVE SeqStep
    OBVIOUS
  <2>0. PICK p, L : Shape(p, L)
    BY DEF ListInv
  <2>1. CASE UNCHANGED vars
    <3>1. TypeOK' /\ Shape(p, L)'
      BY <2>0, <2>1 DEF vars, ListInv, TypeOK, Shape, Live
    <3> QED
      BY <2>0, <2>1, <3>1, RestStutters DEF vars
  <2>2. ASSUME NEW n \in Node, NEW d \in Payloads, NEW f \in BOOLEAN, Make(n, d, f)
        PROVE  SeqStep
    BY <2>0, <2>2, MakeShape, RestStutters
  <2>3. CASE FreeEmpty
    <3>1. heap' = heap /\ head' = head /\ hand' = hand /\ payloads' = payloads /\ fault' = "null"
      BY <2>3 DEF FreeEmpty
    <3>2. TypeOK' /\ Shape(p, L)'
      BY <2>0, <3>1 DEF ListInv, TypeOK, Shape, Live
    <3> QED
      BY <2>0, <3>1, <3>2, RestStutters
  <2>4. ASSUME NEW n \in hand, \/ AppendNode(n) \/ PushFront(n) \/ ReplaceHead(n) PROVE SeqStep
    BY <2>0, <2>4, AppendIsPutLast, PushIsPutFirst, ReplaceHeadIsPutAt
  <2>5. ASSUME NEW n \in hand, NEW at \in 1..MaxAt, ReplaceBehind(n, at) \/ ReplaceFails(n, at)
        PROVE  SeqStep
    BY <2>0, <2>5, ReplaceBehindIsPutAt, ReplaceFailsIsPadTowards
  <2>6. CASE Free
    BY <2>0, <2>6, FreeIsClear
  <2>7. ASSUME NEW n \in Listed, RemoveLast(n) PROVE SeqStep
    BY <2>0, <2>7, RemoveLastIsDropLast
  <2> QED
    BY <2>1, <2>2, <2>3, <2>4, <2>5, <2>6, <2>7 DEF Next, MakeFails, Stopped
<1> QED
  BY <1>1, <1>2, ListInvariant, PTL DEF Spec, ImplementsNodeSeq, AsSeq!SeqSpec, SeqStep
=============================================================================
