----------------------------- MODULE LinkedList -----------------------------
(***************************************************************************)
(* helper/linkedlist.c: one list and its client.  A call runs alone (the   *)
(* program is single-threaded), so an operation is one action; what makes  *)
(* the list hard is the heap under it.  An address that was freed may be   *)
(* handed out again by the next calloc, and a link to it then points into  *)
(* another node.                                                           *)
(***************************************************************************)
EXTENDS Integers, FiniteSets, Functions

CONSTANTS
    Node,   \* addresses calloc can return
    Datum,  \* payloads a client can hand to a node
    NULL,
    MaxAt   \* bound on the position given to linked_list_replace_at

ASSUME ListAssumption ==
    /\ IsFiniteSet(Node)
    /\ NULL \notin Node \union Datum
    /\ MaxAt \in Nat

VARIABLES
    heap,      \* struct linked_list_node of every allocated address
    head,      \* the client's head pointer
    hand,      \* nodes the client made and has not given to the list
    payloads,  \* payloads that are allocated
    fault      \* the undefined behaviour the program ran into

vars == <<heap, head, hand, payloads, fault>>

Link == Node \union {NULL}
Cell == [next : Link, prev : Link, data : Datum \union {NULL}, free_data : BOOLEAN]
Live == DOMAIN heap
Fresh == Node \ Live

\* The pointer reached after i steps along next.
Walk ==
    LET to[i \in 0..Cardinality(Node)] ==
            IF i = 0 THEN head
            ELSE IF to[i - 1] \in Live THEN heap[to[i - 1]].next ELSE NULL
    IN  to
Length == Cardinality({i \in DOMAIN Walk : Walk[i] # NULL})
Listed == Range(Walk) \ {NULL}

\* linked_list_get_at and linked_list_get_tail.
GetAt(at) == IF at \in DOMAIN Walk THEN Walk[at] ELSE NULL
GetTail == IF head = NULL THEN NULL ELSE Walk[Length - 1]

\* The calls are followed up to the first undefined behaviour, and up to the
\* first link to a freed node in the list.
Usable == fault = "none" /\ Listed \subseteq Live

Blank == [next |-> NULL, prev |-> NULL, data |-> NULL, free_data |-> FALSE]
DataOf(nodes) == {heap[n].data : n \in nodes}

\* The payloads that go with freed nodes: free_data is called, or free.
DestroyedByDestructor(nodes) == DataOf({n \in nodes : heap[n].free_data})
Destroyed(nodes) == DataOf(nodes)
Freed(h, nodes) == Restrict(h, DOMAIN h \ nodes)
MovedEvenNothing(d) == {d}
Moved(d) == {d} \ {NULL}

Init ==
    /\ heap = [n \in {} |-> Blank]
    /\ head = NULL
    /\ hand = {}
    /\ payloads = {}
    /\ fault = "none"

\* linked_list_make_node moves the payload d in; without one it drops the
\* destructor too.  linked_list_make_node_ref is the case without destructor: the
\* list frees that payload like any other, so the client has given it up.
Make(n, d, destructor) ==
    /\ Usable
    /\ n \in Fresh
    /\ d \notin payloads
    /\ heap' = [m \in Live \union {n} |->
                   IF m = n THEN [Blank EXCEPT !.data = d,
                                               !.free_data = destructor /\ d # NULL]
                   ELSE heap[m]]
    /\ hand' = hand \union {n}
    /\ payloads' = payloads \union Moved(d)
    /\ UNCHANGED <<head, fault>>

\* The same without memory: nothing is moved.
MakeFails == Usable /\ UNCHANGED vars

\* linked_list_append.
AppendedNoPrev(n) ==
    [m \in Live |-> IF m = GetTail THEN [heap[m] EXCEPT !.next = n] ELSE heap[m]]
Appended(n) ==
    [m \in Live |->
        IF m = n THEN [heap[m] EXCEPT !.prev = GetTail]
        ELSE IF m = GetTail THEN [heap[m] EXCEPT !.next = n]
        ELSE heap[m]]
AppendNode(n) ==
    /\ Usable
    /\ n \in hand
    /\ heap' = Appended(n)
    /\ head' = IF head = NULL THEN n ELSE head
    /\ hand' = hand \ {n}
    /\ UNCHANGED <<payloads, fault>>

\* linked_list_free: the payload and the node of every element.  An empty list is
\* dereferenced before it is looked at.
Free ==
    /\ Usable
    /\ head # NULL
    /\ heap' = Freed(heap, Listed)
    /\ head' = NULL
    /\ payloads' = payloads \ Destroyed(Listed)
    /\ UNCHANGED <<hand, fault>>
FreeEmpty ==
    /\ Usable
    /\ head = NULL
    /\ fault' = "null"
    /\ UNCHANGED <<heap, head, hand, payloads>>

\* linked_list_push_front and linked_list_push_front_ref: the old head's prev stays.
PushFront(n) ==
    /\ Usable
    /\ n \in hand
    /\ heap' = [heap EXCEPT ![n].next = head]
    /\ head' = n
    /\ hand' = hand \ {n}
    /\ UNCHANGED <<payloads, fault>>

\* linked_list_replace_at at the head: the old node is freed, its payload is not.
ReplaceHead(n) ==
    /\ Usable
    /\ n \in hand
    /\ heap' = Freed([heap EXCEPT ![n].next = IF head = NULL THEN NULL
                                              ELSE heap[head].next], {head})
    /\ head' = n
    /\ hand' = hand \ {n}
    /\ UNCHANGED <<payloads, fault>>

\* Further in, the list is first made long enough with nodes of its own: pads are
\* the addresses calloc returned for them.
MissingOneMore(at) == IF at >= Length THEN at - Length + 1 ELSE 0
Missing(at) == IF at > Length THEN at - Length ELSE 0
Pads(k) == Injection(1..k, Fresh)
Padded(pads) ==
    [m \in Live \union Range(pads) |->
        IF \E i \in DOMAIN pads : pads[i] = m
        THEN LET i == CHOOSE i \in DOMAIN pads : pads[i] = m
             IN  [Blank EXCEPT !.prev = IF i = 1 THEN GetTail ELSE pads[i - 1],
                               !.next = IF i + 1 \in DOMAIN pads THEN pads[i + 1]
                                        ELSE NULL]
        ELSE IF m = GetTail /\ 1 \in DOMAIN pads
        THEN [heap[m] EXCEPT !.next = pads[1]]
        ELSE heap[m]]
HeadOf(pads) == IF head = NULL /\ 1 \in DOMAIN pads THEN pads[1] ELSE head

\* n behind before, in the place of old; the node after old keeps its prev.
SplicedAsLast(h, n, before, old) ==
    Freed([h EXCEPT ![n].prev = before, ![before].next = n], {old})
SplicedToOld(h, n, before, old) ==
    Freed([h EXCEPT ![n].next = old, ![n].prev = before, ![before].next = n], {old})
Spliced(h, n, before, old) ==
    Freed([h EXCEPT ![n].next = IF old = NULL THEN @ ELSE h[old].next,
                    ![n].prev = before,
                    ![before].next = n], {old})
\* The position counts from the head; a negative one, which the code takes for 1,
\* is left out.
ReplaceBehind(n, at) ==
    /\ Usable
    /\ n \in hand
    /\ at >= 1
    /\ \E pads \in Pads(Missing(at)) :
          LET before == IF Missing(at) = 0 THEN GetAt(at - 1) ELSE pads[Missing(at)]
          IN  /\ heap' = Spliced(Padded(pads), n, before, GetAt(at))
              /\ head' = HeadOf(pads)
    /\ hand' = hand \ {n}
    /\ UNCHANGED <<payloads, fault>>

\* The memory runs out on the way: the pads stay, and without the first one the
\* empty list is dereferenced.
ReplaceFails(n, at) ==
    /\ Usable
    /\ n \in hand
    /\ \E k \in 0..(Missing(at) - 1) : \E pads \in Pads(k) :
          /\ heap' = Padded(pads)
          /\ head' = HeadOf(pads)
          /\ fault' = IF HeadOf(pads) = NULL THEN "null" ELSE fault
    /\ UNCHANGED <<hand, payloads>>

\* linked_list_remove_node on the node n, through the client's head pointer or
\* through a pointer of its own.  The node is taken out of the chain and its
\* payload destroyed; then the cleanup attribute hands it to linked_list_free,
\* with its next pointer and its payload as they were.
Behind(n) == {Walk[j] : j \in {j \in DOMAIN Walk : \E i \in 0..j : Walk[i] = n}} \ {NULL}
Unlinked(n) ==
    [m \in Live |->
        [heap[m] EXCEPT !.next = IF m = heap[n].prev THEN heap[n].next ELSE @,
                        !.prev = IF m = heap[n].next THEN heap[n].prev ELSE @]]
RemoveNode(n, byHead) ==
    /\ Usable
    /\ n \in Listed
    /\ byHead => n = head
    /\ heap' = Freed(Unlinked(n), Behind(n))
    /\ head' = IF ~byHead THEN head ELSE IF heap[n].prev = NULL THEN heap[n].next ELSE NULL
    /\ payloads' = payloads \ Destroyed(Behind(n))
    /\ fault' = IF heap[n].prev \notin Live \union {NULL} THEN "use after free"
                ELSE IF heap[n].free_data THEN "double free" ELSE fault
    /\ UNCHANGED hand

\* The removal that works: the last node, if its prev is right and its payload has
\* no destructor, through the pointer that has to change.
RemoveLast(n) ==
    /\ n = GetTail
    /\ heap[n].prev = GetAt(Length - 2)
    /\ ~heap[n].free_data
    /\ RemoveNode(n, n = head)

Stopped == ~Usable /\ UNCHANGED vars

Payloads == Datum \union {NULL}
Next ==
    \/ \E n \in Node, d \in Payloads, f \in BOOLEAN : Make(n, d, f)
    \/ MakeFails
    \/ \E n \in hand : AppendNode(n)
    \/ Free
    \/ FreeEmpty
    \/ \E n \in hand : PushFront(n) \/ ReplaceHead(n)
    \/ \E n \in hand, at \in 1..MaxAt : ReplaceBehind(n, at) \/ ReplaceFails(n, at)
    \/ \E n \in Listed : RemoveLast(n)
    \/ Stopped

Spec == Init /\ [][Next]_vars

\* Removal of any node, of the first one through the head pointer.
RemoveSpec == Init /\ [][Next \/ \E n \in Listed : RemoveNode(n, n = head)]_vars

------------------------------------------------------------------------------
\* Correctness.

(***************************************************************************)
(* The types of the heap and of the client's pointers.                     *)
(***************************************************************************)
TypeOK ==
    /\ Live \subseteq Node
    /\ heap \in [Live -> Cell]
    /\ head \in Link
    /\ hand \subseteq Node
    /\ payloads \subseteq Datum
    /\ fault \in {"none", "null", "use after free", "double free"}

(***************************************************************************)
(* Whatever is pushed, replaced, padded and taken back, the chain of next  *)
(* pointers ends, visits live nodes only, none of them the client's, and   *)
(* no two nodes share a payload or hold a freed one.                       *)
(***************************************************************************)
ForwardSound ==
    /\ Length <= Cardinality(Node)
    /\ Live = hand \union Listed
    /\ hand \intersect Listed = {}
    /\ DataOf(Live) \ {NULL} \subseteq payloads
    /\ \A m, n \in Live : heap[m].data = heap[n].data /\ m # n => heap[m].data = NULL

\* Every prev is the node whose next leads here, and the client's nodes have no links.
DoublyLinked ==
    /\ \A i \in DOMAIN Walk : Walk[i] # NULL => heap[Walk[i]].prev = GetAt(i - 1)
    /\ \A n \in hand : heap[n].prev = NULL /\ heap[n].next = NULL

(***************************************************************************)
(* Only two calls take the chain of prev pointers apart: a push in front   *)
(* of a node, and a replacement of a node that has another behind it.      *)
(* Whoever makes, appends, pads, frees and takes back never meets a stale  *)
(* prev, on reused addresses neither.                                      *)
(***************************************************************************)
StalePrevOnlyByPushOrReplace ==
    [][DoublyLinked =>
          \/ DoublyLinked'
          \/ head # NULL /\ \E n \in hand : PushFront(n)
          \/ Length > 1 /\ \E n \in hand : ReplaceHead(n)
          \/ \E n \in hand, at \in 1..(Length - 2) : ReplaceBehind(n, at)]_vars

NothingLost == payloads = DataOf(Live) \ {NULL}

(***************************************************************************)
(* A payload leaks only when linked_list_replace_at replaces its node: no  *)
(* other call loses one, out of memory or not.                             *)
(***************************************************************************)
LeaksOnlyByReplace ==
    [][NothingLost =>
          \/ NothingLost'
          \/ head # NULL /\ \E n \in hand : ReplaceHead(n)
          \/ \E n \in hand, at \in 1..(Length - 1) : ReplaceBehind(n, at)]_vars

(***************************************************************************)
(* Padding and linked_list_get_at count the same way: what                 *)
(* linked_list_replace_at puts at a position is what is found there.       *)
(***************************************************************************)
ReplacedIsFoundThere ==
    [][\A n \in hand : \A at \in 1..MaxAt : ReplaceBehind(n, at) => GetAt(at)' = n]_vars

(***************************************************************************)
(* linkedlist.h says of linked_list_remove_node that it removes the node   *)
(* from the list it is contained in: that node leaves the list and is      *)
(* freed, and no other node is.                                            *)
(***************************************************************************)
RemoveTakesOneNode ==
    [][\A n \in Listed :
         RemoveNode(n, n = head) =>
            Listed' = Listed \ {n} /\ Live' = Live \ {n}]_vars

(***************************************************************************)
(* Read through linked_list_get_at the list is a sequence of payloads.     *)
(***************************************************************************)
Contents ==
    [i \in 1..Length |-> LET n == GetAt(i - 1)
                         IN  IF n \in Live THEN heap[n].data ELSE "freed"]
AsSeq == INSTANCE NodeSeq WITH nodes <- Contents
ImplementsNodeSeq == AsSeq!SeqSpec
=============================================================================
