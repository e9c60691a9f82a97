------------------------------- MODULE DList -------------------------------
(***************************************************************************)
(* The doubly linked list of dlist.c, node by node: what DebugLog calls of *)
(* it. A list has two nodes without data, its head and its tail, and one   *)
(* node for each entry between them.                                       *)
(*                                                                         *)
(* A list is a record of functions on its nodes. What is not in their      *)
(* domain is not allocated, so that following a pointer to a freed node is *)
(* an error of the model.                                                  *)
(***************************************************************************)
EXTENDS Integers, Sequences, FiniteSets

CONSTANTS
    NULL,
    HeadNode, TailNode,   \* the two sentinels
    Cells                 \* what calloc may return for an entry

ASSUME NodesAssumption == /\ NULL \notin Cells \cup {HeadNode, TailNode}
                          /\ HeadNode # TailNode
                          /\ {HeadNode, TailNode} \cap Cells = {}
                          /\ IsFiniteSet(Cells)

Nodes(l) == DOMAIN l.data

\* The nodes of l are allocated and their data is from a set.
Pointers(N) == [N -> Cells \cup {HeadNode, TailNode, NULL}]
IsList(l, Data) ==
    \E N \in SUBSET (Cells \cup {HeadNode, TailNode}) :
        l \in [next : Pointers(N), prev : Pointers(N), data : [N -> Data \cup {NULL}]]

dlist_create ==
    [next |-> [n \in {HeadNode, TailNode} |-> IF n = HeadNode THEN TailNode ELSE NULL],
     prev |-> [n \in {HeadNode, TailNode} |-> IF n = TailNode THEN HeadNode ELSE NULL],
     data |-> [n \in {HeadNode, TailNode} |-> NULL]]

\* The node that the loops of dlist_len and dlist_get reach in k steps from the
\* first.
NodeAt(l, k) ==
    LET at[j \in 0..k] == IF j = 0 THEN l.next[HeadNode] ELSE l.next[at[j - 1]]
    IN at[k]

\* The loop stops at the first node without data, not at the tail.
dlist_len(l) ==
    CHOOSE k \in 0..Cardinality(Nodes(l)) :
        /\ l.data[NodeAt(l, k)] = NULL
        /\ \A j \in 0..(k - 1) : l.data[NodeAt(l, j)] # NULL

dlist_get(l, index) == IF index < dlist_len(l) THEN NodeAt(l, index) ELSE NULL

\* calloc returned node n; it goes between the last entry and the tail.
dlist_attach(l, n, data) ==
    LET last == l.prev[TailNode]
        all == Nodes(l) \cup {n}
    IN  [next |-> [m \in all |-> CASE m = n    -> TailNode
                                   [] m = last -> n
                                   [] OTHER    -> l.next[m]],
         prev |-> [m \in all |-> CASE m = n        -> last
                                   [] m = TailNode -> n
                                   [] OTHER        -> l.prev[m]],
         data |-> [m \in all |-> IF m = n THEN data ELSE l.data[m]]]

dlist_delete_HalfUnlinked(l, index) ==
    LET n == dlist_get(l, index)
        rest == Nodes(l) \ {n}
    IN  IF n = NULL THEN l ELSE
        [next |-> [m \in rest |-> IF m = l.prev[n] THEN l.next[n] ELSE l.next[m]],
         prev |-> [m \in rest |-> l.prev[m]],
         data |-> [m \in rest |-> l.data[m]]]

\* Unlink the node, free its data and the node.
dlist_delete(l, index) ==
    LET n == dlist_get(l, index)
        rest == Nodes(l) \ {n}
    IN  IF n = NULL THEN l ELSE
        [next |-> [m \in rest |-> IF m = l.prev[n] THEN l.next[n] ELSE l.next[m]],
         prev |-> [m \in rest |-> IF m = l.next[n] THEN l.prev[n] ELSE l.prev[m]],
         data |-> [m \in rest |-> l.data[m]]]

-----------------------------------------------------------------------------
\* What a walk along next finds.
Contents(l) == [k \in 1..dlist_len(l) |-> l.data[NodeAt(l, k - 1)]]

\* next and prev are two views of one chain from the head to the tail, through
\* allocated nodes only, and only the sentinels have no data.
ChainIn(l) ==
    /\ DOMAIN l.next = Nodes(l) /\ DOMAIN l.prev = Nodes(l)
    /\ \A n \in Nodes(l) \ {TailNode} :
           l.next[n] \in Nodes(l) \ {HeadNode} /\ l.prev[l.next[n]] = n
    /\ \A n \in Nodes(l) \ {HeadNode} :
           l.prev[n] \in Nodes(l) \ {TailNode} /\ l.next[l.prev[n]] = n
    /\ \A n \in Nodes(l) : l.data[n] = NULL <=> n \in {HeadNode, TailNode}

=============================================================================
