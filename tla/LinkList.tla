------------------------------ MODULE LinkList ------------------------------
(***************************************************************************)
(* LinkList<T> of src/mysql/flist.hpp, pointer by pointer: the doubly      *)
(* linked list under every task queue.  Nodes are addresses.  The list     *)
(* keeps _head, _tail and _len and trusts _len alone to say whether it is  *)
(* empty: clear() leaves _head and _tail pointing at freed nodes, and      *)
(* pop_head leaves the links of the node it hands out as they were.        *)
(***************************************************************************)
EXTENDS Naturals, Sequences

CONSTANTS
    Nodes,      \* addresses the allocator can return
    NULL,
    MaxLen      \* _max_len; 0, the default constructor's, means no limit

\* A null pointer is the address of no node.
ASSUME NodesAssumption == NULL \notin Nodes

VARIABLES
    head, tail, len,
    next, prev,     \* _next and _prev of every node, freed ones included
    heap            \* "free", "listed", or "held" by the list's user

vars == <<head, tail, len, next, prev, heap>>

Init ==
    /\ head = NULL /\ tail = NULL /\ len = 0
    /\ next = [n \in Nodes |-> NULL]
    /\ prev = [n \in Nodes |-> NULL]
    /\ heap = [n \in Nodes |-> "free"]

isempty == len = 0
isfull  == MaxLen # 0 /\ len >= MaxLen

Becomes(n, where) == heap' = [heap EXCEPT ![n] = where]

\* Mutant: the first node of a list keeps the links it had elsewhere.
LinkAtTailStale(n) ==
    /\ ~isfull
    /\ tail' = n
    /\ len' = len + 1
    /\ IF isempty
       THEN head' = n /\ UNCHANGED <<next, prev>>
       ELSE /\ head' = head
            /\ next' = [next EXCEPT ![n] = NULL, ![tail] = n]
            /\ prev' = [prev EXCEPT ![n] = tail]
    /\ Becomes(n, "listed")

\* Both overloads of add_tail link a node the same way.
LinkAtTail(n) ==
    /\ ~isfull
    /\ tail' = n
    /\ len' = len + 1
    /\ IF isempty
       THEN /\ head' = n
            /\ next' = [next EXCEPT ![n] = NULL]
            /\ prev' = [prev EXCEPT ![n] = NULL]
       ELSE /\ head' = head
            /\ next' = [next EXCEPT ![n] = NULL, ![tail] = n]
            /\ prev' = [prev EXCEPT ![n] = tail]
    /\ Becomes(n, "listed")

add_tail(n)      == heap[n] = "free" /\ LinkAtTail(n)
add_tail_node(n) == heap[n] = "held" /\ LinkAtTail(n)

pop_head ==
    /\ ~isempty
    /\ len' = len - 1
    /\ Becomes(head, "held")
    /\ IF len = 1
       THEN head' = NULL /\ tail' = NULL /\ UNCHANGED <<next, prev>>
       ELSE /\ head' = next[head]
            /\ prev' = [prev EXCEPT ![next[head]] = NULL]
            /\ UNCHANGED <<tail, next>>

\* Mutant: an inner node is unlinked in one direction only.
detachOneWay(p) ==
    /\ heap[p] = "listed"
    /\ len' = len - 1
    /\ Becomes(p, "held")
    /\ IF len = 1
       THEN head' = NULL /\ tail' = NULL /\ UNCHANGED <<next, prev>>
       ELSE IF prev[p] = NULL
       THEN /\ head' = next[p]
            /\ prev' = [prev EXCEPT ![next[p]] = NULL]
            /\ UNCHANGED <<tail, next>>
       ELSE IF next[p] = NULL
       THEN /\ tail' = prev[p]
            /\ next' = [next EXCEPT ![prev[p]] = NULL]
            /\ UNCHANGED <<head, prev>>
       ELSE /\ prev' = [prev EXCEPT ![next[p]] = prev[p]]
            /\ UNCHANGED <<head, tail, next>>

\* detach trusts its caller that p is in this list.
detach(p) ==
    /\ heap[p] = "listed"
    /\ len' = len - 1
    /\ Becomes(p, "held")
    /\ IF len = 1
       THEN head' = NULL /\ tail' = NULL /\ UNCHANGED <<next, prev>>
       ELSE IF prev[p] = NULL
       THEN /\ head' = next[p]
            /\ prev' = [prev EXCEPT ![next[p]] = NULL]
            /\ UNCHANGED <<tail, next>>
       ELSE IF next[p] = NULL
       THEN /\ tail' = prev[p]
            /\ next' = [next EXCEPT ![prev[p]] = NULL]
            /\ UNCHANGED <<head, prev>>
       ELSE /\ prev' = [prev EXCEPT ![next[p]] = prev[p]]
            /\ next' = [next EXCEPT ![prev[p]] = next[p]]
            /\ UNCHANGED <<head, tail>>

\* The addresses that n links from first lead through, first included.
Walk(first, links, n) ==
    LET at[i \in 1..n] == IF i = 1 THEN first ELSE links[at[i - 1]]
    IN  [i \in 1..n |-> at[i]]

\* The node at each position, as clear() finds it: _len links from _head.
Chain == Walk(head, next, len)

clear ==
    /\ len' = 0
    /\ heap' = [n \in Nodes |->
                    IF \E i \in 1..len : Chain[i] = n THEN "free" ELSE heap[n]]
    /\ UNCHANGED <<head, tail, next, prev>>

\* Not the list: its user deletes a node it was given.
Delete(n) ==
    /\ heap[n] = "held"
    /\ Becomes(n, "free")
    /\ UNCHANGED <<head, tail, len, next, prev>>

Next ==
    \/ \E n \in Nodes : add_tail(n) \/ add_tail_node(n) \/ detach(n) \/ Delete(n)
    \/ pop_head
    \/ clear

Spec == Init /\ [][Next]_vars

-----------------------------------------------------------------------------
\* The two directions agree and the links lead through every node that was
\* allocated and not given away, and through no other, although freed and
\* given nodes keep their old links: _prev undoes _next, the ends are NULL,
\* _tail is the last node (all of it what detach and add_tail rely on without
\* looking), and no node leaks.
WellLinked ==
    /\ {n \in Nodes : heap[n] = "listed"} = {Chain[i] : i \in 1..len}
    /\ \A i \in 1..len - 1 : prev[Chain[i + 1]] = Chain[i]
    /\ len > 0 => /\ prev[head] = NULL
                  /\ next[tail] = NULL
                  /\ tail = Chain[len]

\* The pointers behave as the sequence of FifoList does, through every mix of
\* adds, pops, detaches in the middle and clears.
Fifo == INSTANCE FifoList WITH
    items <- Chain, held <- {n \in Nodes : heap[n] = "held"}

ImplementsFifoList == Fifo!ListSpec
=============================================================================
