------------------------------ MODULE FifoList ------------------------------
(***************************************************************************)
(* What LinkList<T> stands for: a sequence of nodes, and the nodes its     *)
(* user holds.  Every node is in one place: in the list, with the user, or *)
(* not allocated.                                                          *)
(***************************************************************************)
EXTENDS Naturals, Sequences, SequencesExt

CONSTANT Nodes

VARIABLES items, held

listVars == <<items, held>>

ListInit == items = <<>> /\ held = {}

Listed == Range(items)

Add(n) ==
    /\ n \notin Listed \cup held
    /\ items' = Append(items, n)
    /\ UNCHANGED held

AddHeld(n) ==
    /\ n \in held
    /\ items' = Append(items, n)
    /\ held' = held \ {n}

Pop ==
    /\ items # <<>>
    /\ items' = Tail(items)
    /\ held' = held \cup {Head(items)}

Detach(n) ==
    /\ \E k \in DOMAIN items : items[k] = n /\ items' = RemoveAt(items, k)
    /\ held' = held \cup {n}

Release(n) == n \in held /\ held' = held \ {n} /\ UNCHANGED items

DiscardAll == items' = <<>> /\ UNCHANGED held

ListNext ==
    \/ \E n \in Nodes : Add(n) \/ AddHeld(n) \/ Detach(n) \/ Release(n)
    \/ Pop
    \/ DiscardAll

ListSpec == ListInit /\ [][ListNext]_listVars
=============================================================================
