---------------------------- MODULE BoundedQueue ----------------------------
(***************************************************************************)
(* What Queue<T> promises the threads that use it, without a mutex, flags  *)
(* or condition variables: a bounded FIFO whose calls take effect at once. *)
(* ret is the return of the latest call that ended: 0 succeeded, -1        *)
(* failed, 1 timed out (the codes of fqueue.hpp).  nudged is true when an  *)
(* empty queue owes one pop the answer "0, no node", which clear() and an  *)
(* add that could not allocate its node leave behind.                      *)
(***************************************************************************)
EXTENDS Integers, Sequences

CONSTANTS Producers, Consumers, MaxSize, Null

VARIABLES items, nudged, ret

absVars == <<items, nudged, ret>>

Return(t, code, node) == [by |-> t, code |-> code, node |-> node]

AbsInit ==
    /\ items = <<>>
    /\ nudged = FALSE
    /\ ret = Return(Null, 0, Null)

\* An add that succeeds found room and appended its value, once.
Put(p) ==
    /\ Len(items) < MaxSize
    /\ items' = Append(items, p)
    /\ nudged' = FALSE
    /\ ret' = Return(p, 0, Null)

\* An add fails for want of memory, never because the queue is full.
Reject(p) ==
    /\ Len(items) < MaxSize
    /\ items' = items
    /\ nudged' = (items = <<>>)
    /\ ret' = Return(p, -1, Null)

PutTimedOut(p) ==
    /\ UNCHANGED <<items, nudged>>
    /\ ret' = Return(p, 1, Null)

\* A pop that hands out a node hands out the oldest one.
Take(c) ==
    /\ items # <<>>
    /\ items' = Tail(items)
    /\ nudged' = FALSE
    /\ ret' = Return(c, 0, Head(items))

TakeNothing(c) ==
    /\ items = <<>>
    /\ nudged
    /\ nudged' = FALSE
    /\ UNCHANGED items
    /\ ret' = Return(c, 0, Null)

TakeTimedOut(c) ==
    /\ UNCHANGED items
    /\ nudged' = FALSE
    /\ ret' = Return(c, 1, Null)

Discard ==
    /\ items' = <<>>
    /\ nudged' = TRUE
    /\ UNCHANGED ret

AbsNext ==
    \/ \E p \in Producers : Put(p) \/ Reject(p) \/ PutTimedOut(p)
    \/ \E c \in Consumers : Take(c) \/ TakeNothing(c) \/ TakeTimedOut(c)
    \/ Discard

AbsSpec == AbsInit /\ [][AbsNext]_absVars
=============================================================================
