------------------------------ MODULE QueueOps ------------------------------
(***************************************************************************)
(* The critical sections of Queue<T> (src/mysql/fqueue.hpp) as operators   *)
(* on the state of one queue.  Each is what a thread does between taking   *)
(* and giving back _mutex, so it is atomic; BlockingQueue puts threads     *)
(* around them, and Worker gives one such queue to every worker thread.    *)
(*                                                                         *)
(* A queue is a record: list is _list, full_signal and empty_signal are    *)
(* the two flags, full_cond and empty_cond are the threads asleep in       *)
(* pthread_cond_wait on the condition of that name.  The predicate of the  *)
(* wait loops is the flag, never the length of the list.                   *)
(***************************************************************************)
EXTENDS Naturals, Sequences

CONSTANTS
    MaxSize,    \* _max_size; the constructor turns 0 into SIZE_MAX
    Null        \* the null pointer a pop may hand out

ASSUME MaxSizeAssumption == MaxSize \in Nat \ {0}

NewQueue ==
    [list |-> <<>>, full_signal |-> FALSE, empty_signal |-> FALSE,
     full_cond |-> {}, empty_cond |-> {}]

isempty(q) == Len(q.list) = 0
\* Mutant: full one element too late.
isfullLate(q) == Len(q.list) > MaxSize

isfull(q)  == Len(q.list) >= MaxSize

\* pthread_cond_signal: one of the sleepers, whichever, leaves the wait set.
Signalled(sleepers) ==
    IF sleepers = {} THEN {{}} ELSE {sleepers \ {t} : t \in sleepers}

\* Mutants: the flag an add used up stays raised; a consumer is woken but not
\* told why.
AfterAddKeepsFlag(q, v, stored) ==
    {[q EXCEPT !.list         = IF stored THEN Append(@, v) ELSE @,
               !.empty_signal = TRUE,
               !.empty_cond   = woken] : woken \in Signalled(q.empty_cond)}

AfterAddNoFlag(q, v, stored) ==
    {[q EXCEPT !.list        = IF stored THEN Append(@, v) ELSE @,
               !.empty_cond  = woken,
               !.full_signal = FALSE] : woken \in Signalled(q.empty_cond)}

\* add_block past its wait loop.  "stored" is the result of the list's
\* add_tail: false when the queue is full or no node could be allocated.
AfterAdd(q, v, stored) ==
    {[q EXCEPT !.list         = IF stored THEN Append(@, v) ELSE @,
               !.empty_signal = TRUE,
               !.empty_cond   = woken,
               !.full_signal  = FALSE] : woken \in Signalled(q.empty_cond)}

\* pop_block past its wait loop, and the node it hands out.
PoppedNode(q) == IF isempty(q) THEN Null ELSE Head(q.list)

\* Mutants: nobody is woken; or only when the queue was full before.
AfterPopNoWakeup(q) ==
    {[q EXCEPT !.list         = IF isempty(q) THEN @ ELSE Tail(@),
               !.full_signal  = TRUE,
               !.empty_signal = FALSE]}

AfterPopWhenFull(q) ==
    {[q EXCEPT !.list         = IF isempty(q) THEN @ ELSE Tail(@),
               !.full_signal  = isfull(q),
               !.full_cond    = IF isfull(q) THEN woken ELSE @,
               !.empty_signal = FALSE] : woken \in Signalled(q.full_cond)}

AfterPop(q) ==
    {[q EXCEPT !.list         = IF isempty(q) THEN @ ELSE Tail(@),
               !.full_signal  = TRUE,
               !.full_cond    = woken,
               !.empty_signal = FALSE] : woken \in Signalled(q.full_cond)}

AfterClear(q) ==
    {[q EXCEPT !.list         = <<>>,
               !.full_signal  = TRUE,
               !.full_cond    = woken[1],
               !.empty_signal = TRUE,
               !.empty_cond   = woken[2]] :
        woken \in Signalled(q.full_cond) \X Signalled(q.empty_cond)}

\* A timed wait that expired lowers the flag it was waiting for.
AfterAddTimeout(q) == [q EXCEPT !.full_signal = FALSE]
AfterPopTimeout(q) == [q EXCEPT !.empty_signal = FALSE]

\* Mutant: a producer waits on the other condition.
SleepFullOnEmpty(q, t) == [q EXCEPT !.empty_cond = @ \cup {t}]

\* pthread_cond_wait puts its caller to sleep; a wakeup, called for or
\* spurious, and an expired deadline take it out of the wait set.
SleepFull(q, t)  == [q EXCEPT !.full_cond = @ \cup {t}]
SleepEmpty(q, t) == [q EXCEPT !.empty_cond = @ \cup {t}]
Awake(q, t)      == [q EXCEPT !.full_cond = @ \ {t}, !.empty_cond = @ \ {t}]

\* The queues whose producers are P and whose consumers are C; a context is
\* named by the producer it belongs to.
QueueType(P, C) ==
    [list : Seq(P), full_signal : BOOLEAN, empty_signal : BOOLEAN,
     full_cond : SUBSET P, empty_cond : SUBSET C]

MustWaitToAdd(q) == isfull(q) /\ ~q.full_signal
MustWaitToPop(q) == isempty(q) /\ ~q.empty_signal
=============================================================================
