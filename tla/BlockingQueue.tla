---------------------------- MODULE BlockingQueue ----------------------------
(***************************************************************************)
(* Threads calling add_block, pop_block and clear on one Queue<T>          *)
(* (src/mysql/fqueue.hpp).  A call is at most three critical sections: the *)
(* one it enters, and after a wait the one it resumes in; between them the *)
(* caller sleeps on a condition variable, and a wakeup only makes it       *)
(* compete for the mutex again.  Producers and consumers whose calls pass  *)
(* a timeout are in Timed.  A producer adds its own name: MysqlSimplePool  *)
(* adds the address of the context on the caller's own stack.              *)
(***************************************************************************)
EXTENDS QueueOps, Integers

CONSTANTS
    Producers,      \* threads that call add_block
    Consumers,      \* threads that call pop_block
    Timed,          \* those whose timeout_mills is not zero
    Clearers,       \* producers that may also call clear
    Alloc           \* outcomes of the node's allocation in add_tail

ASSUME ThreadsAssumption ==
    /\ Producers \cap Consumers = {}
    /\ Null \notin Producers \cup Consumers
    /\ Timed \subseteq Producers \cup Consumers
    /\ Clearers \subseteq Producers
    /\ Alloc \subseteq BOOLEAN

VARIABLES
    q,      \* the queue
    pc,     \* where each thread is: "idle", "wait" or "expired"
    ret     \* what the latest call to end returned

vars == <<q, pc, ret>>

Threads == Producers \cup Consumers

Return(t, code, node) == [by |-> t, code |-> code, node |-> node]

Init ==
    /\ q = NewQueue
    /\ pc = [t \in Threads |-> "idle"]
    /\ ret = Return(Null, 0, Null)

Goto(t, where) == pc' = [pc EXCEPT ![t] = where]

\* A thread in its wait loop that no longer sleeps.
Contending(t) == pc[t] = "wait" /\ t \notin q.full_cond \cup q.empty_cond

-----------------------------------------------------------------------------
(* add_block *)

FinishAdd(p) ==
    \E alloc \in Alloc :
        LET stored == ~isfull(q) /\ alloc IN
        /\ q' \in AfterAdd(q, p, stored)
        /\ Goto(p, "idle")
        /\ ret' = Return(p, IF stored THEN 0 ELSE -1, Null)

AddNow(p)    == pc[p] = "idle" /\ ~MustWaitToAdd(q) /\ FinishAdd(p)
AddResume(p) == Contending(p) /\ q.full_signal /\ FinishAdd(p)

AddWait(p) ==
    /\ \/ pc[p] = "idle" /\ MustWaitToAdd(q)
       \/ Contending(p) /\ ~q.full_signal
    /\ q' = SleepFull(q, p)
    /\ Goto(p, "wait")
    /\ UNCHANGED ret

AddGiveUp(p) ==
    /\ pc[p] = "expired"
    /\ q' = AfterAddTimeout(q)
    /\ Goto(p, "idle")
    /\ ret' = Return(p, 1, Null)

-----------------------------------------------------------------------------
(* pop_block *)

FinishPop(c) ==
    /\ q' \in AfterPop(q)
    /\ Goto(c, "idle")
    /\ ret' = Return(c, 0, PoppedNode(q))

PopNow(c)    == pc[c] = "idle" /\ ~MustWaitToPop(q) /\ FinishPop(c)
PopResume(c) == Contending(c) /\ q.empty_signal /\ FinishPop(c)

PopWait(c) ==
    /\ \/ pc[c] = "idle" /\ MustWaitToPop(q)
       \/ Contending(c) /\ ~q.empty_signal
    /\ q' = SleepEmpty(q, c)
    /\ Goto(c, "wait")
    /\ UNCHANGED ret

PopGiveUp(c) ==
    /\ pc[c] = "expired"
    /\ q' = AfterPopTimeout(q)
    /\ Goto(c, "idle")
    /\ ret' = Return(c, 1, Null)

-----------------------------------------------------------------------------
(* clear, the clock, and wakeups nobody asked for *)

Clear(p) ==
    /\ p \in Clearers
    /\ pc[p] = "idle"
    /\ q' \in AfterClear(q)
    /\ UNCHANGED <<pc, ret>>

Asleep(t) == t \in q.full_cond \cup q.empty_cond

Expire(t) ==
    /\ t \in Timed
    /\ Asleep(t)
    /\ q' = Awake(q, t)
    /\ Goto(t, "expired")
    /\ UNCHANGED ret

SpuriousWakeup(t) ==
    /\ Asleep(t)
    /\ q' = Awake(q, t)
    /\ UNCHANGED <<pc, ret>>

Producing(p) == AddNow(p) \/ AddResume(p) \/ AddWait(p) \/ AddGiveUp(p)
Consuming(c) == PopNow(c) \/ PopResume(c) \/ PopWait(c) \/ PopGiveUp(c)

Next ==
    \/ \E p \in Producers : Producing(p) \/ Clear(p)
    \/ \E c \in Consumers : Consuming(c)
    \/ \E t \in Threads : Expire(t) \/ SpuriousWakeup(t)

Spec == Init /\ [][Next]_vars

-----------------------------------------------------------------------------
TypeOK ==
    /\ q \in QueueType(Producers, Consumers)
    /\ pc \in [Threads -> {"idle", "wait", "expired"}]
    /\ ret \in [by : Threads \cup {Null}, code : {-1, 0, 1}, node : Producers \cup {Null}]

\* A raised full_signal means room: the only thing that ends a producer's
\* wait is the flag, so this is what keeps a woken add from being refused
\* (fqueue.hpp:82) although it waited for room, through timeouts, clears and
\* producers that slip in between the wakeup and the waker's return.
FullSignalMeansRoom == q.full_signal => ~isfull(q)

\* The queue never holds more than its constructor was told.
Bounded == Len(q.list) <= MaxSize

\* The consumers are never all asleep beside a task, or with a wakeup pending:
\* whatever an expired wait did to empty_signal before (fqueue.hpp:125), and
\* although a consumer that was not asleep may take the flag another was woken
\* for, which then sleeps again beside a second task (fqueue.hpp:115).  With
\* the one consumer of a worker's queue: while it sleeps there is nothing for
\* it, so no task waits for the three second timeout.
SleepersHaveNothing ==
    Consumers # {} /\ Consumers \subseteq q.empty_cond => q.list = <<>> /\ ~q.empty_signal

\* Of the producers that wait for an empty queue, if any, one is awake and the
\* flag lets it in.
EmptyQueueWakesProducer ==
    q.list = <<>> /\ (\E p \in Producers : pc[p] = "wait")
        => q.full_signal /\ \E p \in Producers : Contending(p)

\* A pop wakes one producer and a third may take the place before it runs
\* (fqueue.hpp:65-67, 137-138); the producer it was meant for then sleeps
\* again beside a queue with room.  Only an add that timed out or got no memory
\* leaves it at that, by lowering the flag somebody else was woken for
\* (fqueue.hpp:75, 85).
RoomTakenOnlyByRefusal ==
    [][EmptyQueueWakesProducer =>
          EmptyQueueWakesProducer' \/ (ret'.by \in Producers /\ ret'.code # 0)]_vars

\* Producers are not locked out: either there are moments again and again at
\* which none of them waits, or adds keep succeeding.  (A single producer may
\* starve: the mutex favours nobody.)
NoLockout ==
    \/ []<>(\A p \in Producers : pc[p] # "wait")
    \/ []<><<\E p \in Producers : ret' = Return(p, 0, Null)>>_vars

\* The calls take effect as those of the bounded FIFO in BoundedQueue do.
Abstract == INSTANCE BoundedQueue WITH
    items <- q.list, nudged <- (q.empty_signal /\ q.list = <<>>)

ImplementsBoundedQueue == Abstract!AbsSpec
=============================================================================
