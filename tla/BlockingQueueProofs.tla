------------------------- MODULE BlockingQueueProofs -------------------------
(***************************************************************************)
(* Proofs about BlockingQueue for any number of threads, any capacity and  *)
(* any mix of timeouts, clears, spurious wakeups and failed allocations.   *)
(***************************************************************************)
EXTENDS BlockingQueue, TLAPS

-----------------------------------------------------------------------------
(* What the critical sections of QueueOps do to a queue of the right type. *)

\* A signal wakes at most one thread, so nobody joins the wait set by it.
LEMMA SignalledShrinks ==
    ASSUME NEW W, NEW V \in Signalled(W)
    PROVE  V \subseteq W
  BY DEF Signalled

\* A new queue is empty, lowers both flags and has nobody waiting.
LEMMA NewQueueFacts ==
    ASSUME NEW P, NEW C
    PROVE  /\ NewQueue \in QueueType(P, C)
           /\ NewQueue.list = <<>> /\ ~NewQueue.full_signal /\ ~NewQueue.empty_signal
  BY DEF NewQueue, QueueType

\* add_block's last critical section (fqueue.hpp:82-88).
LEMMA AddFacts ==
    ASSUME NEW P, NEW C, NEW fq \in QueueType(P, C), NEW v \in P,
           NEW stored \in BOOLEAN, NEW r \in AfterAdd(fq, v, stored)
    PROVE  /\ r \in QueueType(P, C)
           /\ r.list = IF stored THEN Append(fq.list, v) ELSE fq.list
           /\ ~r.full_signal /\ r.empty_signal
           /\ r.full_cond = fq.full_cond
           /\ r.empty_cond \in Signalled(fq.empty_cond)
  <1>1. PICK woken \in Signalled(fq.empty_cond) :
            r = [fq EXCEPT !.list         = IF stored THEN Append(@, v) ELSE @,
                           !.empty_signal = TRUE,
                           !.empty_cond   = woken,
                           !.full_signal  = FALSE]
    BY DEF AfterAdd
  <1>2. woken \subseteq C
    BY SignalledShrinks DEF QueueType
  <1> DEFINE kept == IF stored THEN Append(fq.list, v) ELSE fq.list
  <1>3. kept \in Seq(P)
    BY DEF QueueType
  <1>4. r = [list |-> kept, full_signal |-> FALSE, empty_signal |-> TRUE,
             full_cond |-> fq.full_cond, empty_cond |-> woken]
    BY <1>1 DEF QueueType
  <1> QED
    BY <1>2, <1>3, <1>4 DEF QueueType

\* pop_block's last critical section (fqueue.hpp:135-141).
LEMMA PopFacts ==
    ASSUME NEW P, NEW C, NEW fq \in QueueType(P, C), NEW r \in AfterPop(fq)
    PROVE  /\ r \in QueueType(P, C)
           /\ r.list = IF isempty(fq) THEN fq.list ELSE Tail(fq.list)
           /\ r.full_signal /\ ~r.empty_signal
           /\ r.full_cond \in Signalled(fq.full_cond)
           /\ r.empty_cond = fq.empty_cond
  <1>1. PICK woken \in Signalled(fq.full_cond) :
            r = [fq EXCEPT !.list         = IF isempty(fq) THEN @ ELSE Tail(@),
                           !.full_signal  = TRUE,
                           !.full_cond    = woken,
                           !.empty_signal = FALSE]
    BY DEF AfterPop
  <1>2. woken \subseteq P
    BY SignalledShrinks DEF QueueType
  <1> DEFINE left == IF isempty(fq) THEN fq.list ELSE Tail(fq.list)
  <1>3. left \in Seq(P)
    BY DEF QueueType, isempty
  <1>4. r = [list |-> left, full_signal |-> TRUE, empty_signal |-> FALSE,
             full_cond |-> woken, empty_cond |-> fq.empty_cond]
    BY <1>1 DEF QueueType
  <1> QED
    BY <1>2, <1>3, <1>4 DEF QueueType

\* clear (fqueue.hpp:157-170).
LEMMA ClearFacts ==
    ASSUME NEW P, NEW C, NEW fq \in QueueType(P, C), NEW r \in AfterClear(fq)
    PROVE  /\ r \in QueueType(P, C)
           /\ r.list = <<>> /\ r.full_signal /\ r.empty_signal
           /\ r.full_cond \in Signalled(fq.full_cond)
           /\ r.empty_cond \in Signalled(fq.empty_cond)
  <1>1. PICK woken \in Signalled(fq.full_cond) \X Signalled(fq.empty_cond) :
            r = [fq EXCEPT !.list         = <<>>,
                           !.full_signal  = TRUE,
                           !.full_cond    = woken[1],
                           !.empty_signal = TRUE,
                           !.empty_cond   = woken[2]]
    BY DEF AfterClear
  <1>2. woken[1] \subseteq P /\ woken[2] \subseteq C
    BY SignalledShrinks DEF QueueType
  <1>3. r = [list |-> <<>>, full_signal |-> TRUE, empty_signal |-> TRUE,
             full_cond |-> woken[1], empty_cond |-> woken[2]]
    BY <1>1 DEF QueueType
  <1> QED
    BY <1>2, <1>3 DEF QueueType

\* The steps that only move threads between sleeping and contending, and the
\* expired waits, touch one field each.
LEMMA WaitFacts ==
    ASSUME NEW P, NEW C, NEW fq \in QueueType(P, C), NEW t
    PROVE  /\ t \in P => SleepFull(fq, t) \in QueueType(P, C)
           /\ t \in C => SleepEmpty(fq, t) \in QueueType(P, C)
           /\ Awake(fq, t) \in QueueType(P, C)
           /\ AfterAddTimeout(fq) \in QueueType(P, C)
           /\ AfterPopTimeout(fq) \in QueueType(P, C)
  BY DEF QueueType, SleepFull, SleepEmpty, Awake, AfterAddTimeout, AfterPopTimeout

LEMMA WaitLeavesList ==
    ASSUME NEW P, NEW C, NEW fq \in QueueType(P, C), NEW t
    PROVE  /\ SleepFull(fq, t).list = fq.list
           /\ SleepFull(fq, t).full_signal = fq.full_signal
           /\ SleepFull(fq, t).empty_signal = fq.empty_signal
           /\ SleepEmpty(fq, t).list = fq.list
           /\ SleepEmpty(fq, t).full_signal = fq.full_signal
           /\ SleepEmpty(fq, t).empty_signal = fq.empty_signal
           /\ Awake(fq, t).list = fq.list
           /\ Awake(fq, t).full_signal = fq.full_signal
           /\ Awake(fq, t).empty_signal = fq.empty_signal
           /\ AfterAddTimeout(fq).list = fq.list
           /\ ~AfterAddTimeout(fq).full_signal
           /\ AfterAddTimeout(fq).empty_signal = fq.empty_signal
           /\ AfterPopTimeout(fq).list = fq.list
           /\ AfterPopTimeout(fq).full_signal = fq.full_signal
           /\ ~AfterPopTimeout(fq).empty_signal
  BY DEF QueueType, SleepFull, SleepEmpty, Awake, AfterAddTimeout, AfterPopTimeout

LEMMA WaitSets ==
    ASSUME NEW P, NEW C, NEW fq \in QueueType(P, C), NEW t
    PROVE  /\ SleepFull(fq, t).full_cond = fq.full_cond \cup {t}
           /\ SleepFull(fq, t).empty_cond = fq.empty_cond
           /\ SleepEmpty(fq, t).full_cond = fq.full_cond
           /\ SleepEmpty(fq, t).empty_cond = fq.empty_cond \cup {t}
           /\ Awake(fq, t).full_cond = fq.full_cond \ {t}
           /\ Awake(fq, t).empty_cond = fq.empty_cond \ {t}
           /\ AfterAddTimeout(fq).full_cond = fq.full_cond
           /\ AfterAddTimeout(fq).empty_cond = fq.empty_cond
           /\ AfterPopTimeout(fq).full_cond = fq.full_cond
           /\ AfterPopTimeout(fq).empty_cond = fq.empty_cond
  BY DEF QueueType, SleepFull, SleepEmpty, Awake, AfterAddTimeout, AfterPopTimeout

-----------------------------------------------------------------------------
\* The inductive invariant.  That a raised full_signal means room does not
\* survive a pop on its own: the pop raises the flag and takes one element, so
\* there is room after it only because the list was not longer than MaxSize.
Inv == TypeOK /\ Bounded /\ FullSignalMeansRoom

QT == QueueType(Producers, Consumers)

-----------------------------------------------------------------------------
LEMMA InitInv == Init => Inv
  <1> SUFFICES ASSUME Init PROVE Inv
    OBVIOUS
  <1>1. q \in QT /\ q.list = <<>> /\ ~q.full_signal
    BY NewQueueFacts DEF Init, QT
  <1>2. TypeOK
    BY <1>1 DEF Init, TypeOK, QT, Threads, Return
  <1>3. Len(q.list) = 0
    BY <1>1
  <1> QED
    BY <1>1, <1>2, <1>3, MaxSizeAssumption DEF Inv, Bounded, FullSignalMeansRoom

\* What the end of an add_block does, whichever way it was reached.
LEMMA FinishAddInv ==
    ASSUME Inv, NEW p \in Producers, FinishAdd(p)
    PROVE  Inv'
  <1>1. PICK alloc \in Alloc :
            LET stored == ~isfull(q) /\ alloc IN
            /\ q' \in AfterAdd(q, p, stored)
            /\ Goto(p, "idle")
            /\ ret' = Return(p, IF stored THEN 0 ELSE -1, Null)
    BY DEF FinishAdd
  <1> DEFINE stored == ~isfull(q) /\ alloc
  <1>2. q \in QT /\ Len(q.list) \in Nat /\ Len(q.list) <= MaxSize
    BY DEF Inv, TypeOK, Bounded, QT, QueueType
  <1>3. stored \in BOOLEAN /\ (stored => ~isfull(q)) /\ q' \in AfterAdd(q, p, stored)
    BY <1>1
  <1>a. pc' = [pc EXCEPT ![p] = "idle"] /\ ret' = Return(p, IF stored THEN 0 ELSE -1, Null)
    BY <1>1 DEF Goto
  <1> HIDE DEF stored
  <1>4. /\ q' \in QT /\ ~q'.full_signal
        /\ q'.list = IF stored THEN Append(q.list, p) ELSE q.list
    BY <1>2, <1>3, AddFacts DEF QT
  <1>5. Bounded'
    <2>1. CASE stored
      <3>1. Len(q.list) < MaxSize
        BY <2>1, <1>2, <1>3, MaxSizeAssumption DEF isfull
      <3>2. Len(q'.list) = Len(q.list) + 1
        BY <2>1, <1>2, <1>4 DEF QT, QueueType
      <3> QED
        BY <3>1, <3>2, <1>2, MaxSizeAssumption DEF Bounded
    <2>2. CASE ~stored
      BY <2>2, <1>2, <1>4 DEF Bounded
    <2> QED
      BY <2>1, <2>2
  <1>6. TypeOK'
    BY <1>4, <1>a DEF Inv, TypeOK, QT, Return, Threads
  <1> QED
    BY <1>4, <1>5, <1>6 DEF Inv, FullSignalMeansRoom

\* What the end of a pop_block does.
LEMMA FinishPopInv ==
    ASSUME Inv, NEW c \in Consumers, FinishPop(c)
    PROVE  Inv'
  <1>1. q \in QT /\ q.list \in Seq(Producers) /\ Len(q.list) \in Nat /\ Len(q.list) <= MaxSize
    BY DEF Inv, TypeOK, Bounded, QT, QueueType
  <1>2. q' \in QT /\ q'.list = IF isempty(q) THEN q.list ELSE Tail(q.list)
    BY <1>1, PopFacts DEF FinishPop, QT
  <1>3. Len(q'.list) < MaxSize
    <2>1. CASE isempty(q)
      BY <2>1, <1>1, <1>2, MaxSizeAssumption DEF isempty
    <2>2. CASE ~isempty(q)
      <3>1. Len(q'.list) = Len(q.list) - 1
        BY <2>2, <1>1, <1>2 DEF isempty
      <3> QED
        BY <3>1, <1>1, MaxSizeAssumption
    <2> QED
      BY <2>1, <2>2
  <1>4. PoppedNode(q) \in Producers \cup {Null}
    BY <1>1 DEF PoppedNode, isempty
  <1>5. TypeOK'
    BY <1>2, <1>4 DEF FinishPop, Inv, TypeOK, QT, Goto, Return, Threads
  <1>6. q'.list \in Seq(Producers)
    BY <1>2 DEF QT, QueueType
  <1>7. ~isfull(q)'
    BY <1>3, <1>6, MaxSizeAssumption DEF isfull
  <1> QED
    BY <1>3, <1>5, <1>6, <1>7, MaxSizeAssumption DEF Inv, Bounded, FullSignalMeansRoom

\* The steps that leave the list alone and do not raise full_signal.
LEMMA WaitInv ==
    ASSUME Inv, q' \in QT, q'.list = q.list, q'.full_signal => q.full_signal,
           pc' \in [Threads -> {"idle", "wait", "expired"}],
           ret' \in [by : Threads \cup {Null}, code : {-1, 0, 1}, node : Producers \cup {Null}]
    PROVE  Inv'
  BY DEF Inv, TypeOK, Bounded, FullSignalMeansRoom, isfull, QT

LEMMA NextInv == Inv /\ [Next]_vars => Inv'
  <1> SUFFICES ASSUME Inv, [Next]_vars PROVE Inv'
    OBVIOUS
  <1> USE DEF QT
  <1>0. /\ q \in QT
        /\ pc \in [Threads -> {"idle", "wait", "expired"}]
        /\ ret \in [by : Threads \cup {Null}, code : {-1, 0, 1}, node : Producers \cup {Null}]
    BY DEF Inv, TypeOK
  <1>1. ASSUME NEW p \in Producers, AddNow(p) \/ AddResume(p) PROVE Inv'
    BY <1>1, FinishAddInv DEF AddNow, AddResume
  <1>2. ASSUME NEW p \in Producers, AddWait(p) PROVE Inv'
    BY <1>0, <1>2, WaitFacts, WaitLeavesList, WaitInv DEF AddWait, Goto, Threads
  <1>3. ASSUME NEW p \in Producers, AddGiveUp(p) PROVE Inv'
    <2>1. q' \in QT /\ q'.list = q.list /\ ~q'.full_signal
      BY <1>0, <1>3, WaitFacts, WaitLeavesList DEF AddGiveUp
    <2> QED
      BY <1>0, <1>3, <2>1, WaitInv DEF AddGiveUp, Goto, Threads, Return
  <1>4. ASSUME NEW c \in Consumers, PopNow(c) \/ PopResume(c) PROVE Inv'
    BY <1>4, FinishPopInv DEF PopNow, PopResume
  <1>5. ASSUME NEW c \in Consumers, PopWait(c) PROVE Inv'
    BY <1>0, <1>5, WaitFacts, WaitLeavesList, WaitInv DEF PopWait, Goto, Threads
  <1>6. ASSUME NEW c \in Consumers, PopGiveUp(c) PROVE Inv'
    <2>1. q' \in QT /\ q'.list = q.list /\ q'.full_signal = q.full_signal
      BY <1>0, <1>6, WaitFacts, WaitLeavesList DEF PopGiveUp
    <2> QED
      BY <1>0, <1>6, <2>1, WaitInv DEF PopGiveUp, Goto, Threads, Return
  <1>7. ASSUME NEW p \in Producers, Clear(p) PROVE Inv'
    <2>1. q' \in QT /\ q'.list = <<>>
      BY <1>0, <1>7, ClearFacts DEF Clear
    <2>2. Len(q'.list) = 0
      BY <2>1
    <2> QED
      BY <1>0, <1>7, <2>1, <2>2, MaxSizeAssumption
      DEF Clear, Inv, TypeOK, Bounded, FullSignalMeansRoom, isfull
  <1>8. ASSUME NEW t \in Threads, Expire(t) \/ SpuriousWakeup(t) PROVE Inv'
    <2>1. q' \in QT /\ q'.list = q.list /\ q'.full_signal = q.full_signal
      BY <1>0, <1>8, WaitFacts, WaitLeavesList DEF Expire, SpuriousWakeup
    <2> QED
      BY <1>0, <1>8, <2>1, WaitInv DEF Expire, SpuriousWakeup, Goto
  <1>9. CASE UNCHANGED vars
    BY <1>9 DEF vars, Inv, TypeOK, Bounded, FullSignalMeansRoom, isfull
  <1> QED
    BY <1>1, <1>2, <1>3, <1>4, <1>5, <1>6, <1>7, <1>8, <1>9 DEF Next, Producing, Consuming

LEMMA Invariance == Spec => []Inv
  BY InitInv, NextInv, PTL DEF Spec

\* Types are preserved by every call, wait, timeout and clear.
THEOREM TypeCorrect == Spec => []TypeOK
  BY Invariance, PTL DEF Inv

\* A raised full_signal always means room in the list.
THEOREM FullSignalSafe == Spec => []FullSignalMeansRoom
  BY Invariance, PTL DEF Inv

-----------------------------------------------------------------------------
(* The refinement.  Each call that ends is the abstract call of that result; *)
(* going to sleep, waking up and expiring are stutters.                      *)

Nudged == q.empty_signal /\ q.list = <<>>

AbsVarsUnchanged == q'.list = q.list /\ Nudged' = Nudged /\ ret' = ret

LEMMA AbsStutter ==
    ASSUME AbsVarsUnchanged
    PROVE  UNCHANGED Abstract!absVars
  BY DEF AbsVarsUnchanged, Nudged, Abstract!absVars

\* Here the invariant is needed: an add past its wait loop finds room, so the
\* only thing that can fail it is the allocation.
LEMMA FinishAddRefines ==
    ASSUME Inv, NEW p \in Producers, FinishAdd(p), ~MustWaitToAdd(q)
    PROVE  Abstract!Put(p) \/ Abstract!Reject(p)
  <1>1. PICK alloc \in Alloc :
            LET stored == ~isfull(q) /\ alloc IN
            /\ q' \in AfterAdd(q, p, stored)
            /\ Goto(p, "idle")
            /\ ret' = Return(p, IF stored THEN 0 ELSE -1, Null)
    BY DEF FinishAdd
  <1> DEFINE stored == ~isfull(q) /\ alloc
  <1>2. /\ q \in QT /\ q.list \in Seq(Producers)
        /\ Len(q.list) \in Nat /\ Len(q.list) < MaxSize
    BY MaxSizeAssumption
    DEF Inv, TypeOK, QT, QueueType, FullSignalMeansRoom, MustWaitToAdd, isfull
  <1>3. stored \in BOOLEAN /\ q' \in AfterAdd(q, p, stored)
        /\ ret' = Return(p, IF stored THEN 0 ELSE -1, Null)
    BY <1>1
  <1> HIDE DEF stored
  <1>4. /\ q'.empty_signal
        /\ q'.list = IF stored THEN Append(q.list, p) ELSE q.list
    BY <1>2, <1>3, AddFacts DEF QT
  <1>5. CASE stored
    <2>1. q'.list = Append(q.list, p) /\ q'.list # <<>>
      BY <1>2, <1>4, <1>5
    <2> QED
      BY <1>2, <1>3, <1>5, <2>1 DEF Abstract!Put, Abstract!Return, Return
  <1>6. CASE ~stored
    <2>1. q'.list = q.list
      BY <1>4, <1>6
    <2> QED
      BY <1>2, <1>3, <1>4, <1>6, <2>1 DEF Abstract!Reject, Abstract!Return, Return
  <1> QED
    BY <1>3, <1>5, <1>6

LEMMA FinishPopRefines ==
    ASSUME Inv, NEW c \in Consumers, FinishPop(c), ~MustWaitToPop(q)
    PROVE  Abstract!Take(c) \/ Abstract!TakeNothing(c)
  <1>1. q \in QT /\ q.list \in Seq(Producers)
    BY DEF Inv, TypeOK, QT, QueueType
  <1>2. /\ q'.list = IF isempty(q) THEN q.list ELSE Tail(q.list)
        /\ ~q'.empty_signal
        /\ ret' = Return(c, 0, PoppedNode(q))
    BY <1>1, PopFacts DEF FinishPop, QT
  <1>3. CASE isempty(q)
    <2>1. q.list = <<>> /\ q.empty_signal
      BY <1>1, <1>3 DEF isempty, MustWaitToPop
    <2> QED
      BY <1>2, <1>3, <2>1
      DEF Abstract!TakeNothing, Abstract!Return, Return, PoppedNode
  <1>4. CASE ~isempty(q)
    <2>1. q.list # <<>>
      BY <1>1, <1>4 DEF isempty
    <2> QED
      BY <1>2, <1>4, <2>1 DEF Abstract!Take, Abstract!Return, Return, PoppedNode
  <1> QED
    BY <1>3, <1>4

LEMMA NextRefines == Inv /\ [Next]_vars => [Abstract!AbsNext]_(Abstract!absVars)
  <1> SUFFICES ASSUME Inv, [Next]_vars
               PROVE  Abstract!AbsNext \/ UNCHANGED Abstract!absVars
    OBVIOUS
  <1>0. q \in QT
    BY DEF Inv, TypeOK, QT
  <1>1. ASSUME NEW p \in Producers, AddNow(p) \/ AddResume(p) PROVE Abstract!AbsNext
    BY <1>1, FinishAddRefines DEF AddNow, AddResume, MustWaitToAdd, Abstract!AbsNext
  <1>2. ASSUME NEW p \in Producers, AddWait(p) PROVE UNCHANGED Abstract!absVars
    <2> SUFFICES AbsVarsUnchanged
      BY AbsStutter
    <2> QED
      BY <1>0, <1>2, WaitLeavesList DEF AddWait, AbsVarsUnchanged, Nudged, QT
  <1>3. ASSUME NEW p \in Producers, AddGiveUp(p) PROVE Abstract!PutTimedOut(p)
    BY <1>0, <1>3, WaitLeavesList
    DEF AddGiveUp, QT, Abstract!PutTimedOut, Abstract!Return, Return
  <1>4. ASSUME NEW c \in Consumers, PopNow(c) \/ PopResume(c) PROVE Abstract!AbsNext
    BY <1>4, FinishPopRefines DEF PopNow, PopResume, MustWaitToPop, Abstract!AbsNext
  <1>5. ASSUME NEW c \in Consumers, PopWait(c) PROVE UNCHANGED Abstract!absVars
    <2> SUFFICES AbsVarsUnchanged
      BY AbsStutter
    <2> QED
      BY <1>0, <1>5, WaitLeavesList DEF PopWait, AbsVarsUnchanged, Nudged, QT
  <1>6. ASSUME NEW c \in Consumers, PopGiveUp(c) PROVE Abstract!TakeTimedOut(c)
    BY <1>0, <1>6, WaitLeavesList
    DEF PopGiveUp, QT, Abstract!TakeTimedOut, Abstract!Return, Return
  <1>7. ASSUME NEW p \in Producers, Clear(p) PROVE Abstract!Discard
    BY <1>0, <1>7, ClearFacts DEF Clear, QT, Abstract!Discard
  <1>8. ASSUME NEW t \in Threads, Expire(t) \/ SpuriousWakeup(t)
        PROVE  UNCHANGED Abstract!absVars
    <2> SUFFICES AbsVarsUnchanged
      BY AbsStutter
    <2> QED
      BY <1>0, <1>8, WaitLeavesList
      DEF Expire, SpuriousWakeup, AbsVarsUnchanged, Nudged, QT
  <1>9. CASE UNCHANGED vars
    BY <1>9 DEF vars, Abstract!absVars
  <1> QED
    BY <1>1, <1>2, <1>3, <1>4, <1>5, <1>6, <1>7, <1>8, <1>9
    DEF Next, Producing, Consuming, Abstract!AbsNext

\* The flags, wait sets and timeouts of Queue<T> behave as the bounded FIFO: a
\* successful add appends once and within the bound, a pop hands out the
\* oldest element, and -1 never means "full".
THEOREM Refinement == Spec => ImplementsBoundedQueue
  <1>1. Init => Abstract!AbsInit
    BY NewQueueFacts DEF Init, Abstract!AbsInit, Abstract!Return, Return
  <1> QED
    BY <1>1, NextRefines, Invariance, PTL DEF Spec, ImplementsBoundedQueue, Abstract!AbsSpec

-----------------------------------------------------------------------------
(* The consumers are never all asleep beside a task. *)

\* While there is something to pop, or a wakeup pending, some consumer is
\* outside its wait loop, or awake in it with the flag up.  A pop or a give up
\* leaves its own consumer outside; an add or a clear raises the flag and wakes
\* a sleeper; a consumer that sleeps again because the flag was taken leaves
\* behind the one that took it.
AwakeInv ==
    /\ \A c \in q.empty_cond : pc[c] = "wait"
    /\ q.list # <<>> \/ q.empty_signal =>
           \E c \in Consumers : pc[c] # "wait" \/ (q.empty_signal /\ c \notin q.empty_cond)

\* After a signal somebody is awake.
LEMMA SignalLeavesOneAwake ==
    ASSUME Consumers # {}, NEW W \in SUBSET Consumers, NEW V \in Signalled(W)
    PROVE  \E c \in Consumers : c \notin V
  BY DEF Signalled

LEMMA AwakeNext ==
    ASSUME Consumers # {}, Inv, AwakeInv, [Next]_vars
    PROVE  AwakeInv'
  <1> USE DEF AwakeInv, QT
  <1>0. /\ q \in QT /\ q.empty_cond \in SUBSET Consumers
        /\ pc \in [Threads -> {"idle", "wait", "expired"}]
        /\ Producers \cap Consumers = {}
    BY ThreadsAssumption DEF Inv, TypeOK, QueueType
  <1>1. ASSUME NEW p \in Producers, FinishAdd(p) PROVE AwakeInv'
    <2>1. PICK stored \in BOOLEAN : q' \in AfterAdd(q, p, stored)
      BY <1>1 DEF FinishAdd
    <2>2. q'.empty_signal /\ q'.empty_cond \in Signalled(q.empty_cond)
      BY <1>0, <2>1, AddFacts
    <2>3. \A c \in Consumers : pc'[c] = pc[c]
      BY <1>0, <1>1 DEF FinishAdd, Goto, Threads
    <2>4. q'.empty_cond \subseteq q.empty_cond
      BY <2>2, SignalledShrinks
    <2> QED
      BY <1>0, <2>2, <2>3, <2>4, SignalLeavesOneAwake
  <1>2. ASSUME NEW p \in Producers, AddWait(p) \/ AddGiveUp(p) PROVE AwakeInv'
    <2>1. /\ q'.list = q.list /\ q'.empty_signal = q.empty_signal
          /\ q'.empty_cond = q.empty_cond
      BY <1>0, <1>2, WaitLeavesList, WaitSets DEF AddWait, AddGiveUp
    <2>2. \A c \in Consumers : pc'[c] = pc[c]
      BY <1>0, <1>2 DEF AddWait, AddGiveUp, Goto, Threads
    <2> QED
      BY <1>0, <2>1, <2>2
  <1>3. ASSUME NEW c \in Consumers, FinishPop(c), c \notin q.empty_cond PROVE AwakeInv'
    <2>1. /\ q'.empty_cond = q.empty_cond
          /\ pc' = [pc EXCEPT ![c] = "idle"]
      BY <1>0, <1>3, PopFacts DEF FinishPop, Goto
    <2> QED
      BY <1>0, <1>3, <2>1 DEF Threads
  <1>4. ASSUME NEW c \in Consumers, PopWait(c) PROVE AwakeInv'
    <2>1. /\ q'.list = q.list /\ q'.empty_signal = q.empty_signal
          /\ q'.empty_cond = q.empty_cond \cup {c}
          /\ pc' = [pc EXCEPT ![c] = "wait"]
      BY <1>0, <1>4, WaitLeavesList, WaitSets DEF PopWait, Goto
    <2>2. ~q.empty_signal /\ (q.list = <<>> \/ pc[c] = "wait")
      BY <1>0, <1>4 DEF PopWait, Contending, MustWaitToPop, isempty, QueueType
    <2> QED
      BY <1>0, <2>1, <2>2 DEF Threads
  <1>5. ASSUME NEW c \in Consumers, PopGiveUp(c) PROVE AwakeInv'
    <2>1. /\ q'.empty_cond = q.empty_cond
          /\ pc' = [pc EXCEPT ![c] = "idle"] /\ pc[c] = "expired"
      BY <1>0, <1>5, WaitSets DEF PopGiveUp, Goto
    <2> QED
      BY <1>0, <2>1 DEF Threads
  <1>6. ASSUME NEW p \in Producers, Clear(p) PROVE AwakeInv'
    <2>1. /\ q'.empty_signal /\ pc' = pc
          /\ q'.empty_cond \in Signalled(q.empty_cond)
      BY <1>0, <1>6, ClearFacts DEF Clear
    <2>2. q'.empty_cond \subseteq q.empty_cond
      BY <2>1, SignalledShrinks
    <2> QED
      BY <1>0, <2>1, <2>2, SignalLeavesOneAwake
  <1>7. ASSUME NEW t \in Threads, Expire(t) \/ SpuriousWakeup(t) PROVE AwakeInv'
    <2>1. /\ q'.list = q.list /\ q'.empty_signal = q.empty_signal
          /\ q'.empty_cond = q.empty_cond \ {t}
      BY <1>0, <1>7, WaitLeavesList, WaitSets DEF Expire, SpuriousWakeup
    <2>2. \A c \in Consumers : \/ pc'[c] = pc[c]
                               \/ c = t /\ pc'[c] = "expired"
      BY <1>0, <1>7 DEF Expire, SpuriousWakeup, Goto, Threads
    <2> QED
      BY <1>0, <2>1, <2>2
  <1>8. CASE UNCHANGED vars
    BY <1>8 DEF vars
  <1>9. ASSUME NEW c \in Consumers, PopNow(c) \/ PopResume(c) PROVE AwakeInv'
    <2>1. c \notin q.empty_cond
      BY <1>0, <1>9 DEF PopNow, PopResume, Contending
    <2> QED
      BY <1>3, <1>9, <2>1 DEF PopNow, PopResume
  <1> QED
    BY <1>1, <1>2, <1>4, <1>5, <1>6, <1>7, <1>8, <1>9
    DEF Next, Producing, Consuming, AddNow, AddResume

\* However many consumers a queue has, they never all sleep beside a task, or
\* with a wakeup undelivered.
THEOREM SomeConsumerAwake == Spec => []SleepersHaveNothing
  <1>1. CASE Consumers = {}
    <2>1. SleepersHaveNothing
      BY <1>1 DEF SleepersHaveNothing
    <2> QED
      BY <2>1, PTL
  <1>2. CASE Consumers # {}
    <2>1. Init => AwakeInv
      BY NewQueueFacts DEF Init, AwakeInv, NewQueue
    <2>2. Inv /\ AwakeInv /\ [Next]_vars => AwakeInv'
      BY <1>2, AwakeNext
    <2>3. Inv /\ AwakeInv => SleepersHaveNothing
      BY DEF Inv, TypeOK, QueueType, AwakeInv, SleepersHaveNothing
    <2> QED
      BY <2>1, <2>2, <2>3, Invariance, PTL DEF Spec
  <1> QED
    BY <1>1, <1>2
-----------------------------------------------------------------------------
(* A wakeup that a third producer takes is not lost. *)

\* Who sleeps on full_cond is in its wait loop.
Waiting == \A p \in q.full_cond : pc[p] = "wait"

LEMMA WaitingNext ==
    ASSUME Inv, Waiting, [Next]_vars
    PROVE  Waiting'
  <1> USE DEF Waiting, QT
  <1>0. /\ q \in QT /\ q.full_cond \in SUBSET Producers
        /\ pc \in [Threads -> {"idle", "wait", "expired"}]
        /\ Producers \cap Consumers = {}
    BY ThreadsAssumption DEF Inv, TypeOK, QueueType
  <1>1. ASSUME NEW p \in Producers, FinishAdd(p), p \notin q.full_cond PROVE Waiting'
    <2>1. PICK stored \in BOOLEAN : q' \in AfterAdd(q, p, stored)
      BY <1>1 DEF FinishAdd
    <2>2. q'.full_cond = q.full_cond
      BY <1>0, <2>1, AddFacts
    <2> QED
      BY <1>0, <1>1, <2>2 DEF FinishAdd, Goto, Threads
  <1>2. ASSUME NEW p \in Producers, AddNow(p) \/ AddResume(p) PROVE Waiting'
    <2>1. p \notin q.full_cond
      BY <1>0, <1>2 DEF AddNow, AddResume, Contending
    <2> QED
      BY <1>1, <1>2, <2>1 DEF AddNow, AddResume
  <1>3. ASSUME NEW p \in Producers, AddWait(p) PROVE Waiting'
    <2>1. q'.full_cond = q.full_cond \cup {p} /\ pc' = [pc EXCEPT ![p] = "wait"]
      BY <1>0, <1>3, WaitSets DEF AddWait, Goto
    <2> QED
      BY <1>0, <2>1 DEF Threads
  <1>4. ASSUME NEW p \in Producers, AddGiveUp(p) PROVE Waiting'
    <2>1. q'.full_cond = q.full_cond /\ pc' = [pc EXCEPT ![p] = "idle"] /\ pc[p] = "expired"
      BY <1>0, <1>4, WaitSets DEF AddGiveUp, Goto
    <2> QED
      BY <1>0, <2>1 DEF Threads
  <1>5. ASSUME NEW c \in Consumers, Consuming(c) PROVE Waiting'
    <2>1. q'.full_cond \subseteq q.full_cond
      <3>1. CASE FinishPop(c)
        BY <1>0, <3>1, PopFacts, SignalledShrinks DEF FinishPop
      <3>2. CASE PopWait(c) \/ PopGiveUp(c)
        BY <1>0, <3>2, WaitSets DEF PopWait, PopGiveUp
      <3> QED
        BY <1>5, <3>1, <3>2 DEF Consuming, PopNow, PopResume
    <2>2. \A p \in Producers : pc'[p] = pc[p]
      BY <1>0, <1>5 DEF Consuming, PopNow, PopResume, PopWait, PopGiveUp, FinishPop, Goto, Threads
    <2> QED
      BY <1>0, <2>1, <2>2
  <1>6. ASSUME NEW p \in Producers, Clear(p) PROVE Waiting'
    <2>1. q'.full_cond \subseteq q.full_cond /\ pc' = pc
      BY <1>0, <1>6, ClearFacts, SignalledShrinks DEF Clear
    <2> QED
      BY <2>1
  <1>7. ASSUME NEW t \in Threads, Expire(t) \/ SpuriousWakeup(t) PROVE Waiting'
    <2>1. q'.full_cond = q.full_cond \ {t}
      BY <1>0, <1>7, WaitSets DEF Expire, SpuriousWakeup
    <2>2. \A p \in Threads \ {t} : pc'[p] = pc[p]
      BY <1>0, <1>7 DEF Expire, SpuriousWakeup, Goto
    <2> QED
      BY <1>0, <2>1, <2>2 DEF Threads
  <1>8. CASE UNCHANGED vars
    BY <1>8 DEF vars
  <1> QED
    BY <1>2, <1>3, <1>4, <1>5, <1>6, <1>7, <1>8 DEF Next, Producing

\* After a signal to a queue with a producer waiting, one of them is awake.
LEMMA SignalLeavesOneContending ==
    ASSUME Inv, Waiting, pc' \in [Threads -> {"idle", "wait", "expired"}],
           \A p \in Producers : pc'[p] = pc[p],
           q'.full_cond \in Signalled(q.full_cond), q'.empty_cond \subseteq Consumers,
           NEW r \in Producers, pc'[r] = "wait"
    PROVE  \E p \in Producers : Contending(p)'
  <1>1. q.full_cond \in SUBSET Producers /\ Producers \cap Consumers = {}
    BY ThreadsAssumption DEF Inv, TypeOK, QueueType
  <1>2. CASE q.full_cond = {}
    <2>1. q'.full_cond = {}
      BY <1>2 DEF Signalled
    <2> QED
      BY <1>1, <2>1 DEF Contending
  <1>3. CASE q.full_cond # {}
    <2>1. PICK t \in q.full_cond : q'.full_cond = q.full_cond \ {t}
      BY <1>3 DEF Signalled
    <2> QED
      BY <1>1, <2>1 DEF Contending, Waiting
  <1> QED
    BY <1>2, <1>3

\* An add that is not refused leaves something in the queue.
LEMMA AddedOrRefused ==
    ASSUME Inv, NEW p \in Producers, FinishAdd(p)
    PROVE  q'.list # <<>> \/ (ret'.by \in Producers /\ ret'.code # 0)
  <1>1. PICK stored \in BOOLEAN :
            q' \in AfterAdd(q, p, stored) /\ ret' = Return(p, IF stored THEN 0 ELSE -1, Null)
    BY DEF FinishAdd
  <1>2. q \in QT /\ q.list \in Seq(Producers)
    BY DEF Inv, TypeOK, QT, QueueType
  <1>3. q'.list = IF stored THEN Append(q.list, p) ELSE q.list
    BY <1>1, <1>2, AddFacts DEF QT
  <1>4. CASE stored
    <2>1. q'.list = Append(q.list, p)
      BY <1>3, <1>4
    <2>2. Append(q.list, p) # <<>>
      BY <1>2
    <2> QED
      BY <2>1, <2>2
  <1>5. CASE ~stored
    BY <1>1, <1>5 DEF Return
  <1> QED
    BY <1>4, <1>5

\* Unless an add is refused or timed out, an empty queue with a producer
\* waiting for it keeps one awake that the flag lets in, through adds, pops,
\* clears, wakeups stolen and wakeups nobody asked for (fqueue.hpp:65-92,
\* 115-138).
THEOREM WakeupsSurvive == Spec => RoomTakenOnlyByRefusal
  <1>1. ASSUME Inv, Waiting, Next, EmptyQueueWakesProducer,
               ~(ret'.by \in Producers /\ ret'.code # 0)
        PROVE  EmptyQueueWakesProducer'
    <2> SUFFICES ASSUME q'.list = <<>>, NEW r \in Producers, pc'[r] = "wait"
                 PROVE  q'.full_signal /\ \E p \in Producers : Contending(p)'
      BY DEF EmptyQueueWakesProducer
    <2> USE DEF QT
    <2>0. /\ q \in QT /\ q.full_cond \in SUBSET Producers /\ q.empty_cond \in SUBSET Consumers
          /\ pc \in [Threads -> {"idle", "wait", "expired"}]
          /\ Producers \cap Consumers = {}
      BY <1>1, ThreadsAssumption DEF Inv, TypeOK, QueueType
    <2>1. ASSUME NEW p \in Producers, FinishAdd(p) PROVE FALSE
      BY <1>1, <2>1, AddedOrRefused
    <2>2. ASSUME NEW p \in Producers, AddWait(p) PROVE FALSE
      <3>1. q.list = <<>>
        BY <2>0, <2>2, WaitLeavesList DEF AddWait
      <3>2. ~MustWaitToAdd(q)
        BY <3>1, MaxSizeAssumption DEF MustWaitToAdd, isfull
      <3>3. pc[p] = "wait" /\ ~q.full_signal
        BY <2>2, <3>2 DEF AddWait, Contending
      <3> QED
        BY <1>1, <3>1, <3>3 DEF EmptyQueueWakesProducer
    <2>3. ASSUME NEW p \in Producers, AddGiveUp(p) PROVE FALSE
      BY <1>1, <2>3 DEF AddGiveUp, Return
    <2>4. ASSUME NEW c \in Consumers, FinishPop(c)
          PROVE  q'.full_signal /\ \E p \in Producers : Contending(p)'
      <3>1. /\ q'.full_signal /\ q'.full_cond \in Signalled(q.full_cond)
            /\ q'.empty_cond = q.empty_cond
        BY <2>0, <2>4, PopFacts DEF FinishPop
      <3>2. pc' \in [Threads -> {"idle", "wait", "expired"}] /\ \A p \in Producers : pc'[p] = pc[p]
        BY <2>0, <2>4 DEF FinishPop, Goto, Threads
      <3> QED
        BY <1>1, <2>0, <3>1, <3>2, SignalLeavesOneContending
    <2>5. ASSUME NEW p \in Producers, Clear(p)
          PROVE  q'.full_signal /\ \E t \in Producers : Contending(t)'
      <3>1. /\ q'.full_signal /\ q'.full_cond \in Signalled(q.full_cond)
            /\ q'.empty_cond \in Signalled(q.empty_cond) /\ pc' = pc
        BY <2>0, <2>5, ClearFacts DEF Clear
      <3>2. q'.empty_cond \subseteq Consumers
        BY <2>0, <3>1, SignalledShrinks
      <3> QED
        BY <1>1, <2>0, <3>1, <3>2, SignalLeavesOneContending
    \* The rest leaves the list and the flag, and whoever contends.
    <2>6. ASSUME q'.list = q.list, q'.full_signal = q.full_signal, pc[r] = "wait",
                 \A p \in Producers : Contending(p) => Contending(p)'
          PROVE  q'.full_signal /\ \E p \in Producers : Contending(p)'
      BY <1>1, <2>6 DEF EmptyQueueWakesProducer
    <2>7. ASSUME NEW c \in Consumers, PopWait(c) \/ PopGiveUp(c)
          PROVE  q'.full_signal /\ \E p \in Producers : Contending(p)'
      <3>1. /\ q'.list = q.list /\ q'.full_signal = q.full_signal
            /\ q'.full_cond = q.full_cond /\ q'.empty_cond \subseteq q.empty_cond \cup {c}
        BY <2>0, <2>7, WaitLeavesList, WaitSets DEF PopWait, PopGiveUp
      <3>2. \A p \in Producers : pc'[p] = pc[p]
        BY <2>0, <2>7 DEF PopWait, PopGiveUp, Goto, Threads
      <3>3. \A p \in Producers : Contending(p) => Contending(p)'
        BY <2>0, <3>1, <3>2 DEF Contending
      <3> QED
        BY <2>6, <3>1, <3>2, <3>3
    <2>8. ASSUME NEW t \in Threads, Expire(t) \/ SpuriousWakeup(t)
          PROVE  q'.full_signal /\ \E p \in Producers : Contending(p)'
      <3>1. /\ q'.list = q.list /\ q'.full_signal = q.full_signal
            /\ q'.full_cond = q.full_cond \ {t} /\ q'.empty_cond = q.empty_cond \ {t}
            /\ t \in q.full_cond \cup q.empty_cond
        BY <2>0, <2>8, WaitLeavesList, WaitSets DEF Expire, SpuriousWakeup, Asleep
      <3>2. \A p \in Threads : pc'[p] = pc[p] \/ (p = t /\ pc'[p] = "expired")
        BY <2>0, <2>8 DEF Expire, SpuriousWakeup, Goto
      <3>3. \A p \in Producers : Contending(p) => Contending(p)'
        BY <3>1, <3>2 DEF Contending, Threads
      <3>4. pc[r] = "wait"
        BY <3>2 DEF Threads
      <3> QED
        BY <2>6, <3>1, <3>3, <3>4
    <2> QED
      BY <1>1, <2>1, <2>2, <2>3, <2>4, <2>5, <2>7, <2>8
      DEF Next, Producing, Consuming, AddNow, AddResume, PopNow, PopResume
  <1>2. ASSUME Inv, Waiting, [Next]_vars
        PROVE  [EmptyQueueWakesProducer =>
                   EmptyQueueWakesProducer' \/ (ret'.by \in Producers /\ ret'.code # 0)]_vars
    BY <1>1, <1>2
  <1>3. Init => Waiting
    BY DEF Init, Waiting, NewQueue
  <1> QED
    BY <1>2, <1>3, WaitingNext, Invariance, PTL DEF Spec, RoomTakenOnlyByRefusal
=============================================================================
