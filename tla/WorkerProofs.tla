----------------------------- MODULE WorkerProofs -----------------------------
(* What the worker threads and the callers' add_block and latch do to the    *)
(* contexts that travel between them, for any number of workers and callers: *)
(* the lemmas that the proofs about SimplePool and Transactions share.       *)
EXTENDS Worker, TLAPS

-------------------------------------------------------------------------------
(* What the critical sections of QueueOps do to a worker's queue: the facts  *)
(* of BlockingQueueProofs, whose variables are not the workers'.             *)

\* A signal wakes at most one thread, so nobody joins the wait set by it.
LEMMA SignalledShrinks ==
    ASSUME NEW W, NEW V \in Signalled(W)
    PROVE  V \subseteq W
  BY DEF Signalled

\* A new queue is empty, lowers both flags and has nobody waiting.
LEMMA NewQueueFacts ==
    ASSUME NEW P, NEW C
    PROVE  /\ NewQueue \in QueueType(P, C)
           /\ NewQueue.list = <<>> /\ ~NewQueue.full_signal /\ ~NewQueue.empty_signal
  BY DEF NewQueue, QueueType

\* add_block's last critical section (fqueue.hpp:82-88).
LEMMA AddFacts ==
    ASSUME NEW P, NEW C, NEW fq \in QueueType(P, C), NEW v \in P,
           NEW stored \in BOOLEAN, NEW r \in AfterAdd(fq, v, stored)
    PROVE  /\ r \in QueueType(P, C)
           /\ r.list = IF stored THEN Append(fq.list, v) ELSE fq.list
           /\ ~r.full_signal /\ r.empty_signal
           /\ r.full_cond = fq.full_cond
           /\ r.empty_cond \in Signalled(fq.empty_cond)
  <1>1. PICK woken \in Signalled(fq.empty_cond) :
            r = [fq EXCEPT !.list         = IF stored THEN Append(@, v) ELSE @,
                           !.empty_signal = TRUE,
                           !.empty_cond   = woken,
                           !.full_signal  = FALSE]
    BY DEF AfterAdd
  <1>2. woken \subseteq C
    BY SignalledShrinks DEF QueueType
  <1> DEFINE kept == IF stored THEN Append(fq.list, v) ELSE fq.list
  <1>3. kept \in Seq(P)
    BY DEF QueueType
  <1>4. r = [list |-> kept, full_signal |-> FALSE, empty_signal |-> TRUE,
             full_cond |-> fq.full_cond, empty_cond |-> woken]
    BY <1>1 DEF QueueType
  <1> QED
    BY <1>2, <1>3, <1>4 DEF QueueType

\* pop_block's last critical section (fqueue.hpp:135-141).
LEMMA PopFacts ==
    ASSUME NEW P, NEW C, NEW fq \in QueueType(P, C), NEW r \in AfterPop(fq)
    PROVE  /\ r \in QueueType(P, C)
           /\ r.list = IF isempty(fq) THEN fq.list ELSE Tail(fq.list)
           /\ r.full_signal /\ ~r.empty_signal
           /\ r.full_cond \in Signalled(fq.full_cond)
           /\ r.empty_cond = fq.empty_cond
  <1>1. PICK woken \in Signalled(fq.full_cond) :
            r = [fq EXCEPT !.list         = IF isempty(fq) THEN @ ELSE Tail(@),
                           !.full_signal  = TRUE,
                           !.full_cond    = woken,
                           !.empty_signal = FALSE]
    BY DEF AfterPop
  <1>2. woken \subseteq P
    BY SignalledShrinks DEF QueueType
  <1> DEFINE rest == IF isempty(fq) THEN fq.list ELSE Tail(fq.list)
  <1>3. rest \in Seq(P)
    BY DEF QueueType, isempty
  <1>4. r = [list |-> rest, full_signal |-> TRUE, empty_signal |-> FALSE,
             full_cond |-> woken, empty_cond |-> fq.empty_cond]
    BY <1>1 DEF QueueType
  <1> QED
    BY <1>2, <1>3, <1>4 DEF QueueType

\* clear (fqueue.hpp:157-170).
LEMMA ClearFacts ==
    ASSUME NEW P, NEW C, NEW fq \in QueueType(P, C), NEW r \in AfterClear(fq)
    PROVE  /\ r \in QueueType(P, C)
           /\ r.list = <<>> /\ r.full_signal /\ r.empty_signal
           /\ r.full_cond \in Signalled(fq.full_cond)
           /\ r.empty_cond \in Signalled(fq.empty_cond)
  <1>1. PICK woken \in Signalled(fq.full_cond) \X Signalled(fq.empty_cond) :
            r = [fq EXCEPT !.list         = <<>>,
                           !.full_signal  = TRUE,
                           !.full_cond    = woken[1],
                           !.empty_signal = TRUE,
                           !.empty_cond   = woken[2]]
    BY DEF AfterClear
  <1>2. woken[1] \subseteq P /\ woken[2] \subseteq C
    BY SignalledShrinks DEF QueueType
  <1>3. r = [list |-> <<>>, full_signal |-> TRUE, empty_signal |-> TRUE,
             full_cond |-> woken[1], empty_cond |-> woken[2]]
    BY <1>1 DEF QueueType
  <1> QED
    BY <1>2, <1>3 DEF QueueType

\* The steps that only move threads between sleeping and contending, and the
\* expired waits, touch one field each.
LEMMA WaitFacts ==
    ASSUME NEW P, NEW C, NEW fq \in QueueType(P, C), NEW t
    PROVE  /\ t \in P => SleepFull(fq, t) \in QueueType(P, C)
           /\ t \in C => SleepEmpty(fq, t) \in QueueType(P, C)
           /\ Awake(fq, t) \in QueueType(P, C)
           /\ AfterAddTimeout(fq) \in QueueType(P, C)
           /\ AfterPopTimeout(fq) \in QueueType(P, C)
  BY DEF QueueType, SleepFull, SleepEmpty, Awake, AfterAddTimeout, AfterPopTimeout

LEMMA WaitLeavesList ==
    ASSUME NEW P, NEW C, NEW fq \in QueueType(P, C), NEW t
    PROVE  /\ SleepFull(fq, t).list = fq.list
           /\ SleepFull(fq, t).full_signal = fq.full_signal
           /\ SleepFull(fq, t).empty_signal = fq.empty_signal
           /\ SleepEmpty(fq, t).list = fq.list
           /\ SleepEmpty(fq, t).full_signal = fq.full_signal
           /\ SleepEmpty(fq, t).empty_signal = fq.empty_signal
           /\ Awake(fq, t).list = fq.list
           /\ Awake(fq, t).full_signal = fq.full_signal
           /\ Awake(fq, t).empty_signal = fq.empty_signal
           /\ AfterAddTimeout(fq).list = fq.list
           /\ ~AfterAddTimeout(fq).full_signal
           /\ AfterAddTimeout(fq).empty_signal = fq.empty_signal
           /\ AfterPopTimeout(fq).list = fq.list
           /\ AfterPopTimeout(fq).full_signal = fq.full_signal
           /\ ~AfterPopTimeout(fq).empty_signal
  BY DEF QueueType, SleepFull, SleepEmpty, Awake, AfterAddTimeout, AfterPopTimeout

LEMMA WaitSets ==
    ASSUME NEW P, NEW C, NEW fq \in QueueType(P, C), NEW t
    PROVE  /\ SleepFull(fq, t).full_cond = fq.full_cond \cup {t}
           /\ SleepFull(fq, t).empty_cond = fq.empty_cond
           /\ SleepEmpty(fq, t).full_cond = fq.full_cond
           /\ SleepEmpty(fq, t).empty_cond = fq.empty_cond \cup {t}
           /\ Awake(fq, t).full_cond = fq.full_cond \ {t}
           /\ Awake(fq, t).empty_cond = fq.empty_cond \ {t}
           /\ AfterAddTimeout(fq).full_cond = fq.full_cond
           /\ AfterAddTimeout(fq).empty_cond = fq.empty_cond
           /\ AfterPopTimeout(fq).full_cond = fq.full_cond
           /\ AfterPopTimeout(fq).empty_cond = fq.empty_cond
  BY DEF QueueType, SleepFull, SleepEmpty, Awake, AfterAddTimeout, AfterPopTimeout

-------------------------------------------------------------------------------
InHand == {"serve", "query", "count", "unlock"}
Running == {"test", "mark", "pop", "wait", "expired", "close", "ended"} \cup InHand
Done == {"ok", "failed"}

\* Where the callers of SimplePool and Transactions are.
Calling == {"idle", "add", "blocked", "latch", "refused", "found", "clear", "join", "erase"}

WorkersType ==
    /\ queue \in [Workers -> QueueType(Callers, Workers)]
    /\ status \in [Workers -> 0..2]
    /\ thd \in [Workers -> Running \cup {"none"}]
    /\ ctx \in [Workers -> Callers \cup {Null}]

CallersType ==
    /\ at \in [Callers -> Calling]
    /\ to \in [Callers -> Workers \cup {Null}]
    /\ latch \in [Callers -> BOOLEAN]
    /\ result \in [Callers -> {"null", "fresh"} \cup Done]
    /\ left \in [Callers -> Nat]

Waits(c, w)  == at[c] = "latch" /\ to[c] = w
Untouched(c) == ~latch[c] /\ result[c] = "null" /\ left[c] > 0

\* No attempt follows the one the result is of.
Finished(c) == result[c] = "ok" \/ (result[c] = "failed" /\ left[c] = 0)

\* A context in w's queue: its caller waits for w, nobody has touched it, and
\* it is nowhere else.
Queued(w) ==
    \A i \in DOMAIN queue[w].list :
        /\ Waits(queue[w].list[i], w)
        /\ Untouched(queue[w].list[i])
        /\ queue[w].list[i] # ctx[w]
        /\ \A j \in DOMAIN queue[w].list : queue[w].list[j] = queue[w].list[i] => j = i

\* The context w has popped is as far as w is.
Served(w) ==
    /\ ctx[w] = Null <=> thd[w] \notin InHand
    /\ ctx[w] # Null =>
          /\ Waits(ctx[w], w)
          /\ thd[w] = "serve"  => Untouched(ctx[w])
          /\ thd[w] = "query"  => /\ ~latch[ctx[w]] /\ left[ctx[w]] > 0
                               /\ result[ctx[w]] \in {"fresh", "failed"}
          /\ thd[w] = "count"  => ~latch[ctx[w]] /\ Finished(ctx[w])
          /\ thd[w] = "unlock" => latch[ctx[w]] /\ Finished(ctx[w])

\* An open latch means a finished result, or no memory for one.
Answered(c) ==
    at[c] = "latch" /\ latch[c] =>
        Finished(c) \/ (result[c] = "null" /\ FALSE \in ResultAlloc)

\* A caller with a context to hand over, or refused.
Handing(c) == at[c] \in {"add", "blocked", "refused"} => to[c] \in Workers /\ Untouched(c)

QueueBounds(w) ==
    /\ Len(queue[w].list) <= MaxSize
    /\ thd[w] = "none" => queue[w].list = <<>>

\* Nobody sleeps on empty_cond but the worker, in its wait.
Sleeps(w) ==
    /\ queue[w].empty_cond \subseteq {w}
    /\ w \in queue[w].empty_cond => thd[w] = "wait"

WorkerInv ==
    /\ WorkersType
    /\ CallersType
    /\ \A w \in Workers : Sleeps(w)
    /\ \A w \in Workers : Queued(w)
    /\ \A w \in Workers : Served(w)
    /\ \A w \in Workers : QueueBounds(w)
    /\ \A c \in Callers : Answered(c)
    /\ \A c \in Callers : Handing(c)

\* c's context is in its worker's queue or hands.
Kept(c) ==
    /\ to[c] \in Workers
    /\ \/ ctx[to[c]] = c
       \/ \E i \in DOMAIN queue[to[c]].list : queue[to[c]].list[i] = c

Remembered(c) == at[c] = "latch" /\ ~latch[c] => Kept(c)

USE WorkerAssumption, MaxSizeAssumption

\* The invariant says what ContextsAlive says ...
LEMMA InvContextsAlive == WorkerInv => ContextsAlive
  <1> SUFFICES ASSUME WorkerInv, NEW c \in Callers, NEW p \in Places(c)
               PROVE  at[c] = "latch" /\ to[c] = p[1] /\ Places(c) = {p}
    BY DEF ContextsAlive
  <1>a. \A w \in Workers : queue[w].list \in Seq(Callers)
    BY DEF WorkerInv, WorkersType, QueueType
  <1>1. ASSUME NEW q \in Places(c)
        PROVE  /\ q[1] \in Workers /\ q = <<q[1], q[2]>>
               /\ \/ q[2] = 0 /\ ctx[q[1]] = c
                  \/ /\ q[2] \in DOMAIN queue[q[1]].list /\ queue[q[1]].list[q[2]] = c
                     /\ q[2] # 0
    BY <1>a DEF Places
  <1>2. ASSUME NEW q \in Places(c)
        PROVE  at[c] = "latch" /\ to[c] = q[1]
    BY <1>1 DEF WorkerInv, Queued, Served, Waits
  <1>3. ASSUME NEW q \in Places(c)
        PROVE  q = p
    <2>1. q[1] = p[1]
      BY <1>2
    <2>2. q[2] = p[2]
      BY <1>1, <2>1 DEF WorkerInv, Queued
    <2> QED
      BY <1>1, <2>1, <2>2
  <1> QED
    BY <1>2, <1>3

\* ... ResultsFinished ...
LEMMA InvResultsFinished == WorkerInv => ResultsFinished
  BY DEF WorkerInv, Answered, Finished, ResultsFinished, LatchOpen

\* ... and, of a caller that is remembered, NobodyForgotten.
LEMMA KeptHasPlace ==
    ASSUME WorkerInv, NEW c \in Callers, Kept(c)
    PROVE  Places(c) # {}
  <1>a. queue[to[c]].list \in Seq(Callers) /\ Len(queue[to[c]].list) <= MaxSize
    BY DEF WorkerInv, WorkersType, QueueType, QueueBounds, Kept
  <1>1. CASE ctx[to[c]] = c
    <2>1. <<to[c], 0>> \in Places(c)
      BY <1>1 DEF Places, Kept
    <2> QED
      BY <2>1
  <1>2. CASE \E i \in DOMAIN queue[to[c]].list : queue[to[c]].list[i] = c
    <2>1. PICK i \in DOMAIN queue[to[c]].list : queue[to[c]].list[i] = c
      BY <1>2
    <2>2. i \in 1..MaxSize
      BY <1>a, <2>1
    <2>3. <<to[c], i>> \in Places(c)
      BY <2>1, <2>2 DEF Places, Kept
    <2> QED
      BY <2>3
  <1> QED
    BY <1>1, <1>2 DEF Kept

-----------------------------------------------------------------------------
(* The steps *)

LEMMA InitInv == WorkerInit => WorkerInv
  <1> SUFFICES ASSUME WorkerInit PROVE WorkerInv
    OBVIOUS
  <1>1. WorkersType
    BY NewQueueFacts DEF WorkerInit, WorkersType
  <1>2. CallersType
    BY DEF WorkerInit, CallersType, Calling
  <1>3. \A w \in Workers : Queued(w) /\ Served(w) /\ QueueBounds(w) /\ Sleeps(w)
    BY DEF WorkerInit, Queued, Served, QueueBounds, Sleeps, NewQueue, InHand
  <1>4. \A c \in Callers : Answered(c) /\ Handing(c)
    BY DEF WorkerInit, Answered, Handing
  <1> QED
    BY <1>1, <1>2, <1>3, <1>4 DEF WorkerInv

\* A caller no worker can have anything of.
Away(c) == at[c] # "latch" \/ (latch[c] /\ \A w \in Workers : ctx[w] # c)

LEMMA OpenIsAway ==
    ASSUME WorkerInv, NEW c \in Callers, LatchOpen(c)
    PROVE  Away(c)
  BY DEF WorkerInv, WorkersType, Served, Untouched, LatchOpen, Away, InHand

Still(c) ==
    /\ at'[c] = at[c] /\ to'[c] = to[c] /\ latch'[c] = latch[c] /\ result'[c] = result[c]
    /\ left'[c] = left[c]

\* What does not hand a context over: callers that are away stay so, no worker
\* gets or lets go of a context, a queue may be emptied but not changed.
LEMMA QuietStep ==
    ASSUME WorkerInv, WorkersType', CallersType',
           \A c \in Callers : Still(c) \/ (Away(c) /\ at'[c] # "latch" /\ Handing(c)'),
           ctx' = ctx,
           \A w \in Workers : Sleeps(w)',
           \A w \in Workers : queue'[w].list = queue[w].list \/ queue'[w].list = <<>>,
           \A w \in Workers :
               \/ thd'[w] = thd[w]
               \/ /\ thd[w] \notin InHand /\ thd'[w] \notin InHand
                  /\ thd'[w] = "none" => queue'[w].list = <<>>
    PROVE  WorkerInv'
  <1>1. ASSUME NEW w \in Workers, NEW c \in Callers, ctx[w] = c
        PROVE  Still(c)
    <2>1. at[c] = "latch"
      BY <1>1 DEF WorkerInv, Served, Waits
    <2> QED
      BY <1>1, <2>1 DEF Away
  <1>2. ASSUME NEW w \in Workers, NEW i \in DOMAIN queue[w].list
        PROVE  queue[w].list[i] \in Callers /\ Still(queue[w].list[i])
    <2>1. queue[w].list[i] \in Callers
      BY DEF WorkerInv, WorkersType, QueueType
    <2>2. at[queue[w].list[i]] = "latch" /\ ~latch[queue[w].list[i]]
      BY DEF WorkerInv, Queued, Waits, Untouched
    <2> QED
      BY <2>1, <2>2 DEF Away
  <1>3. ASSUME NEW w \in Workers
        PROVE  Queued(w)'
    BY <1>2 DEF WorkerInv, Queued, Waits, Untouched, Still
  <1>4. ASSUME NEW w \in Workers
        PROVE  Served(w)'
    <2>1. ctx[w] \in Callers \cup {Null}
      BY DEF WorkerInv, WorkersType
    <2>2. thd'[w] \in InHand <=> thd[w] \in InHand
      OBVIOUS
    <2>3. thd[w] \in InHand => thd'[w] = thd[w]
      OBVIOUS
    <2> QED
      BY <1>1, <2>1, <2>2, <2>3 DEF WorkerInv, Served, Waits, Untouched, Finished, Still, InHand
  <1>5. ASSUME NEW w \in Workers
        PROVE  QueueBounds(w)'
    BY DEF WorkerInv, QueueBounds
  <1>6. ASSUME NEW c \in Callers
        PROVE  Answered(c)'
    BY DEF WorkerInv, Answered, Finished, Still
  <1>7. ASSUME NEW c \in Callers
        PROVE  Handing(c)'
    BY DEF WorkerInv, Handing, Untouched, Still
  <1> QED
    BY <1>3, <1>4, <1>5, <1>6, <1>7 DEF WorkerInv

\* pop_block hands the head of w's queue to w.
LEMMA PopKeepsInv ==
    ASSUME WorkerInv, NEW w \in Workers, Pop(w)
    PROVE  WorkerInv'
  <1>b. queue[w] \in QueueType(Callers, Workers)
    BY DEF WorkerInv, WorkersType
  <1>a. PICK l \in Seq(Callers) : l = queue[w].list
    BY <1>b DEF QueueType
  <1>0. PICK q \in AfterPop(queue[w]) : queue' = [queue EXCEPT ![w] = q]
    BY DEF Pop
  <1>1. /\ q \in QueueType(Callers, Workers)
        /\ q.list = IF l = <<>> THEN l ELSE Tail(l)
    BY <1>a, <1>b, PopFacts DEF isempty
  <1>2. thd[w] \in {"pop", "wait"}
    BY DEF Pop, WorkerAwake
  <1>s. ASSUME NEW v \in Workers
        PROVE  Sleeps(v)'
    <2>1. w \notin queue[w].empty_cond
      BY DEF Pop, WorkerAwake, WorkerInv, Sleeps
    <2>2. queue'[v].empty_cond = queue[v].empty_cond
      BY <1>b, <1>0, PopFacts DEF WorkerInv, WorkersType
    <2>3. v # w => thd'[v] = thd[v]
      BY DEF WorkerInv, WorkersType, Pop, Moves
    <2> QED
      BY <2>1, <2>2, <2>3 DEF WorkerInv, Sleeps
  <1>3. WorkersType'
    BY <1>a, <1>b, <1>0, <1>1 DEF WorkerInv, WorkersType, Pop, Moves, PoppedNode, isempty, Running, InHand
  <1>4. CallersType'
    BY DEF WorkerInv, CallersType, Pop, callerVars
  <1>5. CASE l = <<>>
    <2>1. ctx'[w] = Null /\ thd'[w] = "test" /\ queue'[w].list = <<>>
      BY <1>a, <1>5, <1>0, <1>1 DEF WorkerInv, WorkersType, Pop, Moves, PoppedNode, isempty
    <2>2. ctx[w] = Null
      BY <1>2 DEF WorkerInv, Served, InHand
    <2>3. ctx' = ctx
      BY <2>1, <2>2 DEF Pop, WorkerInv, WorkersType
    <2>4. \A v \in Workers : queue'[v].list = queue[v].list \/ queue'[v].list = <<>>
      BY <1>a, <1>0, <1>1, <1>5 DEF WorkerInv, WorkersType
    <2>5. \A v \in Workers : thd'[v] = thd[v] \/ v = w
      BY DEF Pop, Moves, WorkerInv, WorkersType
    <2>6. \A v \in Workers :
              \/ thd'[v] = thd[v]
              \/ /\ thd[v] \notin InHand /\ thd'[v] \notin InHand
                 /\ thd'[v] = "none" => queue'[v].list = <<>>
      BY <1>2, <2>1, <2>5 DEF InHand
    <2>7. \A c \in Callers : Still(c)
      BY DEF Still, Pop, callerVars
    <2> QED
      BY <1>s, <1>3, <1>4, <2>3, <2>4, <2>6, <2>7, QuietStep
  <1>6. CASE l # <<>>
    <2>0. PICK c \in Callers : c = l[1] /\ 1 \in DOMAIN l
      BY <1>a, <1>6
    <2>1. /\ ctx'[w] = c /\ thd'[w] = "serve" /\ queue'[w].list = Tail(l)
      BY <1>6, <1>a, <2>0, <1>0, <1>1 DEF WorkerInv, WorkersType, Pop, Moves, PoppedNode, isempty
    <2>2. \A v \in Workers \ {w} : ctx'[v] = ctx[v] /\ thd'[v] = thd[v] /\ queue'[v] = queue[v]
      BY <1>0 DEF WorkerInv, WorkersType, Pop, Moves
    <2>3. UNCHANGED callerVars
      BY DEF Pop
    <2>4. /\ DOMAIN Tail(l) = 1 .. Len(l) - 1
          /\ \A i \in DOMAIN Tail(l) : Tail(l)[i] = l[i + 1] /\ i + 1 \in DOMAIN l /\ i + 1 # 1
          /\ Len(Tail(l)) <= Len(l)
      BY <1>a, <1>6
    <2>5. Queued(w)
      BY DEF WorkerInv
    <2>6. Queued(w)'
      <3> SUFFICES ASSUME NEW i \in DOMAIN Tail(l)
                   PROVE  /\ at'[Tail(l)[i]] = "latch" /\ to'[Tail(l)[i]] = w
                          /\ ~latch'[Tail(l)[i]] /\ result'[Tail(l)[i]] = "null"
                          /\ left'[Tail(l)[i]] > 0
                          /\ Tail(l)[i] # c
                          /\ \A j \in DOMAIN Tail(l) : Tail(l)[j] = Tail(l)[i] => j = i
        BY <2>1 DEF Queued, Waits, Untouched
      <3>1. i + 1 \in DOMAIN l /\ Tail(l)[i] = l[i + 1] /\ i + 1 # 1
        BY <2>4
      <3>2. /\ at'[l[i + 1]] = "latch" /\ to'[l[i + 1]] = w
            /\ ~latch'[l[i + 1]] /\ result'[l[i + 1]] = "null"
            /\ left'[l[i + 1]] > 0
        BY <1>a, <2>3, <2>5, <3>1 DEF Queued, Waits, Untouched, callerVars
      <3>3. l[i + 1] # c
        BY <1>a, <2>0, <2>5, <3>1 DEF Queued
      <3>4. ASSUME NEW j \in DOMAIN Tail(l), Tail(l)[j] = Tail(l)[i]
            PROVE  j = i
        <4>1. j + 1 = i + 1
          BY <1>a, <2>4, <2>5, <3>1, <3>4 DEF Queued
        <4> QED
          BY <4>1, <2>4, <1>a
      <3> QED
        BY <3>1, <3>2, <3>3, <3>4
    <2>7. ASSUME NEW v \in Workers \ {w}
          PROVE  Queued(v)'
      BY <2>2, <2>3 DEF WorkerInv, Queued, Waits, Untouched, callerVars
    <2>8. ASSUME NEW v \in Workers
          PROVE  Served(v)'
      <3>1. CASE v = w
        <4>1. at'[c] = "latch" /\ to'[c] = w /\ Untouched(c)'
          BY <1>a, <2>0, <2>3, <2>5 DEF Queued, Waits, Untouched, callerVars
        <4> QED
          BY <2>1, <3>1, <4>1 DEF Served, InHand, Waits, Untouched
      <3>2. CASE v # w
        BY <2>2, <2>3, <3>2 DEF WorkerInv, Served, Waits, Untouched, Finished, callerVars
      <3> QED
        BY <3>1, <3>2
    <2>9. ASSUME NEW v \in Workers
          PROVE  QueueBounds(v)'
      <3>1. CASE v = w
        <4>1. Len(l) <= MaxSize
          BY <1>a DEF WorkerInv, QueueBounds
        <4>2. Len(Tail(l)) <= MaxSize
          BY <4>1, <2>4, <1>a, <1>6
        <4> QED
          BY <2>1, <4>2, <3>1 DEF QueueBounds
      <3>2. CASE v # w
        BY <2>2, <3>2 DEF WorkerInv, QueueBounds
      <3> QED
        BY <3>1, <3>2
    <2>10. \A d \in Callers : Answered(d)' /\ Handing(d)'
      BY <2>3 DEF WorkerInv, Answered, Handing, Untouched, Finished, callerVars
    <2> QED
      BY <1>s, <1>3, <1>4, <2>6, <2>7, <2>8, <2>9, <2>10 DEF WorkerInv
  <1> QED
    BY <1>5, <1>6

\* A worker with a context in its hands works on that one alone.
LEMMA HandStep ==
    ASSUME WorkerInv, WorkersType', CallersType',
           NEW w \in Workers, NEW c \in Callers, ctx[w] = c,
           UNCHANGED <<queue, at, to>>,
           \A v \in Workers \ {w} : ctx'[v] = ctx[v] /\ thd'[v] = thd[v],
           \A d \in Callers \ {c} : latch'[d] = latch[d] /\ result'[d] = result[d] /\ left'[d] = left[d],
           ctx'[w] \in {c, Null}, thd'[w] # "none",
           Served(w)', Answered(c)'
    PROVE  WorkerInv'
  <1>1. Waits(c, w)
    BY DEF WorkerInv, Served
  <1>2. ASSUME NEW v \in Workers
        PROVE  Queued(v)'
    <2>1. ASSUME NEW i \in DOMAIN queue[v].list
          PROVE  queue[v].list[i] \in Callers \ {c}
      <3>1. queue[v].list[i] \in Callers
        BY DEF WorkerInv, WorkersType, QueueType
      <3>2. CASE v = w
        BY <3>1, <3>2 DEF WorkerInv, Queued
      <3>3. CASE v # w
        BY <3>1, <3>3, <1>1 DEF WorkerInv, Queued, Waits
      <3> QED
        BY <3>2, <3>3
    <2>2. \A i \in DOMAIN queue[v].list : queue[v].list[i] # ctx'[v]
      BY <2>1 DEF WorkerInv, Queued
    <2> QED
      BY <2>1, <2>2 DEF WorkerInv, Queued, Waits, Untouched
  <1>3. ASSUME NEW v \in Workers \ {w}
        PROVE  Served(v)'
    <2>1. ctx[v] # c
      BY <1>1 DEF WorkerInv, Served, Waits
    <2>2. ctx[v] \in Callers \cup {Null}
      BY DEF WorkerInv, WorkersType
    <2> QED
      BY <2>1, <2>2 DEF WorkerInv, Served, Waits, Untouched, Finished
  <1>4. ASSUME NEW v \in Workers
        PROVE  QueueBounds(v)'
    BY DEF WorkerInv, QueueBounds
  <1>5. ASSUME NEW d \in Callers \ {c}
        PROVE  Answered(d)'
    BY DEF WorkerInv, Answered, Finished
  <1>6. ASSUME NEW v \in Workers
        PROVE  Sleeps(v)'
    <2>1. thd[w] # "wait"
      BY DEF WorkerInv, Served, InHand
    <2> QED
      BY <2>1 DEF WorkerInv, Sleeps
  <1>7. ASSUME NEW d \in Callers
        PROVE  Handing(d)'
    BY <1>1 DEF WorkerInv, Waits, Handing, Untouched
  <1> QED
    BY <1>2, <1>3, <1>4, <1>5, <1>6, <1>7 DEF WorkerInv

\* The InnerResult is there, or is not.
LEMMA NewResultKeepsInv ==
    ASSUME WorkerInv, NEW w \in Workers, NewResult(w)
    PROVE  WorkerInv'
  <1>1. PICK c \in Callers : ctx[w] = c /\ Waits(c, w) /\ Untouched(c)
    BY DEF NewResult, WorkerInv, WorkersType, Served, InHand
  <1>2. /\ thd'[w] = "query" /\ result'[c] = "fresh" /\ ctx' = ctx
        /\ \A v \in Workers \ {w} : thd'[v] = thd[v]
        /\ \A d \in Callers \ {c} : result'[d] = result[d]
    BY <1>1 DEF NewResult, Moves, WorkerInv, WorkersType, CallersType
  <1>3. WorkersType' /\ CallersType'
    BY <1>1 DEF NewResult, Moves, WorkerInv, WorkersType, CallersType, Running, InHand
  <1>4. UNCHANGED <<queue, at, to, latch, left>>
    BY DEF NewResult
  <1>5. Served(w)'
    BY <1>1, <1>2, <1>4 DEF Served, Waits, Untouched, InHand
  <1>6. Answered(c)'
    BY <1>1, <1>4 DEF Answered, Untouched
  <1> QED
    BY <1>1, <1>2, <1>3, <1>4, <1>5, <1>6, HandStep

LEMMA NoResultKeepsInv ==
    ASSUME WorkerInv, NEW w \in Workers, NoResult(w)
    PROVE  WorkerInv'
  <1>1. PICK c \in Callers : ctx[w] = c /\ Waits(c, w) /\ Untouched(c)
    BY DEF NoResult, WorkerInv, WorkersType, Served, InHand
  <1>2. /\ thd'[w] = "close" /\ ctx'[w] = Null
        /\ \A v \in Workers \ {w} : ctx'[v] = ctx[v] /\ thd'[v] = thd[v]
        /\ \A d \in Callers \ {c} : latch'[d] = latch[d]
    BY <1>1 DEF NoResult, Moves, WorkerInv, WorkersType, CallersType
  <1>3. WorkersType' /\ CallersType'
    BY <1>1 DEF NoResult, Moves, WorkerInv, WorkersType, CallersType, Running, InHand
  <1>4. UNCHANGED <<queue, at, to, result, left>>
    BY DEF NoResult
  <1>5. Served(w)'
    BY <1>2 DEF Served, InHand
  <1>6. Answered(c)'
    BY <1>1, <1>4 DEF NoResult, Answered, Untouched
  <1> QED
    BY <1>1, <1>2, <1>3, <1>4, <1>5, <1>6, HandStep

\* One attempt: it succeeds, it was the last one, or another follows.
LEMMA RunQueryKeepsInv ==
    ASSUME WorkerInv, NEW w \in Workers, RunQuery(w)
    PROVE  WorkerInv'
  <1>1. PICK c \in Callers : ctx[w] = c /\ Waits(c, w) /\ ~latch[c] /\ left[c] \in Nat \ {0}
    BY DEF RunQuery, WorkerInv, WorkersType, CallersType, Served, InHand
  <1>2. /\ left'[c] = left[c] - 1 /\ ctx' = ctx
        /\ \A v \in Workers \ {w} : thd'[v] = thd[v]
        /\ \A d \in Callers \ {c} : result'[d] = result[d] /\ left'[d] = left[d]
    BY <1>1 DEF RunQuery, Moves, WorkerInv, WorkersType, CallersType
  <1>3. \/ result'[c] = "ok" /\ thd'[w] = "count"
        \/ result'[c] = "failed" /\ left[c] = 1 /\ thd'[w] = "count"
        \/ result'[c] = "failed" /\ left[c] # 1 /\ thd'[w] = "query"
    BY <1>1 DEF RunQuery, Moves, WorkerInv, WorkersType, CallersType
  <1>4. left' \in [Callers -> Nat]
    BY <1>1 DEF RunQuery, WorkerInv, CallersType
  <1>5. WorkersType' /\ CallersType'
    BY <1>1, <1>4 DEF RunQuery, Moves, WorkerInv, WorkersType, CallersType, Running, InHand, Done
  <1>6. UNCHANGED <<queue, at, to, latch>>
    BY DEF RunQuery
  <1>7. /\ thd'[w] = "count" => Finished(c)'
        /\ thd'[w] = "query" => left'[c] > 0 /\ result'[c] = "failed"
        /\ thd'[w] \in {"count", "query"}
    BY <1>1, <1>2, <1>3 DEF Finished
  <1>8. Served(w)'
    BY <1>1, <1>2, <1>6, <1>7 DEF Served, Waits, InHand
  <1>9. Answered(c)'
    BY <1>1, <1>6 DEF Answered
  <1> QED
    BY <1>1, <1>2, <1>5, <1>6, <1>7, <1>8, <1>9, HandStep

\* The latch is raised ...
LEMMA CountDownKeepsInv ==
    ASSUME WorkerInv, NEW w \in Workers, CountDown(w)
    PROVE  WorkerInv'
  <1>1. PICK c \in Callers : ctx[w] = c /\ Waits(c, w) /\ Finished(c)
    BY DEF CountDown, WorkerInv, WorkersType, Served, InHand
  <1>2. /\ thd'[w] = "unlock" /\ latch'[c] /\ ctx' = ctx
        /\ \A v \in Workers \ {w} : thd'[v] = thd[v]
        /\ \A d \in Callers \ {c} : latch'[d] = latch[d]
    BY <1>1 DEF CountDown, Moves, WorkerInv, WorkersType, CallersType
  <1>3. WorkersType' /\ CallersType'
    BY <1>1 DEF CountDown, Moves, WorkerInv, WorkersType, CallersType, Running, InHand
  <1>4. UNCHANGED <<queue, at, to, result, left>>
    BY DEF CountDown
  <1>5. Served(w)'
    BY <1>1, <1>2, <1>4 DEF Served, Waits, Finished, InHand
  <1>6. Answered(c)'
    BY <1>1, <1>4 DEF Answered, Finished
  <1> QED
    BY <1>1, <1>2, <1>3, <1>4, <1>5, <1>6, HandStep

\* ... and its mutex given back.
LEMMA UnlockLatchKeepsInv ==
    ASSUME WorkerInv, NEW w \in Workers, UnlockLatch(w)
    PROVE  WorkerInv'
  <1>1. PICK c \in Callers : ctx[w] = c
    BY DEF UnlockLatch, WorkerInv, WorkersType, Served, InHand
  <1>2. /\ thd'[w] = "test" /\ ctx'[w] = Null
        /\ \A v \in Workers \ {w} : ctx'[v] = ctx[v] /\ thd'[v] = thd[v]
    BY <1>1 DEF UnlockLatch, Moves, WorkerInv, WorkersType, CallersType
  <1>3. WorkersType' /\ CallersType'
    BY <1>1 DEF UnlockLatch, Moves, WorkerInv, WorkersType, CallersType, callerVars, Running
  <1>4. UNCHANGED <<queue, at, to, latch, result, left>>
    BY DEF UnlockLatch, callerVars
  <1>5. Served(w)'
    BY <1>2 DEF Served, InHand
  <1>6. Answered(c)'
    BY <1>1, <1>4 DEF WorkerInv, Answered, Finished
  <1> QED
    BY <1>1, <1>2, <1>3, <1>4, <1>5, <1>6, HandStep

\* A step of w that neither takes nor gives anything, except that it may go to
\* sleep or stop sleeping.
LEMMA IdleStep ==
    ASSUME WorkerInv, NEW w \in Workers, NEW where \in Running \ InHand,
           thd[w] \notin InHand \cup {"none"}, Moves(w, where),
           NEW q \in QueueType(Callers, Workers), queue' = [queue EXCEPT ![w] = q],
           q.list = queue[w].list, q.empty_cond \subseteq {w},
           w \in q.empty_cond => where = "wait",
           status' \in [Workers -> 0..2],
           UNCHANGED <<ctx, callerVars>>
    PROVE  WorkerInv'
  <1>1. /\ thd'[w] = where /\ queue'[w] = q
        /\ \A v \in Workers \ {w} : thd'[v] = thd[v] /\ queue'[v] = queue[v]
    BY DEF WorkerInv, WorkersType, Moves
  <1>2. WorkersType' /\ CallersType'
    BY DEF WorkerInv, WorkersType, CallersType, Moves, callerVars
  <1>3. ASSUME NEW v \in Workers
        PROVE  Sleeps(v)'
    BY <1>1 DEF WorkerInv, Sleeps
  <1>4. \A v \in Workers : queue'[v].list = queue[v].list \/ queue'[v].list = <<>>
    BY <1>1
  <1>5. ASSUME NEW v \in Workers
        PROVE  \/ thd'[v] = thd[v]
               \/ /\ thd[v] \notin InHand /\ thd'[v] \notin InHand
                  /\ thd'[v] = "none" => queue'[v].list = <<>>
    BY <1>1 DEF Running
  <1>6. \A c \in Callers : Still(c) \/ (Away(c) /\ at'[c] # "latch" /\ Handing(c)')
    BY DEF Still, callerVars
  <1> QED
    BY <1>2, <1>3, <1>4, <1>5, <1>6, QuietStep

LEMMA QueueUnchanged ==
    ASSUME WorkerInv, NEW w \in Workers
    PROVE  /\ queue[w] \in QueueType(Callers, Workers)
           /\ queue = [queue EXCEPT ![w] = queue[w]]
           /\ queue[w].empty_cond \subseteq {w}
           /\ w \in queue[w].empty_cond => thd[w] = "wait"
  BY DEF WorkerInv, WorkersType, Sleeps

LEMMA WorkerStepKeepsInv ==
    ASSUME WorkerInv, NEW w \in Workers, WorkerStep(w)
    PROVE  WorkerInv'
  <1>a. /\ queue[w] \in QueueType(Callers, Workers)
        /\ queue = [queue EXCEPT ![w] = queue[w]]
        /\ queue[w].empty_cond \subseteq {w}
        /\ w \in queue[w].empty_cond => thd[w] = "wait"
    BY QueueUnchanged
  <1>b. status \in [Workers -> 0..2]
    BY DEF WorkerInv, WorkersType
  <1>1. CASE TestStatus(w)
    <2> DEFINE where == IF status[w] = 0 THEN "close" ELSE "mark"
    <2>1. /\ thd[w] = "test" /\ Moves(w, where)
          /\ UNCHANGED <<queue, status, ctx, callerVars>>
      BY <1>1 DEF TestStatus
    <2>2. where \in {"close", "mark"}
      OBVIOUS
    <2> QED
      BY <1>a, <1>b, <2>1, <2>2, IdleStep DEF Running, InHand
  <1>2. CASE MarkRunning(w)
    <2>1. status' \in [Workers -> 0..2]
      BY <1>2, <1>b DEF MarkRunning
    <2> QED
      BY <1>2, <1>a, <2>1, IdleStep DEF MarkRunning, Running, InHand
  <1>3. CASE PopSleep(w)
    <2>1. /\ SleepEmpty(queue[w], w) \in QueueType(Callers, Workers)
          /\ SleepEmpty(queue[w], w).list = queue[w].list
          /\ SleepEmpty(queue[w], w).empty_cond \subseteq {w}
      BY <1>a, WaitFacts, WaitLeavesList, WaitSets
    <2>2. /\ thd[w] \in {"pop", "wait"} /\ Moves(w, "wait")
          /\ queue' = [queue EXCEPT ![w] = SleepEmpty(queue[w], w)]
          /\ UNCHANGED <<status, ctx, callerVars>>
      BY <1>3 DEF PopSleep, WorkerAwake
    <2> QED
      BY <1>b, <2>1, <2>2, IdleStep DEF Running, InHand
  <1>4. CASE PopExpire(w)
    <2>1. /\ Awake(queue[w], w) \in QueueType(Callers, Workers)
          /\ Awake(queue[w], w).list = queue[w].list
          /\ Awake(queue[w], w).empty_cond = {}
      BY <1>a, WaitFacts, WaitLeavesList, WaitSets
    <2>2. /\ thd[w] = "wait" /\ Moves(w, "expired")
          /\ queue' = [queue EXCEPT ![w] = Awake(queue[w], w)]
          /\ UNCHANGED <<status, ctx, callerVars>>
      BY <1>4, <1>a DEF PopExpire
    <2> QED
      BY <1>b, <2>1, <2>2, IdleStep DEF Running, InHand
  <1>5. CASE PopTimedOut(w)
    <2>1. /\ AfterPopTimeout(queue[w]) \in QueueType(Callers, Workers)
          /\ AfterPopTimeout(queue[w]).list = queue[w].list
          /\ AfterPopTimeout(queue[w]).empty_cond = queue[w].empty_cond
      BY <1>a, WaitFacts, WaitLeavesList, WaitSets
    <2>2. /\ thd[w] = "expired" /\ Moves(w, "test")
          /\ queue' = [queue EXCEPT ![w] = AfterPopTimeout(queue[w])]
          /\ UNCHANGED <<status, ctx, callerVars>>
      BY <1>5 DEF PopTimedOut
    <2> QED
      BY <1>a, <1>b, <2>1, <2>2, IdleStep DEF Running, InHand
  <1>6. CASE CloseSession(w)
    BY <1>6, <1>a, <1>b, IdleStep DEF CloseSession, Running, InHand
  <1> QED
    BY <1>1, <1>2, <1>3, <1>4, <1>5, <1>6, PopKeepsInv, NewResultKeepsInv, NoResultKeepsInv,
       RunQueryKeepsInv, CountDownKeepsInv, UnlockLatchKeepsInv DEF WorkerStep

LEMMA CallersStill ==
    ASSUME WorkerInv, UNCHANGED callerVars
    PROVE  /\ CallersType'
           /\ \A c \in Callers : Still(c) \/ (Away(c) /\ at'[c] # "latch" /\ Handing(c)')
  <1>1. UNCHANGED <<at, to, latch, result, left>>
    BY DEF callerVars
  <1>2. CallersType'
    BY <1>1 DEF WorkerInv, CallersType
  <1>3. \A c \in Callers : Still(c) \/ (Away(c) /\ at'[c] # "latch" /\ Handing(c)')
    BY <1>1 DEF Still
  <1> QED
    BY <1>2, <1>3

\* A caller that was away goes somewhere.
LEMMA CallerStepKeepsInv ==
    ASSUME WorkerInv, UNCHANGED <<queue, thd, ctx>>, status' \in [Workers -> 0..2], CallersType',
           \A c \in Callers : Still(c) \/ (Away(c) /\ at'[c] # "latch" /\ Handing(c)')
    PROVE  WorkerInv'
  <1>1. WorkersType'
    BY DEF WorkerInv, WorkersType
  <1>2. \A w \in Workers : Sleeps(w)'
    BY DEF WorkerInv, Sleeps
  <1>3. \A w \in Workers : queue'[w].list = queue[w].list \/ queue'[w].list = <<>>
    OBVIOUS
  <1>4. ctx' = ctx /\ \A w \in Workers : thd'[w] = thd[w]
    OBVIOUS
  <1> QED
    BY <1>1, <1>2, <1>3, <1>4, QuietStep

\* Steps elsewhere.
LEMMA WorkerInvStutters ==
    ASSUME WorkerInv, UNCHANGED <<workerVars, callerVars>>
    PROVE  WorkerInv'
  <1>1. UNCHANGED <<queue, thd, ctx, callerVars>> /\ status' \in [Workers -> 0..2]
    BY DEF workerVars, WorkerInv, WorkersType
  <1> QED
    BY <1>1, CallersStill, CallerStepKeepsInv

\* A MyThread is built where none is, perhaps by a caller who was away.
LEMMA StartKeepsInv ==
    ASSUME WorkerInv, NEW w \in Workers, thd[w] = "none", Start(w), CallersType',
           \A c \in Callers : Still(c) \/ (Away(c) /\ at'[c] # "latch" /\ Handing(c)')
    PROVE  WorkerInv'
  <1>1. ctx[w] = Null /\ queue[w].list = <<>>
    BY DEF WorkerInv, Served, QueueBounds, InHand
  <1>2. /\ thd'[w] = "test" /\ queue'[w] = NewQueue
        /\ \A v \in Workers \ {w} : thd'[v] = thd[v] /\ queue'[v] = queue[v]
    BY DEF Start, WorkerInv, WorkersType
  <1>3. ctx' = ctx
    BY <1>1 DEF Start, WorkerInv, WorkersType
  <1>4. WorkersType'
    BY <1>3, NewQueueFacts DEF Start, WorkerInv, WorkersType, Running
  <1>5. \A v \in Workers : Sleeps(v)'
    BY <1>2 DEF WorkerInv, Sleeps, NewQueue
  <1>6. \A v \in Workers : queue'[v].list = queue[v].list \/ queue'[v].list = <<>>
    BY <1>2 DEF NewQueue
  <1>7. ASSUME NEW v \in Workers
        PROVE  \/ thd'[v] = thd[v]
               \/ /\ thd[v] \notin InHand /\ thd'[v] \notin InHand
                  /\ thd'[v] = "none" => queue'[v].list = <<>>
    BY <1>2 DEF InHand
  <1> QED
    BY <1>3, <1>4, <1>5, <1>6, <1>7, QuietStep

\* pthread_join has returned, and the MyThread is deleted with its queue.
LEMMA DeleteKeepsInv ==
    ASSUME WorkerInv, NEW w \in Workers, thd[w] = "ended",
           thd' = [thd EXCEPT ![w] = "none"],
           queue' = [queue EXCEPT ![w] = NewQueue],
           UNCHANGED <<status, ctx>>, CallersType',
           \A c \in Callers : Still(c) \/ (Away(c) /\ at'[c] # "latch" /\ Handing(c)')
    PROVE  WorkerInv'
  <1>1. /\ thd'[w] = "none" /\ queue'[w] = NewQueue
        /\ \A v \in Workers \ {w} : thd'[v] = thd[v] /\ queue'[v] = queue[v]
    BY DEF WorkerInv, WorkersType
  <1>2. WorkersType'
    BY NewQueueFacts DEF WorkerInv, WorkersType
  <1>3. \A v \in Workers : Sleeps(v)'
    BY <1>1 DEF WorkerInv, Sleeps, NewQueue
  <1>4. \A v \in Workers : queue'[v].list = queue[v].list \/ queue'[v].list = <<>>
    BY <1>1 DEF NewQueue
  <1>5. ASSUME NEW v \in Workers
        PROVE  \/ thd'[v] = thd[v]
               \/ /\ thd[v] \notin InHand /\ thd'[v] \notin InHand
                  /\ thd'[v] = "none" => queue'[v].list = <<>>
    BY <1>1 DEF InHand, NewQueue
  <1> QED
    BY <1>2, <1>3, <1>4, <1>5, QuietStep

\* A caller has built its context, or its frame is gone.
LEMMA NewContextFacts ==
    ASSUME WorkerInv, NEW c \in Callers, NEW w \in Workers, NEW tries \in Nat \ {0},
           NewContext(c, w, tries), Goes(c, "add")
    PROVE  /\ at'[c] = "add" /\ to'[c] = w /\ Untouched(c)' /\ left'[c] = tries
           /\ \A d \in Callers \ {c} : Still(d)
           /\ CallersType'
  <1>1. at' \in [Callers -> Calling] /\ to' \in [Callers -> Workers \cup {Null}]
    BY DEF NewContext, Goes, WorkerInv, CallersType, Calling
  <1>2. latch' \in [Callers -> BOOLEAN] /\ ~latch'[c]
    BY DEF NewContext, WorkerInv, CallersType
  <1>3. result' \in [Callers -> {"null", "fresh"} \cup Done] /\ result'[c] = "null"
    BY DEF NewContext, WorkerInv, CallersType
  <1>4. left' \in [Callers -> Nat] /\ left'[c] = tries
    BY DEF NewContext, WorkerInv, CallersType
  <1>5. at'[c] = "add" /\ to'[c] = w
    BY DEF NewContext, Goes, WorkerInv, CallersType
  <1>6. \A d \in Callers \ {c} : Still(d)
    BY DEF NewContext, Goes, WorkerInv, CallersType, Still
  <1> QED
    BY <1>1, <1>2, <1>3, <1>4, <1>5, <1>6 DEF CallersType, Untouched

LEMMA DropContextFacts ==
    ASSUME WorkerInv, NEW c \in Callers, DropContext(c), Goes(c, "idle")
    PROVE  /\ at'[c] = "idle"
           /\ \A d \in Callers \ {c} : Still(d)
           /\ CallersType'
  <1>1. at' \in [Callers -> Calling] /\ to' \in [Callers -> Workers \cup {Null}]
    BY DEF DropContext, Goes, WorkerInv, CallersType, Calling
  <1>2. latch' \in [Callers -> BOOLEAN]
    BY DEF DropContext, WorkerInv, CallersType
  <1>3. result' \in [Callers -> {"null", "fresh"} \cup Done]
    BY DEF DropContext, WorkerInv, CallersType
  <1>4. left' \in [Callers -> Nat]
    BY DEF DropContext, WorkerInv, CallersType
  <1>5. at'[c] = "idle"
    BY DEF Goes, WorkerInv, CallersType
  <1>6. \A d \in Callers \ {c} : Still(d)
    BY DEF DropContext, Goes, WorkerInv, CallersType, Still
  <1> QED
    BY <1>1, <1>2, <1>3, <1>4, <1>5, <1>6 DEF CallersType

-----------------------------------------------------------------------------
(* add_block *)

LEMMA AddSleepKeepsInv ==
    ASSUME WorkerInv, NEW c \in Callers, AddSleep(c)
    PROVE  WorkerInv'
  <1>1. at[c] \in {"add", "blocked"}
    BY DEF AddSleep, CallerAwake
  <1>2. PICK w \in Workers : to[c] = w /\ Untouched(c)
    BY <1>1 DEF WorkerInv, Handing
  <1>3. /\ queue[w] \in QueueType(Callers, Workers)
        /\ queue' = [queue EXCEPT ![w] = SleepFull(queue[w], c)]
        /\ UNCHANGED <<status, thd, ctx, to, latch, result, left>>
        /\ at' = [at EXCEPT ![c] = "blocked"]
    BY <1>2 DEF WorkerInv, WorkersType, AddSleep, Goes
  <1>4. /\ SleepFull(queue[w], c) \in QueueType(Callers, Workers)
        /\ SleepFull(queue[w], c).list = queue[w].list
        /\ SleepFull(queue[w], c).empty_cond = queue[w].empty_cond
    BY <1>3, WaitFacts, WaitLeavesList, WaitSets
  <1>5. WorkersType' /\ CallersType'
    BY <1>3, <1>4 DEF WorkerInv, WorkersType, CallersType, Calling
  <1>6. \A v \in Workers : queue'[v].list = queue[v].list /\ queue'[v].empty_cond = queue[v].empty_cond
    BY <1>3, <1>4 DEF WorkerInv, WorkersType
  <1>7. \A v \in Workers : Sleeps(v)'
    BY <1>3, <1>6 DEF WorkerInv, Sleeps
  <1>8. at'[c] = "blocked" /\ Handing(c)'
    BY <1>2, <1>3 DEF Handing, Untouched, WorkerInv, CallersType
  <1>9. \A d \in Callers : Still(d) \/ (Away(d) /\ at'[d] # "latch" /\ Handing(d)')
    <2> TAKE d \in Callers
    <2>1. CASE d = c
      BY <1>1, <1>8, <2>1 DEF Away
    <2>2. CASE d # c
      BY <1>3, <2>2 DEF Still, WorkerInv, CallersType
    <2> QED
      BY <2>1, <2>2
  <1>10. \A v \in Workers : queue'[v].list = queue[v].list \/ queue'[v].list = <<>>
    BY <1>6
  <1>11. ctx' = ctx /\ \A v \in Workers : thd'[v] = thd[v]
    BY <1>3
  <1> QED
    BY <1>5, <1>7, <1>9, <1>10, <1>11, QuietStep

\* The context becomes the last of its queue, unless it is refused.
Added(c, refused, w) ==
    /\ at[c] \in {"add", "blocked"} /\ to[c] = w /\ Untouched(c)
    /\ queue'[w] \in QueueType(Callers, Workers)
    /\ \A v \in Workers \ {w} : queue'[v] = queue[v]
    /\ queue' \in [Workers -> QueueType(Callers, Workers)]
    /\ queue'[w].empty_cond \subseteq queue[w].empty_cond
    /\ \A d \in Callers \ {c} : at'[d] = at[d]
    /\ at' \in [Callers -> Calling]
    /\ UNCHANGED <<status, thd, ctx, to, latch, result, left>>
    /\ \/ /\ at'[c] = "latch"
          /\ queue'[w].list = Append(queue[w].list, c)
          /\ Len(queue[w].list) < MaxSize
       \/ /\ at'[c] = refused
          /\ queue'[w].list = queue[w].list
          /\ isfull(queue[w]) \/ FALSE \in NodeAlloc

LEMMA AddContextFacts ==
    ASSUME WorkerInv, NEW c \in Callers, NEW refused \in Calling, AddContext(c, refused)
    PROVE  \E w \in Workers : Added(c, refused, w)
  <1>1. at[c] \in {"add", "blocked"}
    BY DEF AddContext, CallerAwake
  <1>2. PICK w \in Workers : to[c] = w /\ Untouched(c)
    BY <1>1 DEF WorkerInv, Handing
  <1>3. PICK alloc \in NodeAlloc :
            LET stored == ~isfull(queue[w]) /\ alloc IN
            /\ \E q \in AfterAdd(queue[w], c, stored) : queue' = [queue EXCEPT ![w] = q]
            /\ at' = [at EXCEPT ![c] = IF stored THEN "latch" ELSE refused]
    BY <1>2 DEF AddContext, Goes
  <1>4. PICK stored \in BOOLEAN : stored <=> ~isfull(queue[w]) /\ alloc
    OBVIOUS
  <1>5. PICK q \in AfterAdd(queue[w], c, stored) : queue' = [queue EXCEPT ![w] = q]
    BY <1>3, <1>4
  <1>6. queue[w] \in QueueType(Callers, Workers)
    BY DEF WorkerInv, WorkersType
  <1>7. /\ q \in QueueType(Callers, Workers)
        /\ q.list = IF stored THEN Append(queue[w].list, c) ELSE queue[w].list
        /\ q.empty_cond \subseteq queue[w].empty_cond
    BY <1>6, AddFacts, SignalledShrinks
  <1>8. /\ queue'[w] = q /\ queue' \in [Workers -> QueueType(Callers, Workers)]
        /\ \A v \in Workers \ {w} : queue'[v] = queue[v]
    BY <1>5, <1>7 DEF WorkerInv, WorkersType
  <1>9. at' = [at EXCEPT ![c] = IF stored THEN "latch" ELSE refused]
    BY <1>3, <1>4
  <1>10. /\ at'[c] = IF stored THEN "latch" ELSE refused
         /\ \A d \in Callers \ {c} : at'[d] = at[d]
         /\ at' \in [Callers -> Calling]
    BY <1>9 DEF WorkerInv, CallersType, Calling
  <1>11. UNCHANGED <<status, thd, ctx, to, latch, result, left>>
    BY DEF AddContext
  <1>12. stored => Len(queue[w].list) < MaxSize
    <2>1. queue[w].list \in Seq(Callers)
      BY <1>6 DEF QueueType
    <2> QED
      BY <2>1, <1>4 DEF isfull
  <1>13. ~stored => isfull(queue[w]) \/ FALSE \in NodeAlloc
    BY <1>4
  <1> QED
    BY <1>1, <1>2, <1>7, <1>8, <1>10, <1>11, <1>12, <1>13 DEF Added

LEMMA AddContextKeepsInv ==
    ASSUME WorkerInv, NEW c \in Callers, NEW refused \in {"refused", "latch"},
           AddContext(c, refused), thd[to[c]] # "none"
    PROVE  WorkerInv'
  <1>0. refused \in Calling
    BY DEF Calling
  <1>1. PICK w \in Workers : Added(c, refused, w)
    BY <1>0, AddContextFacts
  <1> USE DEF Added
  <1>2. WorkersType' /\ CallersType'
    BY <1>1 DEF WorkerInv, WorkersType, CallersType
  <1>3. \A v \in Workers : Sleeps(v)'
    BY <1>1 DEF WorkerInv, Sleeps
  <1>4. PICK l \in Seq(Callers) : l = queue[w].list
    BY DEF WorkerInv, WorkersType, QueueType
  <1>5. PICK m : m = queue'[w].list
    OBVIOUS
  <1>6. /\ \A i \in DOMAIN l : i \in DOMAIN m /\ m[i] = l[i]
        /\ Len(m) <= MaxSize
        /\ \A i \in DOMAIN m : i \in DOMAIN l \/ (i = Len(l) + 1 /\ m[i] = c /\ at'[c] = "latch")
    <2>1. CASE m = Append(l, c) /\ Len(l) < MaxSize /\ at'[c] = "latch"
      BY <2>1, <1>4
    <2>2. CASE m = l
      BY <2>2, <1>4 DEF WorkerInv, QueueBounds
    <2> QED
      BY <2>1, <2>2, <1>1, <1>4, <1>5
  <1>7. \A i \in DOMAIN l : l[i] \in Callers /\ l[i] # c
    BY <1>1, <1>4 DEF WorkerInv, Queued, Waits
  <1>8. \A v \in Workers : ctx[v] # c
    BY <1>1 DEF WorkerInv, Served, Waits
  <1>9. Queued(w)'
    <2> SUFFICES ASSUME NEW i \in DOMAIN m
                 PROVE  /\ at'[m[i]] = "latch" /\ to[m[i]] = w
                        /\ ~latch[m[i]] /\ result[m[i]] = "null" /\ left[m[i]] > 0
                        /\ m[i] # ctx[w]
                        /\ \A j \in DOMAIN m : m[j] = m[i] => j = i
      BY <1>1, <1>5 DEF Queued, Waits, Untouched
    <2>1. CASE i \in DOMAIN l
      <3>1. m[i] = l[i] /\ l[i] \in Callers /\ l[i] # c
        BY <1>6, <1>7, <2>1
      <3>2. /\ at[l[i]] = "latch" /\ to[l[i]] = w /\ ~latch[l[i]] /\ result[l[i]] = "null"
            /\ left[l[i]] > 0 /\ l[i] # ctx[w]
        BY <1>4, <2>1 DEF WorkerInv, Queued, Waits, Untouched
      <3>3. ASSUME NEW j \in DOMAIN m, m[j] = m[i]
            PROVE  j = i
        <4>1. j \in DOMAIN l /\ l[j] = l[i]
          BY <1>6, <3>1, <3>3
        <4> QED
          BY <1>4, <2>1, <4>1 DEF WorkerInv, Queued
      <3> QED
        BY <1>1, <3>1, <3>2, <3>3
    <2>2. CASE i = Len(l) + 1 /\ m[i] = c /\ at'[c] = "latch"
      <3>1. ASSUME NEW j \in DOMAIN m, m[j] = c
            PROVE  j = i
        BY <1>6, <1>7, <2>2, <3>1
      <3> QED
        BY <1>1, <1>8, <2>2, <3>1 DEF Untouched
    <2> QED
      BY <1>6, <2>1, <2>2
  <1>10. ASSUME NEW v \in Workers \ {w}
         PROVE  Queued(v)'
    <2>1. \A i \in DOMAIN queue[v].list : queue[v].list[i] # c
      BY <1>1 DEF WorkerInv, Queued, Waits
    <2>2. \A i \in DOMAIN queue[v].list : queue[v].list[i] \in Callers
      BY DEF WorkerInv, WorkersType, QueueType
    <2> QED
      BY <1>1, <2>1, <2>2 DEF WorkerInv, Queued, Waits, Untouched
  <1>11. ASSUME NEW v \in Workers
         PROVE  Served(v)'
    <2>1. ctx[v] \in Callers \cup {Null}
      BY DEF WorkerInv, WorkersType
    <2> QED
      BY <1>1, <1>8, <2>1 DEF WorkerInv, Served, Waits, Untouched, Finished
  <1>12. ASSUME NEW v \in Workers
         PROVE  QueueBounds(v)'
    <2>1. CASE v = w
      BY <1>1, <1>5, <1>6, <2>1 DEF QueueBounds
    <2>2. CASE v # w
      BY <1>1, <2>2 DEF WorkerInv, QueueBounds
    <2> QED
      BY <2>1, <2>2
  <1>13. ASSUME NEW d \in Callers
         PROVE  Answered(d)' /\ Handing(d)'
    <2>1. CASE d = c
      BY <1>1, <2>1 DEF Answered, Handing, Untouched
    <2>2. CASE d # c
      BY <1>1, <2>2 DEF WorkerInv, Answered, Handing, Untouched, Finished
    <2> QED
      BY <2>1, <2>2
  <1> QED
    BY <1>2, <1>3, <1>9, <1>10, <1>11, <1>12, <1>13 DEF WorkerInv

-----------------------------------------------------------------------------
(* Nobody is forgotten *)

\* Steps that leave a context where it is.
LEMMA RememberedStill ==
    ASSUME NEW c \in Callers, Remembered(c), Still(c),
           to[c] \in Workers => ctx'[to[c]] = ctx[to[c]] /\ queue'[to[c]].list = queue[to[c]].list
    PROVE  Remembered(c)'
  BY DEF Remembered, Kept, Still

LEMMA WorkerStepRemembers ==
    ASSUME WorkerInv, NEW w \in Workers, WorkerStep(w), NEW c \in Callers, Remembered(c)
    PROVE  Remembered(c)'
  <1> SUFFICES ASSUME at[c] = "latch", ~latch'[c]
               PROVE  Kept(c)'
    BY DEF Remembered, WorkerStep, TestStatus, MarkRunning, Pop, PopSleep, PopExpire, PopTimedOut,
           NewResult, NoResult, RunQuery, CountDown, UnlockLatch, CloseSession, callerVars
  <1>1. UNCHANGED <<at, to>>
    BY DEF WorkerStep, TestStatus, MarkRunning, Pop, PopSleep, PopExpire, PopTimedOut,
           NewResult, NoResult, RunQuery, CountDown, UnlockLatch, CloseSession, callerVars
  <1>2. ~latch[c]
    <2>1. CASE NoResult(w) \/ CountDown(w)
      BY <2>1 DEF NoResult, CountDown, WorkerInv, CallersType
    <2>2. CASE ~(NoResult(w) \/ CountDown(w))
      BY <2>2 DEF WorkerStep, TestStatus, MarkRunning, Pop, PopSleep, PopExpire, PopTimedOut,
                  NewResult, RunQuery, UnlockLatch, CloseSession, callerVars
    <2> QED
      BY <2>1, <2>2
  <1>3. PICK v \in Workers : to[c] = v
    BY <1>2 DEF Remembered, Kept
  <1>4. ctx[v] = c \/ \E i \in DOMAIN queue[v].list : queue[v].list[i] = c
    BY <1>2, <1>3 DEF Remembered, Kept
  <1>5. queue[w] \in QueueType(Callers, Workers) /\ queue \in [Workers -> QueueType(Callers, Workers)]
    BY DEF WorkerInv, WorkersType
  <1>6. CASE Pop(w) /\ v = w
    <2>1. PICK q \in AfterPop(queue[w]) : queue' = [queue EXCEPT ![w] = q]
      BY <1>6 DEF Pop
    <2>2. PICK l \in Seq(Callers) : l = queue[w].list
      BY <1>5 DEF QueueType
    <2>3. queue'[w].list = IF l = <<>> THEN l ELSE Tail(l)
      BY <1>5, <2>1, <2>2, PopFacts DEF isempty
    <2>4. ctx[w] = Null
      BY <1>6 DEF Pop, WorkerAwake, WorkerInv, Served, InHand
    <2>5. PICK i \in DOMAIN l : l[i] = c
      BY <1>4, <1>6, <2>2, <2>4
    <2>6. ctx'[w] = l[1]
      BY <1>6, <2>2, <2>5 DEF Pop, PoppedNode, isempty, WorkerInv, WorkersType
    <2>7. CASE i = 1
      BY <1>1, <1>3, <1>6, <2>5, <2>6, <2>7 DEF Kept
    <2>8. CASE i # 1
      <3>1. i - 1 \in DOMAIN Tail(l) /\ Tail(l)[i - 1] = c /\ l # <<>>
        BY <2>2, <2>5, <2>8
      <3> QED
        BY <1>1, <1>3, <1>6, <2>3, <3>1 DEF Kept
    <2> QED
      BY <2>7, <2>8
  <1>7. CASE ~(Pop(w) /\ v = w)
    <2>1. queue'[v].list = queue[v].list
      <3>1. CASE v = w
        <4>1. /\ SleepEmpty(queue[w], w).list = queue[w].list
              /\ Awake(queue[w], w).list = queue[w].list
              /\ AfterPopTimeout(queue[w]).list = queue[w].list
          BY <1>5, WaitLeavesList
        <4> QED
          BY <1>5, <1>7, <3>1, <4>1
             DEF WorkerStep, TestStatus, MarkRunning, PopSleep, PopExpire, PopTimedOut,
                 NewResult, NoResult, RunQuery, CountDown, UnlockLatch, CloseSession
      <3>2. CASE v # w
        BY <1>5, <3>2
           DEF WorkerStep, TestStatus, MarkRunning, Pop, PopSleep, PopExpire, PopTimedOut,
               NewResult, NoResult, RunQuery, CountDown, UnlockLatch, CloseSession
      <3> QED
        BY <3>1, <3>2
    <2>2. ctx[v] = c => ctx'[v] = c
      <3> SUFFICES ASSUME ctx[v] = c PROVE ctx'[v] = c
        OBVIOUS
      <3>1. CASE NoResult(w) \/ UnlockLatch(w)
        <4>1. v # w
          BY <1>2, <3>1 DEF NoResult, UnlockLatch, WorkerInv, Served, CallersType
        <4> QED
          BY <3>1, <4>1 DEF NoResult, UnlockLatch, WorkerInv, WorkersType
      <3>2. CASE ~(NoResult(w) \/ UnlockLatch(w))
        BY <1>7, <3>2
           DEF WorkerStep, TestStatus, MarkRunning, Pop, PopSleep, PopExpire, PopTimedOut,
               NewResult, RunQuery, CountDown, CloseSession, WorkerInv, WorkersType
      <3> QED
        BY <3>1, <3>2
    <2> QED
      BY <1>1, <1>3, <1>4, <2>1, <2>2 DEF Kept
  <1> QED
    BY <1>6, <1>7

LEMMA AddSleepRemembers ==
    ASSUME WorkerInv, NEW c \in Callers, AddSleep(c), NEW d \in Callers, Remembered(d)
    PROVE  Remembered(d)'
  <1>1. at[c] \in {"add", "blocked"}
    BY DEF AddSleep, CallerAwake
  <1>2. PICK w \in Workers : to[c] = w
    BY <1>1 DEF WorkerInv, Handing
  <1>3. SleepFull(queue[w], c).list = queue[w].list
    BY WaitLeavesList DEF WorkerInv, WorkersType
  <1>4. \A v \in Workers : queue'[v].list = queue[v].list /\ ctx'[v] = ctx[v]
    BY <1>2, <1>3 DEF AddSleep, WorkerInv, WorkersType
  <1>5. CASE d = c
    BY <1>5 DEF AddSleep, Goes, Remembered, WorkerInv, CallersType
  <1>6. CASE d # c
    <2>1. Still(d)
      BY <1>6 DEF AddSleep, Goes, Still, WorkerInv, CallersType
    <2> QED
      BY <1>4, <2>1, RememberedStill
  <1> QED
    BY <1>5, <1>6

\* An add forgets nobody, unless its caller goes to its latch with a context
\* that was refused.
LEMMA AddContextRemembers ==
    ASSUME WorkerInv, NEW c \in Callers, NEW refused \in {"refused", "latch"},
           AddContext(c, refused), NEW d \in Callers, Remembered(d),
           d = c => refused = "refused" \/ (~isfull(queue[to[c]]) /\ FALSE \notin NodeAlloc)
    PROVE  Remembered(d)'
  <1>0. refused \in Calling
    BY DEF Calling
  <1>1. PICK w \in Workers : Added(c, refused, w)
    BY <1>0, AddContextFacts
  <1> USE DEF Added
  <1>2. PICK l \in Seq(Callers) : l = queue[w].list
    BY DEF WorkerInv, WorkersType, QueueType
  <1>3. \A i \in DOMAIN l : i \in DOMAIN Append(l, c) /\ Append(l, c)[i] = l[i]
    BY <1>2
  <1>4. Len(l) + 1 \in DOMAIN Append(l, c) /\ Append(l, c)[Len(l) + 1] = c
    BY <1>2
  <1>5. CASE d = c
    BY <1>1, <1>2, <1>4, <1>5 DEF Remembered, Kept
  <1>6. CASE d # c
    <2> SUFFICES ASSUME at[d] = "latch", ~latch[d], Kept(d)
                 PROVE  Kept(d)'
      BY <1>1, <1>6 DEF Remembered
    <2>1. CASE to[d] = w
      <3>1. CASE ctx[w] = d
        BY <1>1, <2>1, <3>1 DEF Kept
      <3>2. CASE ctx[w] # d
        <4>1. PICK i \in DOMAIN l : l[i] = d
          BY <1>2, <2>1, <3>2 DEF Kept
        <4>2. i \in DOMAIN queue'[w].list /\ queue'[w].list[i] = d
          BY <1>1, <1>2, <1>3, <4>1
        <4> QED
          BY <1>1, <2>1, <4>2 DEF Kept
      <3> QED
        BY <3>1, <3>2
    <2>2. CASE to[d] # w
      BY <1>1, <2>2 DEF Kept
    <2> QED
      BY <2>1, <2>2
  <1> QED
    BY <1>5, <1>6

\* Nothing a worker does brings a thread into being or deletes one.
LEMMA WorkerStepLives ==
    ASSUME WorkerInv, NEW w \in Workers, WorkerStep(w)
    PROVE  \A v \in Workers : thd'[v] = "none" <=> thd[v] = "none"
  <1>1. /\ thd \in [Workers -> Running \cup {"none"}]
        /\ w \in queue[w].empty_cond => thd[w] = "wait"
    BY DEF WorkerInv, WorkersType, Sleeps
  <1>2. PICK where \in Running : Moves(w, where) /\ thd[w] # "none"
    <2>1. thd[w] # "none"
      BY <1>1 DEF WorkerStep, TestStatus, MarkRunning, Pop, PopSleep, PopExpire, PopTimedOut,
                  NewResult, NoResult, RunQuery, CountDown, UnlockLatch, CloseSession, WorkerAwake
    <2>2. \E where \in Running : Moves(w, where)
      BY DEF WorkerStep, TestStatus, MarkRunning, Pop, PopSleep, PopExpire, PopTimedOut,
             NewResult, NoResult, RunQuery, CountDown, UnlockLatch, CloseSession, Running, InHand
    <2> QED
      BY <2>1, <2>2
  <1> QED
    BY <1>1, <1>2 DEF Moves, Running, InHand

\* A worker puts nothing into a queue.
LEMMA WorkerStepQueues ==
    ASSUME WorkerInv, NEW w \in Workers, WorkerStep(w), NEW v \in Workers,
           NEW i \in DOMAIN queue'[v].list
    PROVE  \E j \in DOMAIN queue[v].list : queue[v].list[j] = queue'[v].list[i]
  <1>1. queue[w] \in QueueType(Callers, Workers) /\ queue \in [Workers -> QueueType(Callers, Workers)]
    BY DEF WorkerInv, WorkersType
  <1>2. PICK l \in Seq(Callers) : l = queue[w].list
    BY <1>1 DEF QueueType
  <1>3. CASE Pop(w) /\ v = w
    <2>1. PICK q \in AfterPop(queue[w]) : queue' = [queue EXCEPT ![w] = q]
      BY <1>3 DEF Pop
    <2>2. queue'[w].list = IF l = <<>> THEN l ELSE Tail(l)
      BY <1>1, <1>2, <2>1, PopFacts DEF isempty
    <2>3. CASE l = <<>>
      BY <1>2, <1>3, <2>2, <2>3
    <2>4. CASE l # <<>>
      <3>1. i + 1 \in DOMAIN l /\ Tail(l)[i] = l[i + 1]
        BY <1>2, <1>3, <2>2, <2>4
      <3> QED
        BY <1>2, <1>3, <2>2, <2>4, <3>1
    <2> QED
      BY <2>3, <2>4
  <1>4. CASE ~(Pop(w) /\ v = w)
    <2>1. /\ SleepEmpty(queue[w], w).list = queue[w].list
          /\ Awake(queue[w], w).list = queue[w].list
          /\ AfterPopTimeout(queue[w]).list = queue[w].list
      BY <1>1, WaitLeavesList
    <2>2. queue'[v].list = queue[v].list
      BY <1>1, <1>4, <2>1
         DEF WorkerStep, TestStatus, MarkRunning, Pop, PopSleep, PopExpire, PopTimedOut,
             NewResult, NoResult, RunQuery, CountDown, UnlockLatch, CloseSession
    <2> QED
      BY <2>2
  <1> QED
    BY <1>3, <1>4
=============================================================================
