------------------------------- MODULE Worker -------------------------------
(***************************************************************************)
(* The worker threads of MysqlSimplePool (src/mysql/mysql_simple_pool.cpp, *)
(* thd_routine) and the callers that hand them tasks.  A caller puts a     *)
(* MyContext on its own stack, adds its address to the task queue of one   *)
(* worker and sleeps on the latch inside it (flatch.hpp); the worker pops  *)
(* it, allocates the result, executes the statement, counts the latch down *)
(* and loops on its status word.  A context is named by its caller: a      *)
(* caller has one at a time.                                               *)
(*                                                                         *)
(* Reading the status word and writing it back are steps of their own, as  *)
(* in the code: nothing guards the word.  So are the attempts of one       *)
(* statement; whether one succeeds, and what the connection makes of it,   *)
(* is a choice here and the subject of SqlSession.  Spurious wakeups,      *)
(* which send a thread round its loop once more, are left to               *)
(* BlockingQueue.                                                          *)
(*                                                                         *)
(* SimplePool and Transactions add the callers' programs.                  *)
(***************************************************************************)
EXTENDS QueueOps, FiniteSets

CONSTANTS
    Callers,        \* threads that call the pool's public functions
    Workers,        \* MyThread structures
    NodeAlloc,      \* outcomes of allocating a queue node ...
    ResultAlloc,    \* ... and an InnerResult
    Tries           \* how often a statement is tried; BEGIN, COMMIT and ROLLBACK once

ASSUME WorkerAssumption ==
    /\ Callers \cap Workers = {}
    /\ Null \notin Callers \cup Workers
    /\ NodeAlloc \subseteq BOOLEAN
    /\ ResultAlloc \subseteq BOOLEAN
    /\ Tries \in Nat \ {0}

VARIABLES
    queue,      \* MyThread.tasks of each worker
    status,     \* MyThread.status: 0 stop, 1 created, 2 in its loop
    thd,        \* where each worker is in thd_routine; "none" before it exists
                \* and "ended" after it: "test", "mark", "pop", "wait",
                \* "expired", "serve", "query", "count", "unlock", "close"
    ctx,        \* the context it popped, NULL between two
    at,         \* where each caller is in its call; "idle" outside
    to,         \* the worker whose queue it uses
    latch,      \* _signal of the latch in its context
    result,     \* *context.result: "null", or what the InnerResult says:
                \* "fresh", "ok" or "failed"
    left        \* the attempts its statement has left: count in the worker's loop

workerVars == <<queue, status, thd, ctx>>
callerVars == <<at, to, latch, result, left>>

WorkerInit ==
    /\ queue = [w \in Workers |-> NewQueue]
    /\ status = [w \in Workers |-> 0]
    /\ thd = [w \in Workers |-> "none"]
    /\ ctx = [w \in Workers |-> Null]
    /\ at = [c \in Callers |-> "idle"]
    /\ to = [c \in Callers |-> Null]
    /\ latch = [c \in Callers |-> FALSE]
    /\ result = [c \in Callers |-> "null"]
    /\ left = [c \in Callers |-> 0]

\* The MyThread at w is built and its thread created.
Start(w) ==
    /\ queue' = [queue EXCEPT ![w] = NewQueue]
    /\ status' = [status EXCEPT ![w] = 1]
    /\ thd' = [thd EXCEPT ![w] = "test"]
    /\ ctx' = [ctx EXCEPT ![w] = Null]

Moves(w, where) == thd' = [thd EXCEPT ![w] = where]
Goes(c, where)  == at' = [at EXCEPT ![c] = where]

-----------------------------------------------------------------------------
(* thd_routine *)

TestStatus(w) ==
    /\ thd[w] = "test"
    /\ Moves(w, IF status[w] = 0 THEN "close" ELSE "mark")
    /\ UNCHANGED <<queue, status, ctx>>
    /\ UNCHANGED callerVars

MarkRunning(w) ==
    /\ thd[w] = "mark"
    /\ status' = [status EXCEPT ![w] = 2]
    /\ Moves(w, "pop")
    /\ UNCHANGED <<queue, ctx>>
    /\ UNCHANGED callerVars

WorkerAwake(w) == thd[w] = "wait" /\ w \notin queue[w].empty_cond

\* pop_block hands over a context, or NULL after a clear.
Pop(w) ==
    /\ \/ thd[w] = "pop" /\ ~MustWaitToPop(queue[w])
       \/ WorkerAwake(w) /\ queue[w].empty_signal
    /\ \E q \in AfterPop(queue[w]) : queue' = [queue EXCEPT ![w] = q]
    /\ ctx' = [ctx EXCEPT ![w] = PoppedNode(queue[w])]
    /\ Moves(w, IF isempty(queue[w]) THEN "test" ELSE "serve")
    /\ UNCHANGED status
    /\ UNCHANGED callerVars

PopSleep(w) ==
    /\ \/ thd[w] = "pop" /\ MustWaitToPop(queue[w])
       \/ WorkerAwake(w) /\ ~queue[w].empty_signal
    /\ queue' = [queue EXCEPT ![w] = SleepEmpty(@, w)]
    /\ Moves(w, "wait")
    /\ UNCHANGED <<status, ctx>>
    /\ UNCHANGED callerVars

\* The three seconds are over; the mutex is still to be won.
PopExpire(w) ==
    /\ w \in queue[w].empty_cond
    /\ queue' = [queue EXCEPT ![w] = Awake(@, w)]
    /\ Moves(w, "expired")
    /\ UNCHANGED <<status, ctx>>
    /\ UNCHANGED callerVars

\* Mutants: a timeout ends the worker; or sends it back to sleep at once.
PopTimedOutEnds(w) ==
    /\ thd[w] = "expired"
    /\ queue' = [queue EXCEPT ![w] = AfterPopTimeout(@)]
    /\ Moves(w, "close")
    /\ UNCHANGED <<status, ctx>>
    /\ UNCHANGED callerVars

PopTimedOutSleeps(w) ==
    /\ thd[w] = "expired"
    /\ queue' = [queue EXCEPT ![w] = AfterPopTimeout(@)]
    /\ Moves(w, "pop")
    /\ UNCHANGED <<status, ctx>>
    /\ UNCHANGED callerVars

PopTimedOut(w) ==
    /\ thd[w] = "expired"
    /\ queue' = [queue EXCEPT ![w] = AfterPopTimeout(@)]
    /\ Moves(w, "test")
    /\ UNCHANGED <<status, ctx>>
    /\ UNCHANGED callerVars

\* Mutant: the latch is counted down before the statement is executed.
NewResultEarly(w) ==
    /\ thd[w] = "serve"
    /\ TRUE \in ResultAlloc
    /\ result' = [result EXCEPT ![ctx[w]] = "fresh"]
    /\ Moves(w, "count")
    /\ UNCHANGED <<queue, status, ctx, at, to, latch, left>>

\* The InnerResult reaches the caller's pointer before the statement runs.
NewResult(w) ==
    /\ thd[w] = "serve"
    /\ TRUE \in ResultAlloc
    /\ result' = [result EXCEPT ![ctx[w]] = "fresh"]
    /\ Moves(w, "query")
    /\ UNCHANGED <<queue, status, ctx, at, to, latch, left>>

\* Mutant: the caller is left on its latch.
NoResultSilent(w) ==
    /\ thd[w] = "serve"
    /\ FALSE \in ResultAlloc
    /\ ctx' = [ctx EXCEPT ![w] = Null]
    /\ Moves(w, "close")
    /\ UNCHANGED <<queue, status, callerVars>>

\* Without memory for it the worker lets the caller go and leaves its loop,
\* its status word still 2.
NoResult(w) ==
    /\ thd[w] = "serve"
    /\ FALSE \in ResultAlloc
    /\ latch' = [latch EXCEPT ![ctx[w]] = TRUE]
    /\ ctx' = [ctx EXCEPT ![w] = Null]
    /\ Moves(w, "close")
    /\ UNCHANGED <<queue, status, at, to, result, left>>

\* Mutant: the loop counts down before its test, and gives up an attempt early.
RunQueryGivesUp(w) ==
    /\ thd[w] = "query"
    /\ left' = [left EXCEPT ![ctx[w]] = @ - 1]
    /\ \/ result' = [result EXCEPT ![ctx[w]] = "ok"] /\ Moves(w, "count")
       \/ /\ result' = [result EXCEPT ![ctx[w]] = "failed"]
          /\ Moves(w, IF left[ctx[w]] <= 2 THEN "count" ELSE "query")
    /\ UNCHANGED <<queue, status, ctx, at, to, latch>>

\* One call of the client library.  One that fails may have been executed all
\* the same; retry() follows it, and the next attempt if there is one left.
RunQuery(w) ==
    /\ thd[w] = "query"
    /\ left' = [left EXCEPT ![ctx[w]] = @ - 1]
    /\ \/ result' = [result EXCEPT ![ctx[w]] = "ok"] /\ Moves(w, "count")
       \/ /\ result' = [result EXCEPT ![ctx[w]] = "failed"]
          /\ Moves(w, IF left[ctx[w]] = 1 THEN "count" ELSE "query")
    /\ UNCHANGED <<queue, status, ctx, at, to, latch>>

\* count_down takes the latch's mutex, raises _signal, and only its unlock
\* lets the caller see it: until then it is still inside the caller's frame.
CountDown(w) ==
    /\ thd[w] = "count"
    /\ latch' = [latch EXCEPT ![ctx[w]] = TRUE]
    /\ Moves(w, "unlock")
    /\ UNCHANGED <<queue, status, ctx, at, to, result, left>>

UnlockLatch(w) ==
    /\ thd[w] = "unlock"
    /\ ctx' = [ctx EXCEPT ![w] = Null]
    /\ Moves(w, "test")
    /\ UNCHANGED <<queue, status>>
    /\ UNCHANGED callerVars

CloseSession(w) ==
    /\ thd[w] = "close"
    /\ Moves(w, "ended")
    /\ UNCHANGED <<queue, status, ctx>>
    /\ UNCHANGED callerVars

WorkerStep(w) ==
    \/ TestStatus(w) \/ MarkRunning(w) \/ Pop(w) \/ PopSleep(w) \/ PopExpire(w)
    \/ PopTimedOut(w) \/ NewResult(w) \/ NoResult(w) \/ RunQuery(w)
    \/ CountDown(w) \/ UnlockLatch(w) \/ CloseSession(w)

-----------------------------------------------------------------------------
(* What a caller does with a worker: a fresh context, an untimed add_block, *)
(* the latch.                                                               *)

\* The context is built, to be added to w's queue; its text says how often it
\* will be tried.
NewContext(c, w, tries) ==
    /\ to' = [to EXCEPT ![c] = w]
    /\ latch' = [latch EXCEPT ![c] = FALSE]
    /\ result' = [result EXCEPT ![c] = "null"]
    /\ left' = [left EXCEPT ![c] = tries]

\* The caller's frame is gone, the context and the result with it.
DropContext(c) ==
    /\ to' = [to EXCEPT ![c] = Null]
    /\ latch' = [latch EXCEPT ![c] = FALSE]
    /\ result' = [result EXCEPT ![c] = "null"]
    /\ left' = [left EXCEPT ![c] = 0]

CallerAwake(c) == at[c] = "blocked" /\ c \notin queue[to[c]].full_cond

\* refused is where the caller goes when add_block returns -1.
AddContext(c, refused) ==
    /\ \/ at[c] = "add" /\ ~MustWaitToAdd(queue[to[c]])
       \/ CallerAwake(c) /\ queue[to[c]].full_signal
    /\ \E alloc \in NodeAlloc :
           LET stored == ~isfull(queue[to[c]]) /\ alloc IN
           /\ \E q \in AfterAdd(queue[to[c]], c, stored) :
                  queue' = [queue EXCEPT ![to[c]] = q]
           /\ Goes(c, IF stored THEN "latch" ELSE refused)
    /\ UNCHANGED <<status, thd, ctx, to, latch, result, left>>

AddSleep(c) ==
    /\ \/ at[c] = "add" /\ MustWaitToAdd(queue[to[c]])
       \/ CallerAwake(c) /\ ~queue[to[c]].full_signal
    /\ queue' = [queue EXCEPT ![to[c]] = SleepFull(@, c)]
    /\ Goes(c, "blocked")
    /\ UNCHANGED <<status, thd, ctx, to, latch, result, left>>

\* Mutant: the flag is read without the latch's mutex.
LatchOpenUnlocked(c) == at[c] = "latch" /\ latch[c]

\* latch.wait() returns: _signal is up and nobody holds the latch's mutex.
LatchOpen(c) ==
    /\ at[c] = "latch"
    /\ latch[c]
    /\ \A w \in Workers : ~(thd[w] = "unlock" /\ ctx[w] = c)

-----------------------------------------------------------------------------
\* The places a context is in: positions of queues, and workers.
Places(c) ==
    {p \in Workers \X (1..MaxSize) :
        p[2] \in DOMAIN queue[p[1]].list /\ queue[p[1]].list[p[2]] = c}
    \cup {<<w, 0>> : w \in {v \in Workers : ctx[v] = c}}

\* A context dies when its caller returns: as long as it is anywhere in a
\* queue or in a worker's hands its caller is still on its latch, it was
\* given to that worker, and it is there once.
ContextsAlive ==
    \A c \in Callers : \A p \in Places(c) :
        at[c] = "latch" /\ to[c] = p[1] /\ Places(c) = {p}

\* The caller that sees its latch open finds a finished result: not the
\* "fresh" one whose status already reads 0, not the failure of an attempt
\* that another one follows, and no null pointer unless there was no memory
\* for it.
ResultsFinished ==
    \A c \in Callers : LatchOpen(c) =>
        \/ result[c] = "ok"
        \/ result[c] = "failed" /\ left[c] = 0
        \/ result[c] = "null" /\ FALSE \in ResultAlloc

\* A caller that sleeps on its latch has not been forgotten.
NobodyForgotten ==
    \A c \in Callers : at[c] = "latch" /\ ~latch[c] => Places(c) # {}
=============================================================================
