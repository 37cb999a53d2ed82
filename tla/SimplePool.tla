----------------------------- MODULE SimplePool -----------------------------
(***************************************************************************)
(* MysqlSimplePool without transactions (src/mysql/mysql_simple_pool.cpp): *)
(* connect builds the workers one by one, callers hand their statements    *)
(* to them round robin, stop joins and deletes them one by one.            *)
(*                                                                         *)
(* pool is the deque _s_pool, which only ever grows: stop writes NULL over *)
(* its entries and leaves them there.  Nothing in the code refuses a call: *)
(* every public function can be entered at any time.  Using an entry that  *)
(* is NULL or past the end, a queue that was deleted, the deque while it   *)
(* grows, or a remainder of zero, is undefined behaviour: undefined        *)
(* becomes TRUE and the model goes no further.  misuse remembers what the  *)
(* application did beyond connecting once, calling, and stopping once      *)
(* after the last call; what is true without it is what the properties say *)
(* of the states where it is empty.  A connect that fails is no misuse.    *)
(***************************************************************************)
EXTENDS Worker

CONSTANTS
    ThreadCount,    \* _s_thread_count
    CreateFails,    \* whether building a worker may fail: allocation, pthread_create
    MaxConnects     \* bound: how often the application connects

ASSUME PoolAssumption ==
    /\ ThreadCount \in Nat \ {0}
    /\ CreateFails \in BOOLEAN
    /\ MaxConnects \in Nat

VARIABLES
    pool,           \* _s_pool
    action_idx,     \* _action_idx modulo ThreadCount
    main,           \* the application's thread: "new", "connect", "up", "stop", "join", "down"
    slot,           \* the loop variable of connect and stop
    failed,         \* connect gave up, and the stop that runs is its own
    reply,          \* what the latest call to end returned, and to whom
    misuse, undefined

poolVars == <<pool, action_idx, main, slot, failed, reply, misuse, undefined>>
vars == <<workerVars, callerVars, poolVars>>

Init ==
    /\ WorkerInit
    /\ pool = <<>> /\ action_idx = 0 /\ main = "new" /\ slot = 0 /\ failed = FALSE
    /\ reply = [by |-> Null, what |-> "none"]
    /\ misuse = {} /\ undefined = FALSE

\* _s_pool[i]: the entry, or Null where there is none to use.
Entry(i) == IF i < Len(pool) THEN pool[i + 1] ELSE Null

Undefined == undefined' = TRUE

-----------------------------------------------------------------------------
(* connect and stop, in a thread of the application *)

NobodyCalls == \A c \in Callers : at[c] = "idle"

\* Again without a stop, too: the new workers go behind the old ones.
connect ==
    /\ main \in {"new", "up", "down"}
    /\ Len(pool) < MaxConnects * ThreadCount
    /\ main' = "connect"
    /\ slot' = 0
    /\ misuse' = IF main = "new" THEN misuse ELSE misuse \cup {"reconnected"}
    /\ UNCHANGED <<workerVars, callerVars, pool, action_idx, failed, reply, undefined>>

ConnectThread ==
    /\ main = "connect"
    /\ \E w \in Workers :
           /\ thd[w] = "none"
           /\ Start(w)
           /\ pool' = Append(pool, w)
    /\ slot' = slot + 1
    /\ main' = IF slot + 1 = ThreadCount THEN "up" ELSE "connect"
    /\ UNCHANGED <<callerVars, action_idx, failed, reply, misuse, undefined>>

\* The code's own cleanup: stop(), which counts to _s_thread_count all the
\* same.  Callers there can be only if somebody called before connect returned.
ConnectFails ==
    /\ CreateFails
    /\ main = "connect"
    /\ main' = "stop"
    /\ slot' = 0
    /\ failed' = TRUE
    /\ misuse' = IF NobodyCalls THEN misuse ELSE misuse \cup {"stopped_in_call"}
    /\ UNCHANGED <<workerVars, callerVars, pool, action_idx, reply, undefined>>

\* A stop before any connect returns at once, _s_thread_count being 0; a second
\* one starts over.
stop ==
    /\ main \in {"up", "down"}
    /\ main' = "stop"
    /\ slot' = 0
    /\ misuse' = misuse \cup (IF main = "down" THEN {"stopped_again"} ELSE {})
                        \cup (IF NobodyCalls THEN {} ELSE {"stopped_in_call"})
    /\ UNCHANGED <<workerVars, callerVars, pool, action_idx, failed, reply, undefined>>

\* Another thread enters connect or stop while one of the two runs: they write
\* the deque, its entries and the thread ids without a lock.
ConnectOrStopRaces ==
    /\ main \in {"connect", "stop", "join"}
    /\ misuse' = misuse \cup {"raced"}
    /\ Undefined
    /\ UNCHANGED <<workerVars, callerVars, pool, action_idx, main, slot, failed, reply>>

StopThread ==
    /\ main = "stop"
    /\ IF Entry(slot) = Null
       THEN Undefined /\ UNCHANGED <<status, main>>
       ELSE /\ status' = [status EXCEPT ![Entry(slot)] = 0]
            /\ main' = "join"
            /\ UNCHANGED undefined
    /\ UNCHANGED <<queue, thd, ctx, callerVars, pool, action_idx, slot, failed, reply, misuse>>

\* Mutant: stop counts one entry too far.
JoinThreadOnePast ==
    LET w == Entry(slot) IN
    /\ main = "join"
    /\ thd[w] = "ended"
    /\ thd' = [thd EXCEPT ![w] = "none"]
    /\ queue' = [queue EXCEPT ![w] = NewQueue]
    /\ pool' = [pool EXCEPT ![slot + 1] = Null]
    /\ slot' = slot + 1
    /\ main' = IF slot = ThreadCount THEN "down" ELSE "stop"
    /\ UNCHANGED <<status, ctx, callerVars, action_idx, failed, reply, misuse, undefined>>

\* pthread_join returns; the queue and the MyThread are deleted.
JoinThread ==
    LET w == Entry(slot) IN
    /\ main = "join"
    /\ thd[w] = "ended"
    /\ thd' = [thd EXCEPT ![w] = "none"]
    /\ queue' = [queue EXCEPT ![w] = NewQueue]
    /\ pool' = [pool EXCEPT ![slot + 1] = Null]
    /\ slot' = slot + 1
    /\ main' = IF slot + 1 = ThreadCount THEN "down" ELSE "stop"
    /\ UNCHANGED <<status, ctx, callerVars, action_idx, failed, reply, misuse, undefined>>

MainStep == ConnectThread \/ ConnectFails \/ StopThread \/ JoinThread

-----------------------------------------------------------------------------
(* execute, and insert, update and del around it *)

\* fetch_thread picks the next worker; the caller's context is built.  Before
\* connect the count it divides by is 0; while connect runs the deque grows
\* under its hands.
Execute(c) ==
    /\ at[c] = "idle"
    /\ action_idx' = (action_idx + 1) % ThreadCount
    /\ misuse' = IF main = "up" THEN misuse
                 ELSE misuse \cup {IF main \in {"new", "connect"} THEN "called_early"
                                  ELSE "called_late"}
    /\ \/ /\ main \in {"new", "connect"} \/ Entry(action_idx') = Null
          /\ Undefined
          /\ UNCHANGED callerVars
       \/ /\ main # "new" /\ Entry(action_idx') # Null
          /\ NewContext(c, Entry(action_idx'), Tries)
          /\ Goes(c, "add")
          /\ UNCHANGED undefined
    /\ UNCHANGED <<workerVars, pool, main, slot, failed, reply>>

\* The worker whose queue the caller is about to touch is deleted.
Deleted(w) == thd[w] = "none"

AddTask(c) ==
    /\ at[c] \in {"add", "blocked"}
    /\ IF Deleted(to[c])
       THEN Undefined /\ UNCHANGED <<workerVars, callerVars>>
       ELSE (AddContext(c, "refused") \/ AddSleep(c)) /\ UNCHANGED undefined
    /\ UNCHANGED <<pool, action_idx, main, slot, failed, reply, misuse>>

\* Only a result with status 0 gives a row count.
Return(c) ==
    /\ at[c] = "refused" \/ LatchOpen(c)
    /\ Goes(c, "idle")
    /\ reply' = [by |-> c, what |-> IF result[c] = "ok" THEN "rows" ELSE "-1"]
    /\ DropContext(c)
    /\ UNCHANGED workerVars
    /\ UNCHANGED <<pool, action_idx, main, slot, failed, misuse, undefined>>

Next ==
    /\ ~undefined
    /\ \/ \E w \in Workers : WorkerStep(w) /\ UNCHANGED poolVars
       \/ \E c \in Callers : Execute(c) \/ AddTask(c) \/ Return(c)
       \/ connect \/ stop \/ MainStep \/ ConnectOrStopRaces

Spec == Init /\ [][Next]_vars

\* Threads run and clocks tick; nobody has to call, connect or stop, and a
\* worker need not fail to be built.
Fairness ==
    /\ \A w \in Workers : WF_vars(~undefined /\ WorkerStep(w) /\ UNCHANGED poolVars)
    /\ \A c \in Callers : WF_vars(~undefined /\ (AddTask(c) \/ Return(c)))
    /\ WF_vars(~undefined /\ (ConnectThread \/ StopThread \/ JoinThread))

-----------------------------------------------------------------------------
\* A pool that is connected once, called while it is up and stopped once after
\* the last call never uses a missing or deleted worker, with one exception, and
\* this is all of it: a connect that could not build every worker does not return.
\* Its stop() waits for those there are, one by one, and then runs past the end.
\* (Each misuse alone leads to undefined behaviour, and nothing refuses it.)
UndefinedOnlyByMisuseOrCleanup ==
    misuse = {} =>
        /\ undefined => failed /\ main = "stop" /\ slot = Len(pool)
        /\ failed => main \in {"stop", "join"} /\ slot <= Len(pool) /\ Len(pool) < ThreadCount

\* Round robin spreads the calls, but every task it hands to a queue is some
\* waiting caller's, whatever the application does with stop.
TasksHaveCallers == ~undefined => ContextsAlive

\* Calls begin while the pool is up and end before it is stopped.
CallsInTime == misuse \cap {"called_early", "called_late", "stopped_in_call"} = {}

\* No caller that sleeps on its latch was dropped, unless stop deleted its queue.
NobodyDropped == CallsInTime => NobodyForgotten

\* The pool is the abstract service: a statement is tried Tries times at most
\* and not again once it succeeded, and the reply matches the last attempt.
Service == INSTANCE CallService WITH
    phase <- [c \in Callers |->
                IF at[c] = "idle" THEN "idle"
                ELSE IF result[c] \in {"ok", "failed"} THEN result[c]
                ELSE "pending"]

ImplementsCallService == Service!CallSpec

\* A task that was accepted is answered, as long as the application does not
\* stop the pool under its callers.
AcceptedIsAnswered ==
    \A c \in Callers : at[c] = "latch" ~> at[c] = "idle" \/ undefined \/ ~CallsInTime
=============================================================================
