---------------------------- MODULE Transactions ----------------------------
(***************************************************************************)
(* Transactions of MysqlSimplePool (src/mysql/mysql_simple_pool.cpp):      *)
(* begin starts a worker of its own and enters it in _s_tx_pool under a    *)
(* fresh id, tx_execute sends it statements, commit and rollback (tx_end)  *)
(* send it the last one, stop it, join it, delete it and only then take    *)
(* the entry out.                                                          *)
(*                                                                         *)
(* tx_execute and tx_end look the entry up under _s_tx_lock and follow the *)
(* iterator after the unlock: finding and following are two steps.         *)
(* Following an iterator that was erased, using a worker that was deleted, *)
(* joining a thread twice and reading a result that is not there are       *)
(* undefined behaviour.  Any caller may use any transaction it knows the   *)
(* SqlTx of: its own, and those whose begin returned to another.           *)
(***************************************************************************)
EXTENDS Worker

CONSTANT
    MaxTx       \* bound: how many transactions are begun

ASSUME TransactionsAssumption == MaxTx \in Nat

VARIABLES
    tx_pool,    \* _s_tx_pool: transaction ids to workers; Null where there is no entry
    tx_idx,     \* _action_idx as begin uses it
    call,       \* what each caller is doing: the function, the transaction and,
                \* history, whether another caller was inside it meanwhile
    deleted,    \* the transactions whose MyThread tx_end has deleted
    undefined   \* "no", or what happened

txVars == <<tx_pool, tx_idx, call, deleted, undefined>>
vars == <<workerVars, callerVars, txVars>>

Ids == 1..MaxTx
NoCall == [fn |-> "none", id |-> 0, met |-> FALSE]

Init ==
    /\ WorkerInit
    /\ tx_pool = [i \in Ids |-> Null]
    /\ tx_idx = 0
    /\ call = [c \in Callers |-> NoCall]
    /\ deleted = {}
    /\ undefined = "no"

Undefined(what) == undefined' = what

\* The function returns: its frame is gone.  (CallService says what replies
\* are worth; which one a call here gives is not kept.)
LeaveCall(c) ==
    /\ Goes(c, "idle")
    /\ DropContext(c)
    /\ call' = [call EXCEPT ![c] = NoCall]

-----------------------------------------------------------------------------
(* begin *)

\* The worker is created and the "BEGIN" context built.
Begin(c) ==
    /\ at[c] = "idle"
    /\ tx_idx < MaxTx
    /\ tx_idx' = tx_idx + 1
    /\ \E w \in Workers :
           /\ thd[w] = "none"
           /\ Start(w)
           /\ NewContext(c, w, 1)
    /\ call' = [call EXCEPT ![c] = [fn |-> "begin", id |-> tx_idx + 1, met |-> FALSE]]
    /\ Goes(c, "add")
    /\ UNCHANGED <<tx_pool, deleted, undefined>>

\* new_thread found no memory or no thread: an id is gone, nothing else.
BeginFails(c) ==
    /\ at[c] = "idle"
    /\ tx_idx < MaxTx
    /\ tx_idx' = tx_idx + 1
    /\ UNCHANGED <<workerVars, callerVars, tx_pool, call, deleted, undefined>>

\* begin and tx_end read the result's status without asking whether there is
\* a result.
LeaveWithStatus(c) ==
    /\ LeaveCall(c)
    /\ undefined' = IF result[c] = "null" THEN "no_result" ELSE "no"

\* The entry is made whatever BEGIN returned.
BeginReturns(c) ==
    /\ call[c].fn = "begin"
    /\ LatchOpen(c)
    /\ tx_pool' = [tx_pool EXCEPT ![call[c].id] = to[c]]
    /\ LeaveWithStatus(c)
    /\ UNCHANGED <<workerVars, tx_idx, deleted>>

-----------------------------------------------------------------------------
(* tx_execute and tx_end *)

\* begin i has returned, so that there is a SqlTx to call with.
Begun(i) == i <= tx_idx /\ \A c \in Callers : call[c].fn = "begin" => call[c].id # i

\* c calls fn on transaction i, where others may be.
Enters(c, i, fn) ==
    LET others == {d \in Callers \ {c} : call[d].id = i} IN
    call' = [d \in Callers |->
                IF d = c THEN [fn |-> fn, id |-> i, met |-> others # {}]
                ELSE IF d \in others THEN [call[d] EXCEPT !.met = TRUE] ELSE call[d]]

\* Mutant: an id without an entry is not noticed.
FindAnything(c, i, fn) ==
    /\ at[c] = "idle"
    /\ Begun(i)
    /\ Goes(c, "found")
    /\ Enters(c, i, fn)
    /\ UNCHANGED <<workerVars, to, latch, result, left, tx_pool, tx_idx, deleted, undefined>>

\* The lookup.  (A call on a transaction that is gone returns at once and
\* changes nothing.)
Find(c, i, fn) ==
    /\ at[c] = "idle"
    /\ Begun(i) /\ tx_pool[i] # Null
    /\ Goes(c, "found")
    /\ Enters(c, i, fn)
    /\ UNCHANGED <<workerVars, to, latch, result, left, tx_pool, tx_idx, deleted, undefined>>

\* The iterator is followed and the context built.  (The MyThread may be gone
\* already: its first use is in AddTask.)
Follow(c) ==
    /\ at[c] = "found"
    /\ IF tx_pool[call[c].id] = Null
       THEN Undefined("erased_entry") /\ UNCHANGED callerVars
       ELSE /\ NewContext(c, tx_pool[call[c].id], IF call[c].fn = "execute" THEN Tries ELSE 1)
            /\ Goes(c, "add")
            /\ UNCHANGED undefined
    /\ UNCHANGED <<workerVars, tx_pool, tx_idx, call, deleted>>

\* The worker of c's transaction is deleted, whoever has its address now.
WorkerGone(c) == call[c].id \in deleted

\* begin and tx_end do not look at what add_block returned; tx_execute does.
AddTask(c) ==
    /\ at[c] \in {"add", "blocked"}
    /\ IF WorkerGone(c)
       THEN Undefined("deleted_worker") /\ UNCHANGED <<workerVars, callerVars>>
       ELSE /\ \/ AddContext(c, IF call[c].fn = "execute" THEN "refused" ELSE "latch")
               \/ AddSleep(c)
            /\ UNCHANGED undefined
    /\ UNCHANGED <<tx_pool, tx_idx, call, deleted>>

ExecuteReturns(c) ==
    /\ call[c].fn = "execute"
    /\ at[c] = "refused" \/ LatchOpen(c)
    /\ LeaveCall(c)
    /\ UNCHANGED <<workerVars, tx_pool, tx_idx, deleted, undefined>>

\* Mutant: tx_end does not wait for its COMMIT or ROLLBACK.
EndStopsAtOnce(c) ==
    /\ call[c].fn = "end"
    /\ at[c] = "latch"
    /\ status' = [status EXCEPT ![to[c]] = 0]
    /\ Goes(c, "clear")
    /\ UNCHANGED <<queue, thd, ctx, to, latch, result, left, txVars>>

\* A step of tx_end that uses the MyThread.
UsesWorker(what, Step) ==
    /\ IF what # "no"
       THEN Undefined(what) /\ UNCHANGED <<workerVars, callerVars, deleted>>
       ELSE Step /\ UNCHANGED <<to, latch, result, left, undefined>>
    /\ UNCHANGED <<tx_pool, tx_idx, call>>

Gone(c) == IF WorkerGone(c) THEN "deleted_worker" ELSE "no"

\* thread->status = 0, with no lock and no look at what the worker is about
\* to write there.
EndStops(c) ==
    /\ call[c].fn = "end"
    /\ LatchOpen(c)
    /\ UsesWorker(Gone(c),
          /\ status' = [status EXCEPT ![to[c]] = 0]
          /\ Goes(c, "clear")
          /\ UNCHANGED <<queue, thd, ctx, deleted>>)

\* tasks->clear(), and pthread_join is called.
EndClears(c) ==
    /\ at[c] = "clear"
    /\ UsesWorker(
          IF \E d \in Callers : at[d] = "join" /\ call[d].id = call[c].id
          THEN "joined_twice" ELSE Gone(c),
          /\ \E q \in AfterClear(queue[to[c]]) : queue' = [queue EXCEPT ![to[c]] = q]
          /\ Goes(c, "join")
          /\ UNCHANGED <<status, thd, ctx, deleted>>)

EndJoins(c) ==
    /\ at[c] = "join"
    /\ thd[to[c]] = "ended"
    /\ UsesWorker("no",
          /\ thd' = [thd EXCEPT ![to[c]] = "none"]
          /\ queue' = [queue EXCEPT ![to[c]] = NewQueue]
          /\ deleted' = deleted \cup {call[c].id}
          /\ Goes(c, "erase")
          /\ UNCHANGED <<status, ctx>>)

\* Mutant: the entry of a finished transaction stays.
EndReturnsKeeping(c) ==
    /\ at[c] = "erase"
    /\ LeaveWithStatus(c)
    /\ UNCHANGED <<workerVars, tx_idx, tx_pool, deleted>>

EndReturns(c) ==
    /\ at[c] = "erase"
    /\ tx_pool' = [tx_pool EXCEPT ![call[c].id] = Null]
    /\ LeaveWithStatus(c)
    /\ UNCHANGED <<workerVars, tx_idx, deleted>>

Continue(c) ==
    \/ BeginReturns(c) \/ Follow(c) \/ AddTask(c) \/ ExecuteReturns(c)
    \/ EndStops(c) \/ EndClears(c) \/ EndJoins(c) \/ EndReturns(c)

CallerStep(c) ==
    \/ Begin(c) \/ BeginFails(c) \/ Continue(c)
    \/ \E i \in Ids, fn \in {"execute", "end"} : Find(c, i, fn)

Defined == undefined = "no"

Next ==
    /\ Defined
    /\ \/ \E w \in Workers : WorkerStep(w) /\ UNCHANGED txVars
       \/ \E c \in Callers : CallerStep(c)

Spec == Init /\ [][Next]_vars

\* Threads run and clocks tick; a caller need not call, but a call goes on.
Fairness ==
    /\ \A w \in Workers : WF_vars(Defined /\ WorkerStep(w) /\ UNCHANGED txVars)
    /\ \A c \in Callers : WF_vars(Defined /\ Continue(c))

FairSpec == Spec /\ Fairness

-----------------------------------------------------------------------------
\* An entry whose worker tx_end has deleted and that it has not yet erased.
BeingErased(i) == \E c \in Callers : at[c] = "erase" /\ call[c].id = i

\* A transaction is a connection: the workers of open transactions exist and
\* no two share one.  Only the entry tx_end is about to erase may name a
\* deleted worker, or the worker of a later transaction that begin built at
\* the address just freed.
TransactionsApart ==
    \A i \in Ids : tx_pool[i] # Null /\ ~BeingErased(i) =>
        /\ thd[tx_pool[i]] # "none"
        /\ \A j \in Ids \ {i} : tx_pool[j] = tx_pool[i] => BeingErased(j)

\* Calls on one transaction that do not overlap never reach an erased entry or
\* a deleted worker, however many transactions are open at once and whoever
\* calls; without overlap one thing is left: that begin, commit and rollback
\* read the result of a worker that had no memory for one.
SerialCallsAreSafe ==
    undefined \in {"erased_entry", "deleted_worker", "joined_twice"} =>
        \E c \in Callers : call[c].met

\* No task is lost, though tx_end clears the queue to wake its worker: a caller
\* on its latch has its context in the queue or in the worker's hands, unless
\* its call overlaps with another or no node could be allocated for it; and no
\* context outlives its caller's call.
TasksKept ==
    Defined =>
        /\ ContextsAlive
        /\ \A c \in Callers :
              at[c] = "latch" /\ ~latch[c] =>
                  Places(c) # {} \/ call[c].met \/ FALSE \in NodeAlloc

\* A stop request that the worker finds is obeyed: unless the worker had
\* already read the old status word when tx_end wrote the 0 (it is at "mark",
\* about to write its 2 over it), tx_end gets to its return.
SeenStopIsObeyed ==
    \A c \in Callers :
        at[c] = "join" /\ status[to[c]] = 0 /\ thd[to[c]] # "mark"
        ~> at[c] = "idle" \/ ~Defined

\* What the comment on the pop after a clear (fqueue.hpp:133-134) and the log
\* line "join thread end" (mysql_simple_pool.cpp:338) say of commit and
\* rollback: the woken worker ends and the join returns.
EndReturnsToCaller == \A c \in Callers : at[c] = "join" ~> at[c] = "idle"
=============================================================================
