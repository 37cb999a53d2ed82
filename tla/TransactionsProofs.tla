-------------------------- MODULE TransactionsProofs --------------------------
(* What the runs of MCTransactions check on two callers, two transactions    *)
(* and two workers' worth of memory, for any number of each.                 *)
EXTENDS Transactions, WorkerProofs

TxType ==
    /\ tx_pool \in [Ids -> Workers \cup {Null}]
    /\ tx_idx \in Nat /\ tx_idx <= MaxTx
    /\ deleted \subseteq 1..tx_idx

CallType ==
    call \in [Callers -> [fn : {"none", "begin", "execute", "end"}, id : Nat, met : BOOLEAN]]

\* Where a caller is fits the function it is in.
InCall(c) ==
    /\ at[c] = "idle" <=> call[c].fn = "none"
    /\ call[c].fn = "none" => call[c].id = 0
    /\ call[c].fn # "none" => call[c].id \in 1..tx_idx
    /\ call[c].fn = "begin"   => at[c] \in {"add", "blocked", "latch"}
    /\ call[c].fn = "execute" => at[c] \in {"found", "add", "blocked", "latch", "refused"}
    /\ call[c].fn = "end"     =>
           at[c] \in {"found", "add", "blocked", "latch", "clear", "join", "erase"}

\* A transaction that is being begun is its caller's alone, and so is its worker.
Beginning(c) ==
    call[c].fn = "begin" =>
        /\ tx_pool[call[c].id] = Null
        /\ call[c].id \notin deleted
        /\ to[c] \in Workers /\ thd[to[c]] # "none"
        /\ \A d \in Callers \ {c} :
              /\ call[d].id # call[c].id
              /\ call[d].fn = "begin" => to[d] # to[c]
        /\ \A i \in Ids \ deleted : tx_pool[i] # to[c]

\* An entry is a worker of its own until it is deleted, and then about to go.
Entered(i) ==
    tx_pool[i] # Null =>
        /\ i <= tx_idx
        /\ i \in deleted => BeingErased(i)
        /\ i \notin deleted =>
              /\ thd[tx_pool[i]] # "none"
              /\ \A j \in Ids \ deleted : tx_pool[j] = tx_pool[i] => j = i

\* Whoever is in a transaction that is not deleted uses the worker of its entry.
Using(c) ==
    call[c].fn \in {"execute", "end"} /\ call[c].id \notin deleted =>
        /\ tx_pool[call[c].id] # Null
        /\ at[c] # "found" => tx_pool[call[c].id] = to[c]

Ending(c) ==
    /\ at[c] = "join" =>
          /\ call[c].id \notin deleted
          /\ \A d \in Callers : at[d] = "join" /\ call[d].id = call[c].id => d = c
    /\ at[c] = "erase" => call[c].id \in deleted

\* Callers that meet in a transaction know it, and only they see it deleted.
Meeting(c) ==
    /\ \A d \in Callers \ {c} : call[d].id = call[c].id /\ call[c].id # 0 => call[c].met
    /\ at[c] # "erase" /\ call[c].id \in deleted => call[c].met

\* What is queued at a worker belongs to the transaction it was started for.
Current(w) ==
    \A i \in DOMAIN queue[w].list : call[queue[w].list[i]].id \notin deleted

KeptUnlessMet(c) == ~call[c].met /\ FALSE \notin NodeAlloc => Remembered(c)

TxInv ==
    /\ TxType
    /\ CallType
    /\ \A c \in Callers : InCall(c)
    /\ \A c \in Callers : Beginning(c)
    /\ \A i \in Ids : Entered(i)
    /\ \A c \in Callers : Using(c)
    /\ \A c \in Callers : Ending(c)
    /\ \A c \in Callers : Meeting(c)

Inv ==
    /\ WorkerInv
    /\ TxInv
    /\ \A w \in Workers : Current(w)
    /\ \A c \in Callers : KeptUnlessMet(c)
    /\ SerialCallsAreSafe

USE WorkerAssumption, TransactionsAssumption

\* A caller that has a worker's address, of a transaction that is not deleted.
Active(c) == at[c] \notin {"idle", "found"} /\ call[c].id \notin deleted

\* That worker is there ...
LEMMA ActiveWorker ==
    ASSUME TxInv, NEW c \in Callers, Active(c)
    PROVE  /\ to[c] \in Workers /\ thd[to[c]] # "none" /\ call[c].id \in Ids
           /\ call[c].fn # "begin" => tx_pool[call[c].id] = to[c]
  <1>1. /\ call[c].fn \in {"begin", "execute", "end"}
        /\ call[c].id \in 1..tx_idx
    BY DEF Active, TxInv, InCall, CallType
  <1>2. call[c].id \in Ids
    BY <1>1 DEF TxInv, TxType, Ids
  <1>3. CASE call[c].fn = "begin"
    BY <1>2, <1>3 DEF TxInv, Beginning
  <1>4. CASE call[c].fn # "begin"
    <2>1. tx_pool[call[c].id] # Null /\ tx_pool[call[c].id] = to[c]
      BY <1>1, <1>4 DEF Active, TxInv, Using
    <2>2. thd[tx_pool[call[c].id]] # "none"
      BY <1>2, <2>1 DEF Active, TxInv, Entered
    <2>3. tx_pool[call[c].id] \in Workers
      BY <1>2, <2>1 DEF TxInv, TxType
    <2> QED
      BY <1>2, <2>1, <2>2, <2>3
  <1> QED
    BY <1>3, <1>4

\* ... and nobody in another transaction uses it.
LEMMA OneTransactionPerWorker ==
    ASSUME TxInv, NEW c \in Callers, NEW d \in Callers, Active(c), Active(d), to[c] = to[d]
    PROVE  call[c].id = call[d].id
  <1>1. /\ call[c].id \in Ids \ deleted /\ call[d].id \in Ids \ deleted
        /\ call[c].fn # "begin" => tx_pool[call[c].id] = to[c]
        /\ call[d].fn # "begin" => tx_pool[call[d].id] = to[d]
        /\ to[c] \in Workers
    BY ActiveWorker DEF Active
  <1>2. CASE call[c].fn = "begin" \/ call[d].fn = "begin"
    BY <1>1, <1>2 DEF TxInv, Beginning
  <1>3. CASE call[c].fn # "begin" /\ call[d].fn # "begin"
    BY <1>1, <1>3 DEF TxInv, Entered
  <1> QED
    BY <1>2, <1>3

-----------------------------------------------------------------------------
LEMMA TxInit == Init => Inv
  <1> SUFFICES ASSUME Init PROVE Inv
    OBVIOUS
  <1>1. WorkerInv
    BY InitInv DEF Init
  <1>2. TxType
    BY DEF Init, TxType
  <1>3. CallType
    BY DEF Init, CallType, NoCall
  <1>4. /\ \A c \in Callers : at[c] = "idle" /\ call[c].fn = "none" /\ call[c].id = 0
        /\ \A i \in Ids : tx_pool[i] = Null
        /\ deleted = {}
        /\ \A w \in Workers : queue[w].list = <<>>
    BY DEF Init, WorkerInit, NoCall, NewQueue
  <1>5. TxInv
    BY <1>2, <1>3, <1>4 DEF TxInv, InCall, Beginning, Entered, Using, Ending, Meeting
  <1>6. \A w \in Workers : Current(w)
    BY <1>4 DEF Current
  <1>7. \A c \in Callers : KeptUnlessMet(c)
    BY <1>4 DEF KeptUnlessMet, Remembered
  <1>8. SerialCallsAreSafe
    BY DEF Init, SerialCallsAreSafe
  <1> QED
    BY <1>1, <1>5, <1>6, <1>7, <1>8 DEF Inv

\* Steps in which callers only move on inside their calls.
LEMMA MovingOn ==
    ASSUME TxInv, UNCHANGED <<tx_pool, tx_idx, call, deleted, to>>,
           \A w \in Workers : thd'[w] = "none" <=> thd[w] = "none",
           \A c \in Callers : InCall(c)', \A c \in Callers : Ending(c)',
           \A c \in Callers : at'[c] = "found" <=> at[c] = "found",
           \A c \in Callers : at'[c] = "erase" <=> at[c] = "erase"
    PROVE  TxInv'
  <1>1. TxType' /\ CallType'
    BY DEF TxInv, TxType, CallType
  <1>2. ASSUME NEW c \in Callers
        PROVE  Beginning(c)'
    BY DEF TxInv, Beginning
  <1>3. ASSUME NEW i \in Ids
        PROVE  Entered(i)'
    <2>1. BeingErased(i)' <=> BeingErased(i)
      BY DEF BeingErased
    <2>2. tx_pool[i] # Null => tx_pool[i] \in Workers
      BY DEF TxInv, TxType
    <2> QED
      BY <2>1, <2>2 DEF TxInv, Entered
  <1>4. ASSUME NEW c \in Callers
        PROVE  Using(c)' /\ Meeting(c)'
    BY DEF TxInv, Using, Meeting
  <1> QED
    BY <1>1, <1>2, <1>3, <1>4 DEF TxInv

\* The workers.
LEMMA WorkerStepKeeps ==
    ASSUME Inv, NEW w \in Workers, WorkerStep(w), UNCHANGED txVars
    PROVE  Inv'
  <1>1. WorkerInv'
    BY WorkerStepKeepsInv DEF Inv
  <1>2. UNCHANGED <<tx_pool, tx_idx, call, deleted, undefined>>
    BY DEF txVars
  <1>3. UNCHANGED <<at, to>>
    BY DEF WorkerStep, TestStatus, MarkRunning, Pop, PopSleep, PopExpire, PopTimedOut,
           NewResult, NoResult, RunQuery, CountDown, UnlockLatch, CloseSession, callerVars
  <1>4. TxInv'
    <2>1. \A v \in Workers : thd'[v] = "none" <=> thd[v] = "none"
      BY WorkerStepLives DEF Inv
    <2>2. \A c \in Callers : InCall(c)' /\ Ending(c)'
      BY <1>2, <1>3 DEF Inv, TxInv, InCall, Ending
    <2> QED
      BY <1>2, <1>3, <2>1, <2>2, MovingOn DEF Inv
  <1>5. ASSUME NEW v \in Workers
        PROVE  Current(v)'
    <2> SUFFICES ASSUME NEW i \in DOMAIN queue'[v].list
                 PROVE  call[queue'[v].list[i]].id \notin deleted
      BY <1>2 DEF Current
    <2>1. PICK j \in DOMAIN queue[v].list : queue[v].list[j] = queue'[v].list[i]
      BY WorkerStepQueues DEF Inv
    <2> QED
      BY <2>1 DEF Inv, Current
  <1>6. ASSUME NEW c \in Callers
        PROVE  KeptUnlessMet(c)'
    BY <1>2, WorkerStepRemembers DEF Inv, KeptUnlessMet
  <1>7. SerialCallsAreSafe'
    BY <1>2 DEF Inv, SerialCallsAreSafe
  <1> QED
    BY <1>1, <1>4, <1>5, <1>6, <1>7 DEF Inv

-----------------------------------------------------------------------------
(* Finding a transaction *)

LEMMA EntersFacts ==
    ASSUME CallType, NEW c \in Callers, NEW i \in Ids, NEW fn \in {"execute", "end"},
           Enters(c, i, fn)
    PROVE  /\ CallType'
           /\ call'[c].fn = fn /\ call'[c].id = i
           /\ \A d \in Callers \ {c} :
                 /\ call'[d].fn = call[d].fn /\ call'[d].id = call[d].id
                 /\ call[d].met => call'[d].met
                 /\ call[d].id = i => call'[d].met /\ call'[c].met
  <1> DEFINE others == {d \in Callers \ {c} : call[d].id = i}
  <1>1. call' = [d \in Callers |->
                   IF d = c THEN [fn |-> fn, id |-> i, met |-> others # {}]
                   ELSE IF d \in others THEN [call[d] EXCEPT !.met = TRUE] ELSE call[d]]
    BY DEF Enters
  <1>2. i \in Nat
    BY DEF Ids
  <1>3. PICK m \in BOOLEAN : m <=> others # {}
    OBVIOUS
  <1>4. call'[c] = [fn |-> fn, id |-> i, met |-> m]
    BY <1>1, <1>3
  <1>a. ASSUME NEW d \in Callers, d \in others
        PROVE  /\ call'[d] \in [fn : {"none", "begin", "execute", "end"}, id : Nat, met : BOOLEAN]
               /\ call'[d].fn = call[d].fn /\ call'[d].id = call[d].id /\ call'[d].met
    <2>1. PICK r \in [fn : {"none", "begin", "execute", "end"}, id : Nat, met : BOOLEAN] : r = call[d]
      BY DEF CallType
    <2>2. call'[d] = [r EXCEPT !.met = TRUE]
      BY <1>1, <1>a, <2>1
    <2>3. call'[d] = [fn |-> r.fn, id |-> r.id, met |-> TRUE]
      BY <2>2
    <2> HIDE DEF others
    <2> QED
      BY <2>1, <2>3
  <1>b. ASSUME NEW d \in Callers \ {c}, d \notin others
        PROVE  call'[d] = call[d]
    BY <1>1, <1>b
  <1>5. ASSUME NEW d \in Callers
        PROVE  call'[d] \in [fn : {"none", "begin", "execute", "end"}, id : Nat, met : BOOLEAN]
    <2>0. call[d] \in [fn : {"none", "begin", "execute", "end"}, id : Nat, met : BOOLEAN]
      BY DEF CallType
    <2>1. CASE d = c
      BY <1>2, <1>4, <2>1
    <2>2. CASE d \in others
      BY <1>a, <2>2, Zenon
    <2>3. CASE d # c /\ d \notin others
      BY <1>b, <2>0, <2>3
    <2> QED
      BY <2>1, <2>2, <2>3
  <1>6. CallType'
    BY <1>1, <1>5 DEF CallType
  <1>7. call'[c].fn = fn /\ call'[c].id = i /\ (call'[c].met <=> others # {})
    BY <1>3, <1>4
  <1>8. ASSUME NEW d \in Callers \ {c}
        PROVE  /\ call'[d].fn = call[d].fn /\ call'[d].id = call[d].id
               /\ call[d].met => call'[d].met
               /\ call[d].id = i => call'[d].met /\ call'[c].met
    <2>1. CASE d \in others
      BY <1>7, <1>a, <2>1, Zenon
    <2>2. CASE d \notin others
      BY <1>b, <2>2
    <2> QED
      BY <2>1, <2>2
  <1> QED
    BY <1>6, <1>7, <1>8

LEMMA FindKeeps ==
    ASSUME Inv, Defined, NEW c \in Callers, NEW i \in Ids, NEW fn \in {"execute", "end"},
           Find(c, i, fn)
    PROVE  Inv'
  <1>1. /\ at[c] = "idle" /\ Begun(i) /\ tx_pool[i] # Null
        /\ Goes(c, "found") /\ Enters(c, i, fn)
        /\ UNCHANGED <<workerVars, to, latch, result, left, tx_pool, tx_idx, deleted, undefined>>
    BY DEF Find
  <1>2. /\ CallType'
        /\ call'[c].fn = fn /\ call'[c].id = i
        /\ \A d \in Callers \ {c} :
              /\ call'[d].fn = call[d].fn /\ call'[d].id = call[d].id
              /\ call[d].met => call'[d].met
              /\ call[d].id = i => call'[d].met /\ call'[c].met
    BY <1>1, EntersFacts DEF Inv, TxInv
  <1>3. UNCHANGED <<queue, status, thd, ctx>>
    BY <1>1 DEF workerVars
  <1>4. at'[c] = "found" /\ at' \in [Callers -> Calling] /\ \A d \in Callers \ {c} : at'[d] = at[d]
    BY <1>1 DEF Goes, Inv, WorkerInv, CallersType, Calling
  <1>5. WorkerInv'
    <2>1. CallersType'
      BY <1>1, <1>4 DEF Inv, WorkerInv, CallersType
    <2>2. \A d \in Callers : Still(d) \/ (Away(d) /\ at'[d] # "latch" /\ Handing(d)')
      <3>1. Away(c) /\ at'[c] # "latch" /\ Handing(c)'
        BY <1>1, <1>4 DEF Away, Handing
      <3>2. \A d \in Callers \ {c} : Still(d)
        BY <1>1, <1>4 DEF Still
      <3> QED
        BY <3>1, <3>2
    <2> QED
      BY <1>3, <2>1, <2>2, CallerStepKeepsInv DEF Inv, WorkerInv, WorkersType
  <1>6. TxType'
    BY <1>1 DEF Inv, TxInv, TxType
  <1>7. i \in 1..tx_idx
    BY <1>1 DEF Begun, Ids, Inv, TxInv, TxType
  <1>8. ASSUME NEW d \in Callers
        PROVE  InCall(d)'
    <2>1. CASE d = c
      BY <1>1, <1>2, <1>4, <1>7, <2>1 DEF InCall
    <2>2. CASE d # c
      BY <1>1, <1>2, <1>4, <2>2 DEF Inv, TxInv, InCall
    <2> QED
      BY <2>1, <2>2
  <1>9. ASSUME NEW d \in Callers
        PROVE  Beginning(d)'
    <2> SUFFICES ASSUME d # c, call[d].fn = "begin"
                 PROVE  Beginning(d)'
      BY <1>2 DEF Beginning
    <2>1. call[d].id # i
      BY <1>1 DEF Begun
    <2>2. Beginning(d)
      BY DEF Inv, TxInv
    <2> QED
      BY <1>1, <1>2, <1>3, <2>1, <2>2 DEF Beginning
  <1>10. ASSUME NEW j \in Ids
         PROVE  Entered(j)'
    <2>1. BeingErased(j) => BeingErased(j)'
      BY <1>1, <1>2, <1>4 DEF BeingErased
    <2> QED
      BY <1>1, <1>3, <2>1 DEF Inv, TxInv, Entered
  <1>11. ASSUME NEW d \in Callers
         PROVE  Using(d)'
    <2>1. CASE d = c
      BY <1>1, <1>2, <1>4, <2>1 DEF Using
    <2>2. CASE d # c
      BY <1>1, <1>2, <1>4, <2>2 DEF Inv, TxInv, Using
    <2> QED
      BY <2>1, <2>2
  <1>12. ASSUME NEW d \in Callers
         PROVE  Ending(d)'
    <2>1. CASE d = c
      BY <1>4, <2>1 DEF Ending
    <2>2. CASE d # c
      BY <1>1, <1>2, <1>4, <2>2 DEF Inv, TxInv, Ending
    <2> QED
      BY <2>1, <2>2
  <1>13. ASSUME NEW d \in Callers
         PROVE  Meeting(d)'
    <2>1. CASE d = c
      <3>1. ASSUME i \in deleted
            PROVE  call'[c].met
        <4>1. PICK e \in Callers : at[e] = "erase" /\ call[e].id = i
          BY <1>1, <3>1 DEF Inv, TxInv, Entered, BeingErased
        <4> QED
          BY <1>1, <1>2, <4>1
      <3> QED
        BY <1>1, <1>2, <2>1, <3>1 DEF Meeting
    <2>2. CASE d # c
      <3>1. Meeting(d)
        BY DEF Inv, TxInv
      <3> QED
        BY <1>1, <1>2, <1>4, <2>2, <3>1 DEF Meeting
    <2> QED
      BY <2>1, <2>2
  <1>14. ASSUME NEW v \in Workers
         PROVE  Current(v)'
    <2>1. \A j \in DOMAIN queue[v].list :
              queue[v].list[j] \in Callers /\ at[queue[v].list[j]] = "latch"
      BY DEF Inv, WorkerInv, WorkersType, QueueType, Queued, Waits
    <2> QED
      BY <1>1, <1>2, <1>3, <2>1 DEF Inv, Current
  <1>15. ASSUME NEW d \in Callers
         PROVE  KeptUnlessMet(d)'
    <2>1. CASE d = c
      BY <1>4, <2>1 DEF KeptUnlessMet, Remembered
    <2>2. CASE d # c
      <3>1. UNCHANGED <<queue, ctx, to, latch>> /\ at'[d] = at[d]
        BY <1>1, <1>3, <1>4, <2>2
      <3>2. Remembered(d) => Remembered(d)'
        BY <3>1 DEF Remembered, Kept
      <3>3. KeptUnlessMet(d)
        BY DEF Inv
      <3> QED
        BY <1>1, <1>2, <2>2, <3>2, <3>3 DEF KeptUnlessMet
    <2> QED
      BY <2>1, <2>2
  <1>16. SerialCallsAreSafe'
    BY <1>1 DEF Defined, SerialCallsAreSafe
  <1> QED
    BY <1>2, <1>5, <1>6, <1>8, <1>9, <1>10, <1>11, <1>12, <1>13, <1>14, <1>15, <1>16 DEF Inv, TxInv

\* Whoever waits for the worker of another's transaction has met that other.
LEMMA StrangersApart ==
    ASSUME Inv, NEW c \in Callers, NEW d \in Callers \ {c},
           Active(c), at[d] = "latch", to[d] = to[c]
    PROVE  call[d].met
  <1>1. call[d].id \in deleted => call[d].met
    BY DEF Inv, TxInv, Meeting
  <1>2. CASE call[d].id \notin deleted
    <2>1. Active(d)
      BY <1>2 DEF Active
    <2>2. call[d].id = call[c].id
      BY <2>1, OneTransactionPerWorker DEF Inv
    <2>3. call[d].id # 0
      BY <2>1, ActiveWorker DEF Inv, Ids
    <2> QED
      BY <2>2, <2>3 DEF Inv, TxInv, Meeting
  <1> QED
    BY <1>1, <1>2

\* The code reached something undefined, or nothing happened.
LEMMA NothingElseKeeps ==
    ASSUME Inv, UNCHANGED <<workerVars, callerVars, tx_pool, tx_idx, call, deleted>>,
           SerialCallsAreSafe'
    PROVE  Inv'
  <1>1. UNCHANGED <<queue, thd, ctx>> /\ UNCHANGED <<at, to, latch, result, left>>
    BY DEF workerVars, callerVars
  <1>2. WorkerInv'
    BY WorkerInvStutters DEF Inv
  <1>3. TxInv'
    <2>1. \A c \in Callers : InCall(c)' /\ Ending(c)'
      BY <1>1 DEF Inv, TxInv, InCall, Ending
    <2> QED
      BY <1>1, <2>1, MovingOn DEF Inv
  <1>4. \A w \in Workers : Current(w)'
    BY <1>1 DEF Inv, Current
  <1>5. \A c \in Callers : KeptUnlessMet(c)'
    BY <1>1 DEF Inv, KeptUnlessMet, Remembered, Kept
  <1> QED
    BY <1>2, <1>3, <1>4, <1>5 DEF Inv

-----------------------------------------------------------------------------
(* begin *)

LEMMA BeginFailsKeeps ==
    ASSUME Inv, Defined, NEW c \in Callers, BeginFails(c)
    PROVE  Inv'
  <1>1. /\ tx_idx < MaxTx /\ tx_idx' = tx_idx + 1
        /\ UNCHANGED <<workerVars, callerVars, tx_pool, call, deleted, undefined>>
    BY DEF BeginFails
  <1>2. UNCHANGED <<queue, thd, ctx>> /\ UNCHANGED <<at, to, latch, result, left>>
    BY <1>1 DEF workerVars, callerVars
  <1>3. WorkerInv'
    BY <1>1, WorkerInvStutters DEF Inv
  <1>4. tx_idx \in Nat
    BY DEF Inv, TxInv, TxType
  <1>5. TxType'
    BY <1>1, <1>4 DEF Inv, TxInv, TxType
  <1>6. ASSUME NEW d \in Callers
        PROVE  InCall(d)'
    <2>1. call[d].fn # "none" => call[d].id \in 1..tx_idx'
      BY <1>1, <1>4 DEF Inv, TxInv, InCall
    <2> QED
      BY <1>1, <1>2, <2>1 DEF Inv, TxInv, InCall
  <1>7. ASSUME NEW i \in Ids
        PROVE  Entered(i)'
    <2>1. i <= tx_idx => i <= tx_idx'
      BY <1>1, <1>4 DEF Ids
    <2>2. BeingErased(i)' <=> BeingErased(i)
      BY <1>1, <1>2 DEF BeingErased
    <2> QED
      BY <1>1, <1>2, <2>1, <2>2 DEF Inv, TxInv, Entered
  <1>8. CallType' /\ \A d \in Callers : Beginning(d)' /\ Using(d)' /\ Ending(d)' /\ Meeting(d)'
    BY <1>1, <1>2 DEF Inv, TxInv, CallType, Beginning, Using, Ending, Meeting
  <1>9. \A w \in Workers : Current(w)'
    BY <1>1, <1>2 DEF Inv, Current
  <1>10. \A d \in Callers : KeptUnlessMet(d)'
    BY <1>1, <1>2 DEF Inv, KeptUnlessMet, Remembered, Kept
  <1>11. SerialCallsAreSafe'
    BY <1>1 DEF Defined, SerialCallsAreSafe
  <1> QED
    BY <1>3, <1>5, <1>6, <1>7, <1>8, <1>9, <1>10, <1>11 DEF Inv, TxInv

LEMMA BeginKeeps ==
    ASSUME Inv, Defined, NEW c \in Callers, Begin(c)
    PROVE  Inv'
  <1>1. PICK w \in Workers : thd[w] = "none" /\ Start(w) /\ NewContext(c, w, 1)
    BY DEF Begin
  <1>2. /\ at[c] = "idle" /\ tx_idx < MaxTx /\ tx_idx' = tx_idx + 1
        /\ call' = [call EXCEPT ![c] = [fn |-> "begin", id |-> tx_idx + 1, met |-> FALSE]]
        /\ at' = [at EXCEPT ![c] = "add"]
        /\ UNCHANGED <<tx_pool, deleted, undefined>>
    BY DEF Begin, Goes
  <1>3. tx_idx \in Nat /\ tx_idx' \in Ids /\ tx_idx' \notin deleted
    BY <1>2 DEF Inv, TxInv, TxType, Ids
  <1>4. /\ thd'[w] = "test" /\ queue'[w].list = <<>>
        /\ \A v \in Workers \ {w} : thd'[v] = thd[v] /\ queue'[v] = queue[v]
        /\ ctx[w] = Null /\ queue[w].list = <<>> /\ ctx' = ctx
    <2>1. ctx[w] = Null /\ queue[w].list = <<>>
      BY <1>1 DEF Inv, WorkerInv, Served, QueueBounds, InHand
    <2> QED
      BY <1>1, <2>1 DEF Start, NewQueue, Inv, WorkerInv, WorkersType
  <1>5. /\ at'[c] = "add" /\ to'[c] = w /\ Untouched(c)'
        /\ \A d \in Callers \ {c} : Still(d)
        /\ CallersType'
    <2>1. 1 \in Nat \ {0}
      OBVIOUS
    <2> QED
      BY <1>1, <1>2, <2>1, NewContextFacts DEF Inv, Goes
  <1>6. /\ call'[c].fn = "begin" /\ call'[c].id = tx_idx'
        /\ \A d \in Callers \ {c} : call'[d] = call[d]
    BY <1>2 DEF Inv, TxInv, CallType
  <1>7. WorkerInv'
    <2>1. \A d \in Callers : Still(d) \/ (Away(d) /\ at'[d] # "latch" /\ Handing(d)')
      <3>1. Away(c) /\ at'[c] # "latch" /\ Handing(c)'
        BY <1>2, <1>5 DEF Away, Handing, Untouched
      <3> QED
        BY <1>5, <3>1
    <2> QED
      BY <1>1, <1>5, <2>1, StartKeepsInv DEF Inv
  <1>8. TxType'
    BY <1>2, <1>3 DEF Inv, TxInv, TxType
  <1>9. CallType'
    <2>1. PICK n \in Nat : n = tx_idx + 1
      BY <1>3
    <2>2. [fn |-> "begin", id |-> n, met |-> FALSE]
              \in [fn : {"none", "begin", "execute", "end"}, id : Nat, met : BOOLEAN]
      OBVIOUS
    <2>3. call' = [call EXCEPT ![c] = [fn |-> "begin", id |-> n, met |-> FALSE]]
      BY <1>2, <2>1, Zenon
    <2>4. call \in [Callers -> [fn : {"none", "begin", "execute", "end"}, id : Nat, met : BOOLEAN]]
      BY DEF Inv, TxInv, CallType
    <2> QED
      BY <2>2, <2>3, <2>4, Zenon DEF CallType
  <1>10. \A d \in Callers : call[d].id # tx_idx'
    <2> TAKE d \in Callers
    <2>1. call[d].id = 0 \/ call[d].id \in 1..tx_idx
      BY DEF Inv, TxInv, InCall
    <2> QED
      BY <1>2, <1>3, <2>1
  <1>11. ASSUME NEW d \in Callers
         PROVE  InCall(d)'
    <2>1. CASE d = c
      BY <1>3, <1>5, <1>6, <2>1 DEF InCall, Ids
    <2>2. CASE d # c
      <3>1. call[d].fn # "none" => call[d].id \in 1..tx_idx'
        BY <1>2, <1>3 DEF Inv, TxInv, InCall
      <3> QED
        BY <1>5, <1>6, <2>2, <3>1 DEF Inv, TxInv, InCall, Still
    <2> QED
      BY <2>1, <2>2
  <1>12. \A i \in Ids \ deleted : tx_pool[i] # w
    BY <1>1 DEF Inv, TxInv, Entered
  <1>13. \A d \in Callers : call[d].fn = "begin" => to[d] # w
    BY <1>1 DEF Inv, TxInv, Beginning
  <1>14. ASSUME NEW d \in Callers
         PROVE  Beginning(d)'
    <2>1. CASE d = c
      <3>1. tx_pool[tx_idx'] = Null
        <4>1. ~(tx_idx' <= tx_idx)
          BY <1>2, <1>3
        <4> QED
          BY <1>3, <4>1 DEF Inv, TxInv, Entered
      <3>2. \A e \in Callers \ {c} : call'[e].id # tx_idx' /\ (call'[e].fn = "begin" => to'[e] # w)
        BY <1>5, <1>6, <1>10, <1>13 DEF Still
      <3> QED
        BY <1>2, <1>3, <1>4, <1>5, <1>6, <1>12, <2>1, <3>1, <3>2 DEF Beginning
    <2>2. CASE d # c
      <3> SUFFICES ASSUME call[d].fn = "begin"
                   PROVE  Beginning(d)'
        BY <1>6, <2>2 DEF Beginning
      <3>1. Beginning(d) /\ to[d] # w /\ call[d].id # tx_idx'
        BY <1>10, <1>13 DEF Inv, TxInv
      <3> QED
        BY <1>2, <1>4, <1>5, <1>6, <2>2, <3>1 DEF Beginning, Still
    <2> QED
      BY <2>1, <2>2
  <1>15. ASSUME NEW i \in Ids
         PROVE  Entered(i)'
    <2>1. BeingErased(i) => BeingErased(i)'
      BY <1>2, <1>5, <1>6 DEF BeingErased, Still
    <2>2. i <= tx_idx => i <= tx_idx'
      BY <1>2, <1>3 DEF Ids
    <2>3. tx_pool[i] # Null => tx_pool[i] \in Workers
      BY DEF Inv, TxInv, TxType
    <2>4. \A v \in Workers : thd[v] # "none" => thd'[v] # "none"
      BY <1>4
    <2> QED
      BY <1>2, <2>1, <2>2, <2>3, <2>4 DEF Inv, TxInv, Entered
  <1>16. ASSUME NEW d \in Callers
         PROVE  Using(d)' /\ Ending(d)'
    <2>1. CASE d = c
      BY <1>5, <1>6, <2>1 DEF Using, Ending
    <2>2. CASE d # c
      <3>1. Using(d) /\ Ending(d)
        BY DEF Inv, TxInv
      <3> QED
        BY <1>2, <1>5, <1>6, <2>2, <3>1 DEF Using, Ending, Still
    <2> QED
      BY <2>1, <2>2
  <1>17. ASSUME NEW d \in Callers
         PROVE  Meeting(d)'
    <2>1. CASE d = c
      BY <1>2, <1>3, <1>6, <1>10, <2>1 DEF Meeting
    <2>2. CASE d # c
      <3>1. Meeting(d) /\ call[d].id # tx_idx'
        BY <1>10 DEF Inv, TxInv
      <3> QED
        BY <1>2, <1>5, <1>6, <2>2, <3>1 DEF Meeting, Still
    <2> QED
      BY <2>1, <2>2
  <1>18. ASSUME NEW v \in Workers
         PROVE  Current(v)'
    <2>1. \A j \in DOMAIN queue[v].list :
              queue[v].list[j] \in Callers /\ at[queue[v].list[j]] = "latch"
      BY DEF Inv, WorkerInv, WorkersType, QueueType, Queued, Waits
    <2>2. queue'[v].list = queue[v].list
      BY <1>4
    <2> QED
      BY <1>2, <1>6, <2>1, <2>2 DEF Inv, Current
  <1>19. ASSUME NEW d \in Callers
         PROVE  KeptUnlessMet(d)'
    <2>1. CASE d = c
      BY <1>5, <2>1 DEF KeptUnlessMet, Remembered
    <2>2. CASE d # c
      <3>1. Remembered(d) => Remembered(d)'
        BY <1>4, <1>5, <2>2, RememberedStill
      <3> QED
        BY <1>6, <2>2, <3>1 DEF Inv, KeptUnlessMet
    <2> QED
      BY <2>1, <2>2
  <1>20. SerialCallsAreSafe'
    BY <1>2 DEF Defined, SerialCallsAreSafe
  <1> QED
    BY <1>7, <1>8, <1>9, <1>11, <1>14, <1>15, <1>16, <1>17, <1>18, <1>19, <1>20 DEF Inv, TxInv
-----------------------------------------------------------------------------
(* Returning *)

\* What every return does, and what it leaves to be shown of the entries.
LEMMA LeaveFacts ==
    ASSUME Inv, NEW c \in Callers, Away(c), LeaveCall(c),
           UNCHANGED <<workerVars, tx_idx, deleted>>
    PROVE  /\ WorkerInv' /\ CallType'
           /\ \A d \in Callers : InCall(d)' /\ Ending(d)' /\ Meeting(d)' /\ KeptUnlessMet(d)'
           /\ \A w \in Workers : Current(w)'
           /\ at'[c] = "idle" /\ call'[c].fn = "none" /\ call'[c].id = 0
           /\ \A d \in Callers \ {c} : Still(d) /\ call'[d] = call[d]
  <1>1. /\ UNCHANGED <<queue, status, thd, ctx>> /\ UNCHANGED <<tx_idx, deleted>>
        /\ call' = [call EXCEPT ![c] = NoCall]
    BY DEF LeaveCall, workerVars
  <1>2. /\ at'[c] = "idle"
        /\ \A d \in Callers \ {c} : Still(d)
        /\ CallersType'
    BY DropContextFacts DEF LeaveCall, Inv
  <1>3. WorkerInv'
    <2>1. \A d \in Callers : Still(d) \/ (Away(d) /\ at'[d] # "latch" /\ Handing(d)')
      <3>1. at'[c] # "latch" /\ Handing(c)'
        BY <1>2 DEF Handing
      <3> QED
        BY <1>2, <3>1
    <2> QED
      BY <1>1, <1>2, <2>1, CallerStepKeepsInv DEF Inv, WorkerInv, WorkersType
  <1>4. call \in [Callers -> [fn : {"none", "begin", "execute", "end"}, id : Nat, met : BOOLEAN]]
    BY DEF Inv, TxInv, CallType
  <1>5. CallType'
    BY <1>1, <1>4, Zenon DEF CallType, NoCall
  <1>6. call'[c].fn = "none" /\ call'[c].id = 0
    BY <1>1, <1>4 DEF NoCall
  <1>7. \A d \in Callers \ {c} : call'[d] = call[d]
    BY <1>1, <1>4
  <1>8. 0 \notin deleted
    BY DEF Inv, TxInv, TxType
  <1>9. ASSUME NEW d \in Callers
        PROVE  InCall(d)' /\ Ending(d)' /\ Meeting(d)' /\ KeptUnlessMet(d)'
    <2>1. CASE d = c
      BY <1>1, <1>2, <1>6, <1>8, <2>1
         DEF InCall, Ending, Meeting, KeptUnlessMet, Remembered
    <2>2. CASE d # c
      <3>1. InCall(d)' /\ Ending(d)'
        BY <1>1, <1>2, <1>7, <2>2 DEF Inv, TxInv, InCall, Ending, Still
      <3>2. Meeting(d)
        BY DEF Inv, TxInv
      <3>3. Meeting(d)'
        BY <1>1, <1>2, <1>6, <1>7, <2>2, <3>2 DEF Meeting, Still
      <3>4. KeptUnlessMet(d)'
        <4>1. Remembered(d) => Remembered(d)'
          BY <1>1, <1>2, <2>2, RememberedStill
        <4> QED
          BY <1>7, <2>2, <4>1 DEF Inv, KeptUnlessMet
      <3> QED
        BY <3>1, <3>3, <3>4
    <2> QED
      BY <2>1, <2>2
  <1>10. ASSUME NEW v \in Workers
         PROVE  Current(v)'
    <2>1. \A j \in DOMAIN queue[v].list :
              queue[v].list[j] \in Callers
      BY DEF Inv, WorkerInv, WorkersType, QueueType
    <2>2. \A d \in Callers : call'[d].id = call[d].id \/ call'[d].id = 0
      BY <1>6, <1>7
    <2>3. \A j \in DOMAIN queue[v].list : call[queue[v].list[j]].id \notin deleted
      BY DEF Inv, Current
    <2> QED
      BY <1>1, <1>8, <2>1, <2>2, <2>3 DEF Current
  <1> QED
    BY <1>2, <1>3, <1>5, <1>6, <1>7, <1>9, <1>10

LEMMA BeginReturnsKeeps ==
    ASSUME Inv, Defined, NEW c \in Callers, BeginReturns(c)
    PROVE  Inv'
  <1>1. /\ call[c].fn = "begin" /\ LatchOpen(c) /\ LeaveCall(c)
        /\ tx_pool' = [tx_pool EXCEPT ![call[c].id] = to[c]]
        /\ UNCHANGED <<workerVars, tx_idx, deleted>>
    BY DEF BeginReturns, LeaveWithStatus
  <1>2. Away(c)
    BY <1>1, OpenIsAway DEF Inv
  <1>3. /\ WorkerInv' /\ CallType'
        /\ \A d \in Callers : InCall(d)' /\ Ending(d)' /\ Meeting(d)' /\ KeptUnlessMet(d)'
        /\ \A w \in Workers : Current(w)'
        /\ at'[c] = "idle" /\ call'[c].fn = "none" /\ call'[c].id = 0
        /\ \A d \in Callers \ {c} : Still(d) /\ call'[d] = call[d]
    BY <1>1, <1>2, LeaveFacts
  <1>4. PICK i \in Ids : call[c].id = i /\ i <= tx_idx
    BY <1>1 DEF Inv, TxInv, TxType, InCall, Ids
  <1>5. Beginning(c)
    BY DEF Inv, TxInv
  <1>6. PICK w \in Workers : to[c] = w /\ thd[w] # "none"
    BY <1>1, <1>5 DEF Beginning
  <1>7. /\ i \notin deleted
        /\ \A d \in Callers \ {c} : call[d].id # i /\ (call[d].fn = "begin" => to[d] # w)
        /\ \A j \in Ids \ deleted : tx_pool[j] # w
    BY <1>1, <1>4, <1>5, <1>6 DEF Beginning
  <1>8. tx_pool' \in [Ids -> Workers \cup {Null}] /\ tx_pool'[i] = w
        /\ \A j \in Ids \ {i} : tx_pool'[j] = tx_pool[j]
    BY <1>1, <1>4, <1>6 DEF Inv, TxInv, TxType
  <1>9. TxType'
    BY <1>1, <1>8 DEF Inv, TxInv, TxType
  <1>10. UNCHANGED <<tx_idx, deleted, thd>>
    BY <1>1 DEF workerVars
  <1>11. ASSUME NEW d \in Callers
         PROVE  Beginning(d)'
    <2> SUFFICES ASSUME d # c, call[d].fn = "begin"
                 PROVE  Beginning(d)'
      BY <1>3 DEF Beginning
    <2>1. Beginning(d) /\ call[d].id # i /\ to[d] # w
      BY <1>7 DEF Inv, TxInv
    <2>2. call[d].id \in Ids
      BY DEF Inv, TxInv, TxType, InCall, Ids
    <2>3. tx_pool'[call[d].id] = Null
      BY <1>8, <2>1, <2>2 DEF Beginning
    <2>4. \A j \in Ids \ deleted : tx_pool'[j] # to[d]
      BY <1>8, <2>1 DEF Beginning
    <2>5. \A e \in Callers \ {d} :
              call'[e].id # call[d].id /\ (call'[e].fn = "begin" => to'[e] # to[d])
      <3> TAKE e \in Callers \ {d}
      <3>1. CASE e = c
        BY <1>3, <2>2, <3>1 DEF Ids
      <3>2. CASE e # c
        BY <1>3, <2>1, <3>2 DEF Beginning, Still
      <3> QED
        BY <3>1, <3>2
    <2> QED
      BY <1>3, <1>10, <2>1, <2>3, <2>4, <2>5 DEF Beginning, Still
  <1>12. ASSUME NEW j \in Ids
         PROVE  Entered(j)'
    <2>1. CASE j = i
      BY <1>4, <1>6, <1>7, <1>8, <1>10, <2>1 DEF Entered
    <2>2. CASE j # i
      <3>1. BeingErased(j) => BeingErased(j)'
        BY <1>1, <1>3 DEF BeingErased, LatchOpen, Still
      <3>2. Entered(j)
        BY DEF Inv, TxInv
      <3>3. j \notin deleted => tx_pool[j] # w
        BY <1>7
      <3> QED
        BY <1>8, <1>10, <2>2, <3>1, <3>2, <3>3 DEF Entered
    <2> QED
      BY <2>1, <2>2
  <1>13. ASSUME NEW d \in Callers
         PROVE  Using(d)'
    <2>1. CASE d = c
      BY <1>3, <2>1 DEF Using
    <2>2. CASE d # c
      <3>1. call[d].id # i /\ (call[d].fn # "none" => call[d].id \in Ids) /\ Using(d)
        BY <1>7, <2>2 DEF Inv, TxInv, TxType, InCall, Ids
      <3> QED
        BY <1>3, <1>8, <1>10, <2>2, <3>1 DEF Using, Still
    <2> QED
      BY <2>1, <2>2
  <1>14. SerialCallsAreSafe'
    <2>1. undefined' \in {"no_result", "no"}
      BY DEF BeginReturns, LeaveWithStatus
    <2> QED
      BY <2>1 DEF SerialCallsAreSafe
  <1> QED
    BY <1>3, <1>9, <1>11, <1>12, <1>13, <1>14 DEF Inv, TxInv

LEMMA ExecuteReturnsKeeps ==
    ASSUME Inv, Defined, NEW c \in Callers, ExecuteReturns(c)
    PROVE  Inv'
  <1>1. /\ call[c].fn = "execute" /\ (at[c] = "refused" \/ LatchOpen(c)) /\ LeaveCall(c)
        /\ UNCHANGED <<workerVars, tx_pool, tx_idx, deleted, undefined>>
    BY DEF ExecuteReturns
  <1>2. Away(c) /\ at[c] # "erase"
    BY <1>1, OpenIsAway DEF Inv, Away, LatchOpen
  <1>3. /\ WorkerInv' /\ CallType'
        /\ \A d \in Callers : InCall(d)' /\ Ending(d)' /\ Meeting(d)' /\ KeptUnlessMet(d)'
        /\ \A w \in Workers : Current(w)'
        /\ at'[c] = "idle" /\ call'[c].fn = "none" /\ call'[c].id = 0
        /\ \A d \in Callers \ {c} : Still(d) /\ call'[d] = call[d]
    BY <1>1, <1>2, LeaveFacts
  <1>4. UNCHANGED <<tx_pool, tx_idx, deleted, thd>>
    BY <1>1 DEF workerVars
  <1>5. TxType'
    BY <1>4 DEF Inv, TxInv, TxType
  <1>6. ASSUME NEW d \in Callers
        PROVE  Beginning(d)'
    <2> SUFFICES ASSUME d # c, call[d].fn = "begin"
                 PROVE  Beginning(d)'
      BY <1>3 DEF Beginning
    <2>1. Beginning(d)
      BY DEF Inv, TxInv
    <2>2. call[d].id # 0
      BY DEF Inv, TxInv, TxType, InCall
    <2> QED
      BY <1>3, <1>4, <2>1, <2>2 DEF Beginning, Still
  <1>7. ASSUME NEW j \in Ids
        PROVE  Entered(j)'
    <2>1. BeingErased(j) => BeingErased(j)'
      BY <1>2, <1>3 DEF BeingErased, Still
    <2>2. Entered(j)
      BY DEF Inv, TxInv
    <2> QED
      BY <1>4, <2>1, <2>2 DEF Entered
  <1>8. ASSUME NEW d \in Callers
        PROVE  Using(d)'
    <2>1. Using(d)
      BY DEF Inv, TxInv
    <2> QED
      BY <1>3, <1>4, <2>1 DEF Using, Still
  <1>9. SerialCallsAreSafe'
    BY <1>1 DEF Defined, SerialCallsAreSafe
  <1> QED
    BY <1>3, <1>5, <1>6, <1>7, <1>8, <1>9 DEF Inv, TxInv

LEMMA EndReturnsKeeps ==
    ASSUME Inv, Defined, NEW c \in Callers, EndReturns(c)
    PROVE  Inv'
  <1>1. /\ at[c] = "erase" /\ LeaveCall(c)
        /\ tx_pool' = [tx_pool EXCEPT ![call[c].id] = Null]
        /\ UNCHANGED <<workerVars, tx_idx, deleted>>
    BY DEF EndReturns, LeaveWithStatus
  <1>2. Away(c)
    BY <1>1 DEF Away
  <1>3. /\ WorkerInv' /\ CallType'
        /\ \A d \in Callers : InCall(d)' /\ Ending(d)' /\ Meeting(d)' /\ KeptUnlessMet(d)'
        /\ \A w \in Workers : Current(w)'
        /\ at'[c] = "idle" /\ call'[c].fn = "none" /\ call'[c].id = 0
        /\ \A d \in Callers \ {c} : Still(d) /\ call'[d] = call[d]
    BY <1>1, <1>2, LeaveFacts
  <1>4. UNCHANGED <<tx_idx, deleted, thd>>
    BY <1>1 DEF workerVars
  <1>5. PICK i \in Ids : call[c].id = i /\ i \in deleted
    <2>1. call[c].id \in deleted
      BY <1>1 DEF Inv, TxInv, Ending
    <2>2. deleted \subseteq Ids
      BY DEF Inv, TxInv, TxType, Ids
    <2> QED
      BY <2>1, <2>2
  <1>6. /\ tx_pool' \in [Ids -> Workers \cup {Null}] /\ tx_pool'[i] = Null
        /\ \A j \in Ids \ {i} : tx_pool'[j] = tx_pool[j]
    BY <1>1, <1>5 DEF Inv, TxInv, TxType
  <1>7. TxType'
    BY <1>4, <1>6 DEF Inv, TxInv, TxType
  <1>8. ASSUME NEW d \in Callers
        PROVE  Beginning(d)'
    <2> SUFFICES ASSUME d # c, call[d].fn = "begin"
                 PROVE  Beginning(d)'
      BY <1>3 DEF Beginning
    <2>1. Beginning(d)
      BY DEF Inv, TxInv
    <2>2. call[d].id # 0 /\ call[d].id \in Ids
      BY DEF Inv, TxInv, TxType, InCall, Ids
    <2>3. tx_pool'[call[d].id] = Null
      BY <1>6, <2>1, <2>2 DEF Beginning
    <2>4. \A j \in Ids \ deleted : tx_pool'[j] # to[d]
      BY <1>5, <1>6, <2>1 DEF Beginning
    <2> QED
      BY <1>3, <1>4, <2>1, <2>2, <2>3, <2>4 DEF Beginning, Still
  <1>9. ASSUME NEW j \in Ids
        PROVE  Entered(j)'
    <2> SUFFICES ASSUME j # i
                 PROVE  Entered(j)'
      BY <1>6 DEF Entered
    <2>1. BeingErased(j) => BeingErased(j)'
      BY <1>3, <1>5 DEF BeingErased, Still
    <2>2. Entered(j)
      BY DEF Inv, TxInv
    <2> QED
      BY <1>4, <1>5, <1>6, <2>1, <2>2 DEF Entered
  <1>10. ASSUME NEW d \in Callers
         PROVE  Using(d)'
    <2>1. Using(d) /\ (call[d].fn # "none" => call[d].id \in Ids)
      BY DEF Inv, TxInv, TxType, InCall, Ids
    <2> QED
      BY <1>3, <1>4, <1>5, <1>6, <2>1 DEF Using, Still
  <1>11. SerialCallsAreSafe'
    <2>1. undefined' \in {"no_result", "no"}
      BY DEF EndReturns, LeaveWithStatus
    <2> QED
      BY <2>1 DEF SerialCallsAreSafe
  <1> QED
    BY <1>3, <1>7, <1>8, <1>9, <1>10, <1>11 DEF Inv, TxInv
-----------------------------------------------------------------------------
(* tx_execute and tx_end *)

LEMMA FollowKeeps ==
    ASSUME Inv, Defined, NEW c \in Callers, Follow(c)
    PROVE  Inv'
  <1>1. at[c] = "found" /\ UNCHANGED <<workerVars, tx_pool, tx_idx, call, deleted>>
    BY DEF Follow
  <1>2. call[c].fn \in {"execute", "end"} /\ call[c].id \in Ids
    BY <1>1 DEF Inv, TxInv, CallType, TxType, InCall, Ids
  <1>3. CASE tx_pool[call[c].id] = Null
    <2>1. undefined' = "erased_entry" /\ UNCHANGED callerVars
      BY <1>3 DEF Follow, Undefined
    <2>2. call[c].id \in deleted
      BY <1>2, <1>3 DEF Inv, TxInv, Using
    <2>3. call[c].met
      BY <1>1, <2>2 DEF Inv, TxInv, Meeting
    <2>4. SerialCallsAreSafe'
      BY <1>1, <2>3 DEF SerialCallsAreSafe
    <2> QED
      BY <1>1, <2>1, <2>4, NothingElseKeeps
  <1>4. CASE tx_pool[call[c].id] # Null
    <2>1. PICK w \in Workers : w = tx_pool[call[c].id]
      BY <1>2, <1>4 DEF Inv, TxInv, TxType
    <2>2. PICK tries \in {1, Tries} : NewContext(c, w, tries) /\ Goes(c, "add") /\ UNCHANGED undefined
      BY <1>4, <2>1 DEF Follow
    <2>3. /\ at'[c] = "add" /\ to'[c] = w /\ Untouched(c)'
          /\ \A d \in Callers \ {c} : Still(d)
          /\ CallersType'
      BY <2>2, NewContextFacts DEF Inv
    <2>4. UNCHANGED <<queue, status, thd, ctx>> /\ UNCHANGED <<tx_pool, tx_idx, call, deleted>>
      BY <1>1 DEF workerVars
    <2>5. WorkerInv'
      <3>1. \A d \in Callers : Still(d) \/ (Away(d) /\ at'[d] # "latch" /\ Handing(d)')
        <4>1. Away(c) /\ at'[c] # "latch" /\ Handing(c)'
          BY <1>1, <2>3 DEF Away, Handing, Untouched
        <4> QED
          BY <2>3, <4>1
      <3> QED
        BY <2>3, <2>4, <3>1, CallerStepKeepsInv DEF Inv, WorkerInv, WorkersType
    <2>6. TxType' /\ CallType'
      BY <2>4 DEF Inv, TxInv, TxType, CallType
    <2>7. ASSUME NEW d \in Callers
          PROVE  InCall(d)' /\ Using(d)' /\ Ending(d)' /\ Meeting(d)' /\ KeptUnlessMet(d)'
      <3>1. InCall(d) /\ Using(d) /\ Ending(d) /\ Meeting(d) /\ KeptUnlessMet(d)
        BY DEF Inv, TxInv
      <3>2. CASE d = c
        <4>1. InCall(c)' /\ Using(c)' /\ Ending(c)'
          BY <1>1, <1>2, <2>1, <2>3, <2>4, <3>1, <3>2 DEF InCall, Using, Ending
        <4>2. Meeting(c)'
          BY <1>1, <2>3, <2>4, <3>1, <3>2 DEF Meeting
        <4>3. KeptUnlessMet(c)'
          BY <2>3 DEF KeptUnlessMet, Remembered
        <4> QED
          BY <3>2, <4>1, <4>2, <4>3
      <3>3. CASE d # c
        <4>1. InCall(d)' /\ Using(d)' /\ Ending(d)'
          BY <2>3, <2>4, <3>1, <3>3 DEF InCall, Using, Ending, Still
        <4>2. Meeting(d)'
          BY <2>3, <2>4, <3>1, <3>3 DEF Meeting, Still
        <4>3. Remembered(d) => Remembered(d)'
          BY <2>3, <2>4, <3>3, RememberedStill
        <4>4. KeptUnlessMet(d)'
          BY <2>4, <3>1, <4>3 DEF KeptUnlessMet
        <4> QED
          BY <4>1, <4>2, <4>4
      <3> QED
        BY <3>2, <3>3
    <2>8. ASSUME NEW d \in Callers
          PROVE  Beginning(d)'
      <3> SUFFICES ASSUME d # c, call[d].fn = "begin"
                   PROVE  Beginning(d)'
        BY <1>2, <2>4 DEF Beginning
      <3>1. Beginning(d)
        BY DEF Inv, TxInv
      <3> QED
        BY <1>2, <2>3, <2>4, <3>1 DEF Beginning, Still
    <2>9. ASSUME NEW i \in Ids
          PROVE  Entered(i)'
      <3>1. BeingErased(i) => BeingErased(i)'
        BY <1>1, <2>3, <2>4 DEF BeingErased, Still
      <3>2. Entered(i)
        BY DEF Inv, TxInv
      <3> QED
        BY <2>4, <3>1, <3>2 DEF Entered
    <2>10. \A v \in Workers : Current(v)'
      BY <2>4 DEF Inv, Current
    <2>11. SerialCallsAreSafe'
      BY <2>2 DEF Defined, SerialCallsAreSafe
    <2> QED
      BY <2>5, <2>6, <2>7, <2>8, <2>9, <2>10, <2>11 DEF Inv, TxInv
  <1> QED
    BY <1>3, <1>4

\* A call on a deleted worker overlaps with the tx_end that deleted it.
LEMMA GoneKeeps ==
    ASSUME Inv, NEW c \in Callers, call[c].met,
           UNCHANGED <<workerVars, callerVars, tx_pool, tx_idx, call, deleted>>
    PROVE  Inv'
  <1>1. SerialCallsAreSafe'
    BY DEF SerialCallsAreSafe
  <1> QED
    BY <1>1, NothingElseKeeps

\* add_block on a queue that has elements meets the caller of the first.
LEMMA FullIsMet ==
    ASSUME Inv, NEW c \in Callers, Active(c), at[c] # "latch", isfull(queue[to[c]])
    PROVE  call[c].met
  <1>1. PICK w \in Workers : to[c] = w
    BY ActiveWorker DEF Inv
  <1>2. PICK l \in Seq(Callers) : l = queue[w].list
    BY DEF Inv, WorkerInv, WorkersType, QueueType
  <1>3. 1 \in DOMAIN l
    BY <1>1, <1>2, MaxSizeAssumption DEF isfull
  <1>4. PICK e \in Callers : e = l[1]
    BY <1>2, <1>3
  <1>5. at[e] = "latch" /\ to[e] = w
    BY <1>2, <1>3, <1>4 DEF Inv, WorkerInv, Queued, Waits
  <1>6. call[e].id \notin deleted
    BY <1>2, <1>3, <1>4 DEF Inv, Current
  <1>7. Active(e) /\ e # c
    BY <1>5, <1>6 DEF Active
  <1>8. call[e].id = call[c].id
    BY <1>1, <1>5, <1>7, OneTransactionPerWorker DEF Inv
  <1>9. call[c].id # 0
    <2>1. call[c].id \in Ids
      BY ActiveWorker DEF Inv
    <2> QED
      BY <2>1 DEF Ids
  <1> QED
    BY <1>7, <1>8, <1>9 DEF Inv, TxInv, Meeting

LEMMA AddTaskKeeps ==
    ASSUME Inv, Defined, NEW c \in Callers, AddTask(c)
    PROVE  Inv'
  <1>1. at[c] \in {"add", "blocked"} /\ UNCHANGED <<tx_pool, tx_idx, call, deleted>>
    BY DEF AddTask
  <1>2. CASE WorkerGone(c)
    <2>1. call[c].met
      BY <1>1, <1>2 DEF WorkerGone, Inv, TxInv, Meeting
    <2>2. UNCHANGED <<workerVars, callerVars>>
      BY <1>2 DEF AddTask
    <2> QED
      BY <1>1, <2>1, <2>2, GoneKeeps
  <1>3. CASE ~WorkerGone(c)
    <2>1. PICK r \in {"refused", "latch"} : r = IF call[c].fn = "execute" THEN "refused" ELSE "latch"
      OBVIOUS
    <2>2. (AddContext(c, r) \/ AddSleep(c)) /\ undefined' = undefined
      BY <1>3, <2>1 DEF AddTask
    <2>3. Active(c)
      BY <1>1, <1>3 DEF WorkerGone, Active
    <2>4. to[c] \in Workers /\ thd[to[c]] # "none"
      BY <2>3, ActiveWorker DEF Inv
    <2>5. SerialCallsAreSafe'
      BY <2>2 DEF Defined, SerialCallsAreSafe
    <2>6. CASE AddSleep(c)
      <3>1. WorkerInv'
        BY <2>6, AddSleepKeepsInv DEF Inv
      <3>2. UNCHANGED <<thd, to>> /\ at' = [at EXCEPT ![c] = "blocked"]
        BY <2>6 DEF AddSleep, Goes
      <3>3. at'[c] = "blocked" /\ \A d \in Callers \ {c} : at'[d] = at[d]
        BY <3>2 DEF Inv, WorkerInv, CallersType
      <3>4. ASSUME NEW d \in Callers
            PROVE  InCall(d)' /\ Ending(d)'
        <4>1. InCall(d) /\ Ending(d)
          BY DEF Inv, TxInv
        <4> QED
          BY <1>1, <3>3, <4>1 DEF InCall, Ending
      <3>5. TxInv'
        BY <1>1, <3>2, <3>3, <3>4, MovingOn DEF Inv
      <3>6. \A v \in Workers : Current(v)'
        <4>1. SleepFull(queue[to[c]], c).list = queue[to[c]].list
          BY <2>4, WaitLeavesList DEF Inv, WorkerInv, WorkersType
        <4>2. \A v \in Workers : queue'[v].list = queue[v].list
          BY <2>4, <2>6, <4>1 DEF AddSleep, Inv, WorkerInv, WorkersType
        <4> QED
          BY <1>1, <4>2 DEF Inv, Current
      <3>7. \A d \in Callers : KeptUnlessMet(d)'
        BY <1>1, <2>6, AddSleepRemembers DEF Inv, KeptUnlessMet
      <3> QED
        BY <2>5, <3>1, <3>5, <3>6, <3>7 DEF Inv
    <2>7. CASE AddContext(c, r)
      <3>1. WorkerInv'
        BY <2>4, <2>7, AddContextKeepsInv DEF Inv
      <3>2. PICK w \in Workers : Added(c, r, w)
        BY <2>7, AddContextFacts DEF Inv, Calling
      <3>3. /\ UNCHANGED <<thd, to>> /\ at'[c] \in {"latch", r}
            /\ \A d \in Callers \ {c} : at'[d] = at[d]
            /\ queue'[w].list = queue[w].list \/ queue'[w].list = Append(queue[w].list, c)
            /\ \A v \in Workers \ {w} : queue'[v] = queue[v]
        BY <3>2 DEF Added
      <3>4. ASSUME NEW d \in Callers
            PROVE  InCall(d)' /\ Ending(d)'
        <4>1. InCall(d) /\ Ending(d)
          BY DEF Inv, TxInv
        <4> QED
          BY <1>1, <2>1, <3>3, <4>1 DEF InCall, Ending
      <3>5. TxInv'
        BY <1>1, <3>3, <3>4, MovingOn DEF Inv
      <3>6. ASSUME NEW v \in Workers
            PROVE  Current(v)'
        <4>1. CASE v # w \/ queue'[w].list = queue[w].list
          BY <1>1, <3>3, <4>1 DEF Inv, Current
        <4>2. CASE v = w /\ queue'[w].list = Append(queue[w].list, c)
          <5>1. PICK l \in Seq(Callers) : l = queue[w].list
            BY DEF Inv, WorkerInv, WorkersType, QueueType
          <5>2. \A i \in DOMAIN Append(l, c) : Append(l, c)[i] = c \/ (i \in DOMAIN l /\ Append(l, c)[i] = l[i])
            BY <5>1
          <5>3. \A i \in DOMAIN l : call[l[i]].id \notin deleted
            BY <5>1 DEF Inv, Current
          <5> QED
            BY <1>1, <2>3, <4>2, <5>1, <5>2, <5>3 DEF Active, Current
        <4> QED
          BY <3>3, <4>1, <4>2
      <3>7. ASSUME NEW d \in Callers
            PROVE  KeptUnlessMet(d)'
        <4> SUFFICES ASSUME ~call[d].met, FALSE \notin NodeAlloc
                     PROVE  Remembered(d)'
          BY <1>1 DEF KeptUnlessMet
        <4>1. Remembered(d)
          BY DEF Inv, KeptUnlessMet
        <4>2. d = c => ~isfull(queue[to[c]])
          BY <1>1, <2>3, FullIsMet
        <4> QED
          BY <2>7, <4>1, <4>2, AddContextRemembers DEF Inv
      <3> QED
        BY <2>5, <3>1, <3>5, <3>6, <3>7 DEF Inv
    <2> QED
      BY <2>2, <2>6, <2>7
  <1> QED
    BY <1>2, <1>3
-----------------------------------------------------------------------------
(* tx_end *)

LEMMA EndStopsKeeps ==
    ASSUME Inv, Defined, NEW c \in Callers, EndStops(c)
    PROVE  Inv'
  <1>1. /\ call[c].fn = "end" /\ at[c] = "latch" /\ LatchOpen(c)
        /\ UNCHANGED <<tx_pool, tx_idx, call>>
    BY DEF EndStops, UsesWorker, LatchOpen
  <1>2. CASE WorkerGone(c)
    <2>1. call[c].met
      BY <1>1, <1>2 DEF WorkerGone, Inv, TxInv, Meeting
    <2>2. UNCHANGED <<workerVars, callerVars, deleted>>
      BY <1>2 DEF EndStops, UsesWorker, Gone
    <2> QED
      BY <1>1, <2>1, <2>2, GoneKeeps
  <1>3. CASE ~WorkerGone(c)
    <2>1. /\ status' = [status EXCEPT ![to[c]] = 0]
          /\ at' = [at EXCEPT ![c] = "clear"]
          /\ UNCHANGED <<queue, thd, ctx, deleted>> /\ UNCHANGED <<to, latch, result, left, undefined>>
      BY <1>3 DEF EndStops, UsesWorker, Gone, Goes
    <2>2. at'[c] = "clear" /\ \A d \in Callers \ {c} : Still(d)
      BY <2>1 DEF Inv, WorkerInv, CallersType, Still
    <2>3. WorkerInv'
      <3>1. status' \in [Workers -> 0..2]
        <4>1. status \in [Workers -> 0..2]
          BY DEF Inv, WorkerInv, WorkersType
        <4>2. \A v \in Workers : [status EXCEPT ![v] = 0] \in [Workers -> 0..2]
          BY <4>1
        <4>3. to[c] \in Workers
          BY <1>1, <1>3, ActiveWorker DEF Active, WorkerGone, Inv
        <4> QED
          BY <2>1, <4>2, <4>3
      <3>3. CallersType'
        BY <2>1 DEF Inv, WorkerInv, CallersType, Calling
      <3>2. \A d \in Callers : Still(d) \/ (Away(d) /\ at'[d] # "latch" /\ Handing(d)')
        <4>1. Away(c)
          BY <1>1, OpenIsAway DEF Inv
        <4>2. at'[c] # "latch" /\ Handing(c)'
          BY <2>2 DEF Handing
        <4> QED
          BY <2>2, <4>1, <4>2
      <3> QED
        BY <2>1, <3>1, <3>2, <3>3, CallerStepKeepsInv DEF Inv
    <2>4. ASSUME NEW d \in Callers
          PROVE  InCall(d)' /\ Ending(d)'
      <3>1. InCall(d) /\ Ending(d)
        BY DEF Inv, TxInv
      <3> QED
        BY <1>1, <2>1, <2>2, <3>1 DEF InCall, Ending, Still
    <2>5. TxInv'
      <3>1. \A d \in Callers : /\ at'[d] = "found" <=> at[d] = "found"
                               /\ at'[d] = "erase" <=> at[d] = "erase"
        BY <1>1, <2>2 DEF Still
      <3> QED
        BY <1>1, <2>1, <2>4, <3>1, MovingOn DEF Inv
    <2>6. \A v \in Workers : Current(v)'
      BY <1>1, <2>1 DEF Inv, Current
    <2>7. ASSUME NEW d \in Callers
          PROVE  KeptUnlessMet(d)'
      <3>1. CASE d = c
        BY <2>2, <3>1 DEF KeptUnlessMet, Remembered
      <3>2. CASE d # c
        <4>1. Remembered(d) => Remembered(d)'
          BY <2>1, <2>2, <3>2, RememberedStill
        <4> QED
          BY <1>1, <4>1 DEF Inv, KeptUnlessMet
      <3> QED
        BY <3>1, <3>2
    <2>8. SerialCallsAreSafe'
      BY <2>1 DEF Defined, SerialCallsAreSafe
    <2> QED
      BY <2>3, <2>5, <2>6, <2>7, <2>8 DEF Inv
  <1> QED
    BY <1>2, <1>3

\* A step of c at its own worker, which empties that worker's queue: nobody
\* else's context was in it, unless that caller has met c.
LEMMA ClearedKeeps ==
    ASSUME Inv, NEW c \in Callers, Active(c), NEW d \in Callers \ {c}, Still(d),
           \A v \in Workers \ {to[c]} : queue'[v].list = queue[v].list,
           ctx' = ctx, call' = call
    PROVE  KeptUnlessMet(d)'
  <1> SUFFICES ASSUME ~call[d].met, FALSE \notin NodeAlloc
               PROVE  Remembered(d)'
    BY DEF KeptUnlessMet
  <1>1. Remembered(d)
    BY DEF Inv, KeptUnlessMet
  <1>2. at[d] = "latch" => to[d] # to[c]
    BY StrangersApart
  <1> QED
    BY <1>1, <1>2 DEF Remembered, Kept, Still

LEMMA EndClearsKeeps ==
    ASSUME Inv, Defined, NEW c \in Callers, EndClears(c)
    PROVE  Inv'
  <1>1. at[c] = "clear" /\ UNCHANGED <<tx_pool, tx_idx, call>>
    BY DEF EndClears, UsesWorker
  <1>2. call[c].fn = "end" /\ call[c].id # 0
    BY <1>1 DEF Inv, TxInv, CallType, TxType, InCall
  <1>3. CASE WorkerGone(c) \/ \E d \in Callers : at[d] = "join" /\ call[d].id = call[c].id
    <2>1. call[c].met
      <3>1. CASE WorkerGone(c)
        BY <1>1, <3>1 DEF WorkerGone, Inv, TxInv, Meeting
      <3>2. CASE \E d \in Callers : at[d] = "join" /\ call[d].id = call[c].id
        BY <1>1, <1>2, <3>2 DEF Inv, TxInv, Meeting
      <3> QED
        BY <1>3, <3>1, <3>2
    <2>2. UNCHANGED <<workerVars, callerVars, deleted>>
      BY <1>3 DEF EndClears, UsesWorker, Gone
    <2> QED
      BY <1>1, <2>1, <2>2, GoneKeeps
  <1>4. CASE ~WorkerGone(c) /\ ~\E d \in Callers : at[d] = "join" /\ call[d].id = call[c].id
    <2>1. /\ \E q \in AfterClear(queue[to[c]]) : queue' = [queue EXCEPT ![to[c]] = q]
          /\ at' = [at EXCEPT ![c] = "join"]
          /\ UNCHANGED <<status, thd, ctx, deleted>> /\ UNCHANGED <<to, latch, result, left, undefined>>
      BY <1>4 DEF EndClears, UsesWorker, Gone, Goes
    <2>2. Active(c)
      BY <1>1, <1>4 DEF WorkerGone, Active
    <2>3. PICK w \in Workers : to[c] = w
      BY <2>2, ActiveWorker DEF Inv
    <2>4. PICK q \in AfterClear(queue[w]) : queue' = [queue EXCEPT ![w] = q]
      BY <2>1, <2>3
    <2>5. queue \in [Workers -> QueueType(Callers, Workers)]
      BY DEF Inv, WorkerInv, WorkersType
    <2>6. /\ q \in QueueType(Callers, Workers) /\ q.list = <<>>
          /\ q.empty_cond \subseteq queue[w].empty_cond
      BY <2>4, <2>5, ClearFacts, SignalledShrinks
    <2>7. /\ queue'[w] = q /\ \A v \in Workers \ {w} : queue'[v] = queue[v]
          /\ queue' \in [Workers -> QueueType(Callers, Workers)]
      BY <2>4, <2>5, <2>6
    <2>8. at'[c] = "join" /\ \A d \in Callers \ {c} : Still(d)
      BY <2>1 DEF Inv, WorkerInv, CallersType, Still
    <2>9. WorkerInv'
      <3>1. WorkersType' /\ CallersType'
        BY <2>1, <2>7 DEF Inv, WorkerInv, WorkersType, CallersType, Calling
      <3>2. \A d \in Callers : Still(d) \/ (Away(d) /\ at'[d] # "latch" /\ Handing(d)')
        <4>1. Away(c) /\ at'[c] # "latch" /\ Handing(c)'
          BY <1>1, <2>8 DEF Away, Handing
        <4> QED
          BY <2>8, <4>1
      <3>3. \A v \in Workers : Sleeps(v)'
        BY <2>1, <2>6, <2>7 DEF Inv, WorkerInv, Sleeps
      <3>4. \A v \in Workers : queue'[v].list = queue[v].list \/ queue'[v].list = <<>>
        BY <2>6, <2>7
      <3>5. ctx' = ctx /\ \A v \in Workers : thd'[v] = thd[v]
        BY <2>1
      <3> QED
        BY <3>1, <3>2, <3>3, <3>4, <3>5, QuietStep DEF Inv
    <2>10. ASSUME NEW d \in Callers
           PROVE  InCall(d)' /\ Ending(d)'
      <3>1. InCall(d) /\ Ending(d)
        BY DEF Inv, TxInv
      <3>2. CASE d = c
        <4>1. InCall(c)'
          BY <1>1, <1>2, <2>1, <2>8, <3>1, <3>2 DEF InCall
        <4>2. \A e \in Callers : at'[e] = "join" /\ call[e].id = call[c].id => e = c
          BY <1>4, <2>8 DEF Still
        <4>3. call[c].id \notin deleted
          BY <1>4 DEF WorkerGone
        <4> QED
          BY <1>1, <2>1, <2>8, <3>2, <4>1, <4>2, <4>3 DEF Ending
      <3>3. CASE d # c
        <4>1. at'[d] = at[d] /\ \A e \in Callers \ {c} : at'[e] = at[e]
          BY <2>8, <3>3 DEF Still
        <4>2. at[d] = "join" => call[c].id # call[d].id
          BY <1>4
        <4>3. InCall(d)'
          BY <1>1, <3>1, <4>1 DEF InCall
        <4> QED
          BY <1>1, <2>1, <3>1, <4>1, <4>2, <4>3 DEF Ending
      <3> QED
        BY <3>2, <3>3
    <2>11. TxInv'
      <3>1. \A d \in Callers : /\ at'[d] = "found" <=> at[d] = "found"
                               /\ at'[d] = "erase" <=> at[d] = "erase"
        BY <1>1, <2>8 DEF Still
      <3> QED
        BY <1>1, <2>1, <2>10, <3>1, MovingOn DEF Inv
    <2>12. ASSUME NEW v \in Workers
           PROVE  Current(v)'
      <3>1. CASE v = w
        BY <2>6, <2>7, <3>1 DEF Current
      <3>2. CASE v # w
        BY <1>1, <2>1, <2>7, <3>2 DEF Inv, Current
      <3> QED
        BY <3>1, <3>2
    <2>13. ASSUME NEW d \in Callers
           PROVE  KeptUnlessMet(d)'
      <3>1. CASE d = c
        BY <2>8, <3>1 DEF KeptUnlessMet, Remembered
      <3>2. CASE d # c
        <4>1. \A v \in Workers \ {to[c]} : queue'[v].list = queue[v].list
          BY <2>3, <2>7
        <4> QED
          BY <1>1, <2>1, <2>2, <2>8, <3>2, <4>1, ClearedKeeps
      <3> QED
        BY <3>1, <3>2
    <2>14. SerialCallsAreSafe'
      BY <2>1 DEF Defined, SerialCallsAreSafe
    <2> QED
      BY <2>9, <2>11, <2>12, <2>13, <2>14 DEF Inv
  <1> QED
    BY <1>3, <1>4

LEMMA EndJoinsKeeps ==
    ASSUME Inv, Defined, NEW c \in Callers, EndJoins(c)
    PROVE  Inv'
  <1>1. /\ at[c] = "join" /\ thd[to[c]] = "ended"
        /\ thd' = [thd EXCEPT ![to[c]] = "none"]
        /\ queue' = [queue EXCEPT ![to[c]] = NewQueue]
        /\ deleted' = deleted \cup {call[c].id}
        /\ at' = [at EXCEPT ![c] = "erase"]
        /\ UNCHANGED <<status, ctx, to, latch, result, left, undefined>>
        /\ UNCHANGED <<tx_pool, tx_idx, call>>
    BY DEF EndJoins, UsesWorker, Goes
  <1>2. /\ call[c].fn = "end" /\ call[c].id # 0 /\ call[c].id \in 1..tx_idx
        /\ call[c].id \notin deleted
    BY <1>1 DEF Inv, TxInv, CallType, TxType, InCall, Ending
  <1>3. Active(c)
    BY <1>1, <1>2 DEF Active
  <1>4. PICK w \in Workers : to[c] = w /\ tx_pool[call[c].id] = w
    BY <1>2, <1>3, ActiveWorker DEF Inv
  <1>5. PICK i \in Ids : call[c].id = i
    BY <1>3, ActiveWorker DEF Inv
  <1>6. at'[c] = "erase" /\ \A d \in Callers \ {c} : Still(d)
    BY <1>1 DEF Inv, WorkerInv, CallersType, Still
  <1>7. /\ thd'[w] = "none" /\ queue'[w].list = <<>>
        /\ \A v \in Workers \ {w} : thd'[v] = thd[v] /\ queue'[v] = queue[v]
    BY <1>1, <1>4 DEF Inv, WorkerInv, WorkersType, NewQueue
  <1>8. WorkerInv'
    <2>1. CallersType'
      BY <1>1 DEF Inv, WorkerInv, CallersType, Calling
    <2>2. \A d \in Callers : Still(d) \/ (Away(d) /\ at'[d] # "latch" /\ Handing(d)')
      <3>1. Away(c) /\ at'[c] # "latch" /\ Handing(c)'
        BY <1>1, <1>6 DEF Away, Handing
      <3> QED
        BY <1>6, <3>1
    <2> QED
      BY <1>1, <1>4, <2>1, <2>2, DeleteKeepsInv DEF Inv
  <1>9. TxType'
    BY <1>1, <1>2 DEF Inv, TxInv, TxType
  <1>10. CallType'
    BY <1>1 DEF Inv, TxInv, CallType
  <1>11. \A d \in Callers \ {c} : call[d].fn = "begin" => call[d].id # i /\ to[d] # w
    <2> SUFFICES ASSUME NEW d \in Callers \ {c}, call[d].fn = "begin"
                 PROVE  call[d].id # i /\ to[d] # w
      OBVIOUS
    <2>1. Beginning(d)
      BY DEF Inv, TxInv
    <2> QED
      BY <1>2, <1>4, <1>5, <2>1 DEF Beginning
  <1>12. ASSUME NEW d \in Callers
         PROVE  InCall(d)' /\ Ending(d)' /\ Using(d)' /\ Meeting(d)'
    <2>1. InCall(d) /\ Ending(d) /\ Using(d) /\ Meeting(d) /\ Ending(c)
      BY DEF Inv, TxInv
    <2>2. CASE d = c
      <3>1. InCall(c)'
        BY <1>1, <1>2, <1>6, <2>1, <2>2 DEF InCall
      <3>2. Ending(c)' /\ Using(c)'
        BY <1>1, <1>6 DEF Ending, Using
      <3>3. Meeting(c)'
        BY <1>1, <1>6, <2>1, <2>2 DEF Meeting
      <3> QED
        BY <2>2, <3>1, <3>2, <3>3
    <2>3. CASE d # c
      <3>1. at'[d] = at[d] /\ to'[d] = to[d] /\ call' = call
            /\ \A e \in Callers \ {c} : at'[e] = at[e]
        BY <1>1, <1>6, <2>3 DEF Still
      <3>2. InCall(d)' /\ Using(d)'
        BY <1>1, <2>1, <3>1 DEF InCall, Using
      <3>3. at[d] = "join" => call[d].id # call[c].id
        BY <1>1, <2>1, <2>3 DEF Ending
      <3>4. Ending(d)'
        BY <1>1, <1>6, <2>1, <3>1, <3>3 DEF Ending
      <3>5. Meeting(d)'
        BY <1>1, <1>2, <2>1, <2>3, <3>1 DEF Meeting
      <3> QED
        BY <3>2, <3>4, <3>5
    <2> QED
      BY <2>2, <2>3
  <1>13. ASSUME NEW d \in Callers
         PROVE  Beginning(d)'
    <2> SUFFICES ASSUME d # c, call[d].fn = "begin"
                 PROVE  Beginning(d)'
      BY <1>1, <1>2 DEF Beginning
    <2>1. Beginning(d) /\ call[d].id # i /\ to[d] # w
      BY <1>11 DEF Inv, TxInv
    <2>2. /\ to[d] \in Workers /\ thd'[to[d]] # "none"
          /\ call[d].id \notin deleted'
      BY <1>1, <1>5, <1>7, <2>1 DEF Beginning
    <2> QED
      BY <1>1, <2>1, <2>2 DEF Beginning
  <1>14. ASSUME NEW j \in Ids
         PROVE  Entered(j)'
    <2>1. Entered(j)
      BY DEF Inv, TxInv
    <2>2. CASE j = i
      <3>1. BeingErased(i)'
        BY <1>1, <1>5, <1>6 DEF BeingErased
      <3> QED
        BY <1>1, <1>5, <2>1, <2>2, <3>1 DEF Entered
    <2>3. CASE j # i
      <3>1. BeingErased(j) => BeingErased(j)'
        BY <1>1, <1>6 DEF BeingErased, Still
      <3>2. tx_pool[j] # Null /\ j \notin deleted => tx_pool[j] # w
        BY <1>2, <1>4, <1>5, <2>1, <2>3 DEF Entered
      <3>3. tx_pool[j] # Null => tx_pool[j] \in Workers
        BY DEF Inv, TxInv, TxType
      <3>4. deleted' = deleted \cup {i}
        BY <1>1, <1>5
      <3>5. tx_pool' = tx_pool /\ tx_idx' = tx_idx
        BY <1>1
      <3> QED
        BY <1>7, <2>1, <2>3, <3>1, <3>2, <3>3, <3>4, <3>5 DEF Entered
    <2> QED
      BY <2>2, <2>3
  <1>15. ASSUME NEW v \in Workers
         PROVE  Current(v)'
    <2>1. CASE v = w
      BY <1>7, <2>1 DEF Current
    <2>2. CASE v # w
      <3> SUFFICES ASSUME NEW k \in DOMAIN queue[v].list
                   PROVE  call[queue[v].list[k]].id \notin deleted'
        BY <1>1, <1>7, <2>2 DEF Current
      <3>1. PICK e \in Callers : e = queue[v].list[k]
        BY DEF Inv, WorkerInv, WorkersType, QueueType
      <3>2. at[e] = "latch" /\ to[e] = v /\ call[e].id \notin deleted
        BY <3>1 DEF Inv, WorkerInv, Queued, Waits, Current
      <3>3. Active(e) /\ e # c
        BY <1>1, <3>2 DEF Active
      <3>4. call[e].fn # "begin" => tx_pool[call[e].id] = v
        BY <3>2, <3>3, ActiveWorker DEF Inv
      <3>5. call[e].id # call[c].id
        BY <1>4, <1>5, <1>11, <2>2, <3>3, <3>4
      <3> QED
        BY <1>1, <3>1, <3>2, <3>5
    <2> QED
      BY <2>1, <2>2
  <1>16. ASSUME NEW d \in Callers
         PROVE  KeptUnlessMet(d)'
    <2>1. CASE d = c
      BY <1>6, <2>1 DEF KeptUnlessMet, Remembered
    <2>2. CASE d # c
      <3>1. \A v \in Workers \ {to[c]} : queue'[v].list = queue[v].list
        BY <1>4, <1>7
      <3> QED
        BY <1>1, <1>3, <1>6, <2>2, <3>1, ClearedKeeps
    <2> QED
      BY <2>1, <2>2
  <1>17. SerialCallsAreSafe'
    BY <1>1 DEF Defined, SerialCallsAreSafe
  <1> QED
    BY <1>8, <1>9, <1>10, <1>12, <1>13, <1>14, <1>15, <1>16, <1>17 DEF Inv, TxInv
-----------------------------------------------------------------------------
LEMMA NextKeeps ==
    ASSUME Inv, [Next]_vars
    PROVE  Inv'
  <1>1. CASE UNCHANGED vars
    <2>1. UNCHANGED <<workerVars, callerVars, tx_pool, tx_idx, call, deleted>>
          /\ undefined' = undefined
      BY <1>1 DEF vars, txVars
    <2>2. SerialCallsAreSafe'
      BY <2>1 DEF Inv, SerialCallsAreSafe
    <2> QED
      BY <2>1, <2>2, NothingElseKeeps
  <1>2. CASE Defined /\ \E w \in Workers : WorkerStep(w) /\ UNCHANGED txVars
    BY <1>2, WorkerStepKeeps
  <1>3. CASE Defined /\ \E c \in Callers : CallerStep(c)
    <2>1. PICK c \in Callers : CallerStep(c)
      BY <1>3
    <2>2. CASE Begin(c) \/ BeginFails(c)
      BY <1>3, <2>2, BeginKeeps, BeginFailsKeeps
    <2>3. CASE \E i \in Ids, fn \in {"execute", "end"} : Find(c, i, fn)
      BY <1>3, <2>3, FindKeeps
    <2>4. CASE Continue(c)
      BY <1>3, <2>4, BeginReturnsKeeps, FollowKeeps, AddTaskKeeps, ExecuteReturnsKeeps,
         EndStopsKeeps, EndClearsKeeps, EndJoinsKeeps, EndReturnsKeeps DEF Continue
    <2> QED
      BY <2>1, <2>2, <2>3, <2>4 DEF CallerStep
  <1> QED
    BY <1>1, <1>2, <1>3 DEF Next

LEMMA AlwaysInv == Spec => []Inv
  BY TxInit, NextKeeps, PTL DEF Spec

\* The workers of open transactions exist and no two share one, but for the
\* address of a worker that commit or rollback has just deleted (tx_end: the
\* entry is erased after the delete).
THEOREM TransactionsStayApart == Spec => []TransactionsApart
  <1>1. Inv => TransactionsApart
    <2> SUFFICES ASSUME Inv, NEW i \in Ids, tx_pool[i] # Null, ~BeingErased(i)
                 PROVE  /\ thd[tx_pool[i]] # "none"
                        /\ \A j \in Ids \ {i} : tx_pool[j] = tx_pool[i] => BeingErased(j)
      BY DEF TransactionsApart
    <2>1. i \notin deleted /\ Entered(i)
      BY DEF Inv, TxInv, Entered
    <2>2. ASSUME NEW j \in Ids \ {i}, tx_pool[j] = tx_pool[i]
          PROVE  BeingErased(j)
      BY <2>1, <2>2 DEF Inv, TxInv, Entered
    <2> QED
      BY <2>1, <2>2 DEF Entered
  <1> QED
    BY <1>1, AlwaysInv, PTL

\* Only calls on one transaction that overlap follow an erased iterator, use a
\* deleted MyThread or join a thread twice (tx_execute and tx_end, which look
\* the entry up under _s_tx_lock and use it after the unlock).
THEOREM SerialCallsStayDefined == Spec => []SerialCallsAreSafe
  <1>1. Inv => SerialCallsAreSafe
    BY DEF Inv
  <1> QED
    BY <1>1, AlwaysInv, PTL

\* tx_end clears the queue of its worker and no other caller's context is lost
\* by it, unless their calls overlap; and no worker ever has a context whose
\* caller has returned.
THEOREM TransactionsKeepTasks == Spec => []TasksKept
  <1>1. Inv => TasksKept
    <2> SUFFICES ASSUME Inv
                 PROVE  /\ ContextsAlive
                        /\ \A c \in Callers :
                              at[c] = "latch" /\ ~latch[c] =>
                                  Places(c) # {} \/ call[c].met \/ FALSE \in NodeAlloc
      BY DEF TasksKept
    <2>1. ContextsAlive
      BY InvContextsAlive DEF Inv
    <2>2. ASSUME NEW c \in Callers, at[c] = "latch", ~latch[c], ~call[c].met, FALSE \notin NodeAlloc
          PROVE  Places(c) # {}
      <3>1. Kept(c)
        BY <2>2 DEF Inv, KeptUnlessMet, Remembered
      <3> QED
        BY <3>1, KeptHasPlace DEF Inv
    <2> QED
      BY <2>1, <2>2
  <1> QED
    BY <1>1, AlwaysInv, PTL
=============================================================================
