--------------------------- MODULE SimplePoolProofs ---------------------------
(* What the runs of MCSimplePool check of the pool on two callers and two    *)
(* workers, for any number of each, any ThreadCount and any number of        *)
(* connects and stops.                                                       *)
EXTENDS SimplePool, WorkerProofs

Misuses ==
    {"reconnected", "stopped_again", "raced", "stopped_in_call", "called_early", "called_late"}

PoolType ==
    /\ pool \in Seq(Workers \cup {Null})
    /\ action_idx \in 0..(ThreadCount - 1)
    /\ main \in {"new", "connect", "up", "stop", "join", "down"}
    /\ slot \in Nat
    /\ failed \in BOOLEAN
    /\ reply \in [by : Callers \cup {Null}, what : {"none", "rows", "-1"}]
    /\ misuse \in SUBSET Misuses
    /\ undefined \in BOOLEAN

\* What is in the pool exists, once; stop joins what it finds there.
EntriesLive ==
    /\ \A i \in DOMAIN pool : pool[i] # Null =>
          /\ thd[pool[i]] # "none"
          /\ \A j \in DOMAIN pool : pool[j] = pool[i] => j = i
    /\ main = "join" => slot + 1 \in DOMAIN pool /\ pool[slot + 1] # Null

Stopping == main \in {"stop", "join"}

\* An application that calls only while the pool is up calls nobody when it is
\* being stopped or is.
Unforgotten ==
    CallsInTime =>
        /\ Stopping \/ main = "down" => \A c \in Callers : at[c] = "idle"
        /\ \A c \in Callers : Remembered(c)

\* The pool of an application that connects once and stops after its last call:
\* full while it is up, emptied from the front by stop; and cut short when
\* connect fails, which only its own stop follows.
Filled ==
    /\ main = "new" => pool = <<>>
    /\ main = "connect" => Len(pool) = slot /\ slot < ThreadCount
    /\ main \in {"up", "down"} => Len(pool) = ThreadCount
    /\ main \in {"connect", "up"} => \A i \in DOMAIN pool : pool[i] # Null
    /\ Stopping =>
          /\ IF failed THEN slot <= Len(pool) /\ Len(pool) < ThreadCount
                       ELSE slot < ThreadCount /\ Len(pool) = ThreadCount
          /\ \A i \in DOMAIN pool : i > slot => pool[i] # Null
    /\ failed => Stopping

TargetsLive ==
    \A c \in Callers : at[c] \in {"add", "blocked"} => thd[to[c]] # "none"

\* Nothing undefined has happened, but at the end of a failed connect's stop.
PastTheEnd == undefined => failed /\ main = "stop" /\ slot = Len(pool)

UsedAsMeant == misuse = {} => PastTheEnd /\ Filled /\ TargetsLive

Inv == WorkerInv /\ PoolType /\ EntriesLive /\ Unforgotten /\ UsedAsMeant

LEMMA ThreadCountType == ThreadCount \in Nat \ {0}
  BY PoolAssumption

USE ThreadCountType, WorkerAssumption

-----------------------------------------------------------------------------
LEMMA PoolInit == Init => Inv
  <1> SUFFICES ASSUME Init PROVE Inv
    OBVIOUS
  <1>1. WorkerInv
    BY InitInv DEF Init
  <1>2. PoolType
    <2>1. action_idx \in 0..(ThreadCount - 1) /\ slot \in Nat
      BY DEF Init
    <2>2. pool \in Seq(Workers \cup {Null})
      BY DEF Init
    <2>3. reply \in [by : Callers \cup {Null}, what : {"none", "rows", "-1"}]
      BY DEF Init
    <2>4. /\ main \in {"new", "connect", "up", "stop", "join", "down"}
          /\ misuse \in SUBSET Misuses
          /\ undefined \in BOOLEAN /\ failed \in BOOLEAN
      BY DEF Init, Misuses
    <2> QED
      BY <2>1, <2>2, <2>3, <2>4 DEF PoolType
  <1>3. EntriesLive
    BY DEF Init, EntriesLive
  <1>4. Unforgotten
    BY DEF Init, WorkerInit, Unforgotten, Stopping, Remembered
  <1>5. UsedAsMeant
    BY DEF Init, WorkerInit, UsedAsMeant, Filled, Stopping, PastTheEnd, TargetsLive
  <1> QED
    BY <1>1, <1>2, <1>3, <1>4, <1>5 DEF Inv

\* Entry as the functions that index the deque use it.
LEMMA EntryFacts ==
    ASSUME PoolType, NEW i \in Nat, Entry(i) # Null
    PROVE  /\ i + 1 \in DOMAIN pool
           /\ Entry(i) = pool[i + 1]
           /\ Entry(i) \in Workers
  BY DEF PoolType, Entry


LEMMA WorkerStepKeeps ==
    ASSUME Inv, NEW w \in Workers, WorkerStep(w), UNCHANGED poolVars
    PROVE  Inv'
  <1>1. WorkerInv'
    BY WorkerStepKeepsInv DEF Inv
  <1>2. \A v \in Workers : thd'[v] = "none" <=> thd[v] = "none"
    BY WorkerStepLives DEF Inv
  <1>3. UNCHANGED <<pool, main, slot, failed, misuse, undefined>>
    BY DEF poolVars
  <1>4. UNCHANGED <<at, to>>
    BY DEF WorkerStep, TestStatus, MarkRunning, Pop, PopSleep, PopExpire, PopTimedOut,
           NewResult, NoResult, RunQuery, CountDown, UnlockLatch, CloseSession, callerVars
  <1>5. PoolType'
    BY DEF Inv, PoolType, poolVars
  <1>6. EntriesLive'
    <2>1. \A i \in DOMAIN pool : pool[i] # Null => pool[i] \in Workers
      BY DEF Inv, PoolType
    <2> QED
      BY <1>2, <1>3, <2>1 DEF Inv, EntriesLive
  <1>7. Unforgotten'
    <2>1. \A c \in Callers : Remembered(c) => Remembered(c)'
      BY WorkerStepRemembers DEF Inv
    <2> QED
      BY <1>3, <1>4, <2>1 DEF Inv, Unforgotten, Stopping, CallsInTime
  <1>8. UsedAsMeant'
    <2>1. \A c \in Callers : at[c] \in {"add", "blocked"} => to[c] \in Workers
      BY DEF Inv, WorkerInv, Handing
    <2>2. TargetsLive => TargetsLive'
      BY <1>2, <1>4, <2>1 DEF TargetsLive
    <2>3. Filled => Filled'
      BY <1>3 DEF Filled, Stopping
    <2> QED
      BY <1>3, <2>2, <2>3 DEF Inv, UsedAsMeant, PastTheEnd
  <1> QED
    BY <1>1, <1>5, <1>6, <1>7, <1>8 DEF Inv

\* The deque and the threads do not change.
LEMMA MainSettingKeeps ==
    ASSUME Inv, connect \/ ConnectFails \/ stop
    PROVE  Inv'
  <1>1. UNCHANGED <<workerVars, callerVars, pool, action_idx, reply, undefined>> /\ slot' = 0
    BY DEF connect, ConnectFails, stop
  <1>2. WorkerInv'
    BY <1>1, WorkerInvStutters DEF Inv
  <1>3. PoolType'
    <2>1. misuse' \in SUBSET Misuses
      BY DEF connect, ConnectFails, stop, Inv, PoolType, Misuses
    <2>2. main' \in {"new", "connect", "up", "stop", "join", "down"} /\ failed' \in BOOLEAN
      BY DEF connect, ConnectFails, stop, Inv, PoolType
    <2> QED
      BY <1>1, <2>1, <2>2 DEF Inv, PoolType
  <1>4. EntriesLive'
    BY <1>1 DEF Inv, EntriesLive, connect, ConnectFails, stop, workerVars
  <1>5. Unforgotten'
    <2> SUFFICES ASSUME CallsInTime'
                 PROVE  /\ main' # "connect" => \A c \in Callers : at[c] = "idle"
                        /\ \A c \in Callers : Remembered(c)'
      BY <1>1 DEF Unforgotten, Stopping, callerVars
    <2>1. \A c \in Callers : Remembered(c) => Remembered(c)'
      BY <1>1 DEF Remembered, Kept, workerVars, callerVars
    <2>2. CallsInTime
      BY DEF CallsInTime, connect, ConnectFails, stop
    <2>3. main' # "connect" => \A c \in Callers : at[c] = "idle"
      BY DEF CallsInTime, connect, ConnectFails, stop, NobodyCalls
    <2> QED
      BY <2>1, <2>2, <2>3 DEF Inv, Unforgotten
  <1>6. UsedAsMeant'
    <2> SUFFICES ASSUME misuse' = {}
                 PROVE  PastTheEnd' /\ Filled' /\ TargetsLive'
      BY DEF UsedAsMeant
    <2>1. misuse = {} /\ ((connect /\ main = "new") \/ ConnectFails \/ (stop /\ main = "up"))
      BY DEF connect, ConnectFails, stop
    <2>2. PastTheEnd /\ Filled /\ TargetsLive
      BY <2>1 DEF Inv, UsedAsMeant
    <2>3. PastTheEnd'
      BY <1>1, <2>1, <2>2 DEF PastTheEnd, connect, ConnectFails
    <2>4. TargetsLive'
      BY <1>1, <2>2 DEF TargetsLive, workerVars, callerVars
    <2>5. Filled'
      <3>1. CASE connect /\ main = "new"
        <4>1. main' = "connect" /\ failed' = failed
          BY <3>1 DEF connect
        <4> QED
          BY <1>1, <2>2, <3>1, <4>1 DEF Filled, Stopping
      <3>2. CASE ConnectFails
        <4>1. main = "connect" /\ main' = "stop" /\ failed'
          BY <3>2 DEF ConnectFails
        <4>2. pool \in Seq(Workers \cup {Null})
          BY DEF Inv, PoolType
        <4> QED
          BY <1>1, <2>2, <4>1, <4>2 DEF Filled, Stopping
      <3>3. CASE stop /\ main = "up"
        <4>1. main' = "stop" /\ failed' = failed
          BY <3>3 DEF stop
        <4> QED
          BY <1>1, <2>2, <3>3, <4>1 DEF Filled, Stopping
      <3> QED
        BY <2>1, <3>1, <3>2, <3>3
    <2> QED
      BY <2>3, <2>4, <2>5
  <1> QED
    BY <1>2, <1>3, <1>4, <1>5, <1>6 DEF Inv

\* Two threads in connect or stop: the end, and a misuse.
LEMMA RaceKeeps ==
    ASSUME Inv, ConnectOrStopRaces
    PROVE  Inv'
  <1>1. /\ UNCHANGED <<workerVars, callerVars, pool, action_idx, main, slot, failed, reply>>
        /\ misuse' = misuse \cup {"raced"} /\ undefined' = TRUE
    BY DEF ConnectOrStopRaces, Undefined
  <1>2. WorkerInv'
    BY <1>1, WorkerInvStutters DEF Inv
  <1>3. PoolType'
    <2>1. misuse' \in SUBSET Misuses /\ undefined' \in BOOLEAN
      BY <1>1 DEF Inv, PoolType, Misuses
    <2> QED
      BY <1>1, <2>1 DEF Inv, PoolType
  <1>4. EntriesLive'
    BY <1>1 DEF Inv, EntriesLive, workerVars
  <1>5. Unforgotten'
    BY <1>1 DEF Inv, Unforgotten, Stopping, CallsInTime, Remembered, Kept, workerVars, callerVars
  <1> QED
    BY <1>1, <1>2, <1>3, <1>4, <1>5 DEF Inv, UsedAsMeant

LEMMA ConnectThreadKeeps ==
    ASSUME Inv, ConnectThread
    PROVE  Inv'
  <1>1. PICK w \in Workers : thd[w] = "none" /\ Start(w) /\ pool' = Append(pool, w)
    BY DEF ConnectThread
  <1>2. /\ main = "connect" /\ slot' = slot + 1
        /\ main' = IF slot + 1 = ThreadCount THEN "up" ELSE "connect"
        /\ UNCHANGED <<callerVars, action_idx, failed, reply, misuse, undefined>>
    BY DEF ConnectThread
  <1>3. WorkerInv'
    BY <1>1, <1>2, StartKeepsInv, CallersStill DEF Inv
  <1>4. pool \in Seq(Workers \cup {Null}) /\ slot \in Nat
    BY DEF Inv, PoolType
  <1>5. PoolType'
    <2>1. pool' \in Seq(Workers \cup {Null}) /\ slot' \in Nat
      BY <1>1, <1>2, <1>4
    <2>2. main' \in {"new", "connect", "up", "stop", "join", "down"}
      BY <1>2
    <2> QED
      BY <1>2, <2>1, <2>2 DEF Inv, PoolType
  <1>6. /\ \A i \in DOMAIN pool : i \in DOMAIN pool' /\ pool'[i] = pool[i]
        /\ \A i \in DOMAIN pool' : i \in DOMAIN pool \/ (i = Len(pool) + 1 /\ pool'[i] = w)
        /\ Len(pool') = Len(pool) + 1
    BY <1>1, <1>4
  <1>7. thd'[w] = "test" /\ \A v \in Workers \ {w} : thd'[v] = thd[v]
    BY <1>1 DEF Start, Inv, WorkerInv, WorkersType
  <1>8. ASSUME NEW i \in DOMAIN pool
        PROVE  pool[i] # w
    <2>1. pool[i] # Null => thd[pool[i]] # "none"
      BY DEF Inv, EntriesLive
    <2>2. w # Null
      OBVIOUS
    <2> QED
      BY <1>1, <2>1, <2>2
  <1>9. EntriesLive'
    <2>1. main' # "join"
      BY <1>2
    <2> SUFFICES ASSUME NEW i \in DOMAIN pool', pool'[i] # Null
                 PROVE  /\ thd'[pool'[i]] # "none"
                        /\ \A j \in DOMAIN pool' : pool'[j] = pool'[i] => j = i
      BY <2>1 DEF EntriesLive
    <2>2. CASE i \in DOMAIN pool
      <3>1. pool[i] \in Workers \ {w} /\ thd[pool[i]] # "none"
        BY <1>4, <1>6, <1>8, <2>2 DEF Inv, EntriesLive
      <3>2. \A j \in DOMAIN pool : pool[j] = pool[i] => j = i
        BY <1>6, <2>2 DEF Inv, EntriesLive
      <3> QED
        BY <1>6, <1>7, <2>2, <3>1, <3>2
    <2>3. CASE i = Len(pool) + 1 /\ pool'[i] = w
      <3>1. thd'[w] # "none"
        BY <1>7
      <3>2. \A j \in DOMAIN pool' : pool'[j] = w => j = i
        BY <1>6, <1>8, <2>3
      <3> QED
        BY <2>3, <3>1, <3>2
    <2> QED
      BY <1>6, <2>2, <2>3
  <1>10. Unforgotten'
    <2> SUFFICES ASSUME CallsInTime, NEW c \in Callers, at[c] = "latch", ~latch[c]
                 PROVE  Kept(c)'
      BY <1>2 DEF Unforgotten, Stopping, CallsInTime, Remembered, callerVars
    <2>1. Kept(c)
      BY DEF Inv, Unforgotten, Remembered
    <2>2. ctx[w] = Null /\ queue[w].list = <<>>
      BY <1>1 DEF Inv, WorkerInv, Served, QueueBounds, InHand
    <2>3. to[c] \in Workers \ {w}
      BY <2>1, <2>2 DEF Kept
    <2>4. queue'[to[c]] = queue[to[c]] /\ ctx'[to[c]] = ctx[to[c]] /\ to' = to
      BY <1>1, <1>2, <2>3 DEF Start, Inv, WorkerInv, WorkersType, callerVars
    <2> QED
      BY <2>1, <2>4 DEF Kept
  <1>11. UsedAsMeant'
    <2> SUFFICES ASSUME misuse = {}
                 PROVE  PastTheEnd' /\ Filled' /\ TargetsLive'
      BY <1>2 DEF UsedAsMeant
    <2>1. PastTheEnd /\ Filled /\ TargetsLive
      BY DEF Inv, UsedAsMeant
    <2>2. PastTheEnd'
      BY <1>2, <2>1 DEF PastTheEnd
    <2>3. /\ Len(pool) = slot /\ slot < ThreadCount /\ ~failed
          /\ \A i \in DOMAIN pool : pool[i] # Null
      BY <1>2, <2>1 DEF Filled, Stopping
    <2>4. \A i \in DOMAIN pool' : pool'[i] # Null
      BY <1>6, <2>3
    <2>5. Filled'
      BY <1>2, <1>4, <1>6, <2>3, <2>4 DEF Filled, Stopping
    <2>6. \A c \in Callers : at[c] \in {"add", "blocked"} => to[c] \in Workers
      BY DEF Inv, WorkerInv, Handing
    <2>7. TargetsLive'
      BY <1>2, <1>7, <2>1, <2>6 DEF TargetsLive, callerVars
    <2> QED
      BY <2>2, <2>5, <2>7
  <1> QED
    BY <1>3, <1>5, <1>9, <1>10, <1>11 DEF Inv

LEMMA StopThreadKeeps ==
    ASSUME Inv, StopThread
    PROVE  Inv'
  <1>1. /\ main = "stop"
        /\ UNCHANGED <<queue, thd, ctx, callerVars, pool, action_idx, slot, failed, reply, misuse>>
    BY DEF StopThread
  <1>2. \/ Entry(slot) = Null /\ undefined' = TRUE /\ UNCHANGED <<status, main>>
        \/ /\ Entry(slot) # Null
           /\ status' = [status EXCEPT ![Entry(slot)] = 0]
           /\ main' = "join"
           /\ UNCHANGED undefined
    BY DEF StopThread, Undefined
  <1>3. WorkerInv'
    <2>1. status' \in [Workers -> 0..2]
      BY <1>2 DEF Inv, WorkerInv, WorkersType
    <2> QED
      BY <1>1, <2>1, CallersStill, CallerStepKeepsInv DEF Inv
  <1>4. PoolType'
    <2>1. main' \in {"new", "connect", "up", "stop", "join", "down"}
      BY <1>1, <1>2
    <2>2. undefined' \in BOOLEAN
      BY <1>2 DEF Inv, PoolType
    <2> QED
      BY <1>1, <2>1, <2>2 DEF Inv, PoolType
  <1>5. slot \in Nat /\ main' \in {"stop", "join"}
    BY <1>1, <1>2 DEF Inv, PoolType
  <1>6. EntriesLive'
    <2>1. main' = "join" => slot + 1 \in DOMAIN pool /\ pool[slot + 1] # Null
      BY <1>1, <1>2, <1>5, EntryFacts DEF Inv
    <2> QED
      BY <1>1, <2>1 DEF Inv, EntriesLive
  <1>7. Unforgotten'
    BY <1>1, <1>5 DEF Inv, Unforgotten, Stopping, CallsInTime, Remembered, Kept, callerVars
  <1>8. UsedAsMeant'
    <2> SUFFICES ASSUME misuse = {}
                 PROVE  PastTheEnd' /\ Filled' /\ TargetsLive'
      BY <1>1 DEF UsedAsMeant
    <2>1. PastTheEnd /\ Filled /\ TargetsLive
      BY DEF Inv, UsedAsMeant
    <2>2. /\ IF failed THEN slot <= Len(pool) /\ Len(pool) < ThreadCount
                      ELSE slot < ThreadCount /\ Len(pool) = ThreadCount
          /\ \A i \in DOMAIN pool : i > slot => pool[i] # Null
      BY <1>1, <2>1 DEF Filled, Stopping
    <2>3. pool \in Seq(Workers \cup {Null})
      BY DEF Inv, PoolType
    <2>4. /\ Entry(slot) = Null => failed /\ slot = Len(pool)
          /\ slot = Len(pool) => Entry(slot) = Null
      BY <1>5, <2>2, <2>3 DEF Entry
    <2>5. PastTheEnd'
      BY <1>1, <1>2, <2>1, <2>4 DEF PastTheEnd
    <2>6. Filled'
      BY <1>1, <1>5, <2>2 DEF Filled, Stopping
    <2>7. TargetsLive'
      BY <1>1, <2>1 DEF TargetsLive, callerVars
    <2> QED
      BY <2>5, <2>6, <2>7
  <1> QED
    BY <1>3, <1>4, <1>6, <1>7, <1>8 DEF Inv

LEMMA JoinThreadKeeps ==
    ASSUME Inv, JoinThread
    PROVE  Inv'
  <1>1. PICK w \in Workers :
            /\ slot + 1 \in DOMAIN pool /\ pool[slot + 1] = w /\ thd[w] = "ended"
            /\ thd' = [thd EXCEPT ![w] = "none"]
            /\ queue' = [queue EXCEPT ![w] = NewQueue]
    <2>1. slot \in Nat /\ slot + 1 \in DOMAIN pool /\ pool[slot + 1] \in Workers
      BY DEF JoinThread, Inv, PoolType, EntriesLive
    <2>2. Entry(slot) = pool[slot + 1]
      BY <2>1 DEF Entry, Inv, PoolType
    <2> QED
      BY <2>1, <2>2 DEF JoinThread
  <1>2. /\ main = "join" /\ slot' = slot + 1
        /\ pool' = [pool EXCEPT ![slot + 1] = Null]
        /\ main' = IF slot + 1 = ThreadCount THEN "down" ELSE "stop"
        /\ UNCHANGED <<status, ctx, callerVars, action_idx, failed, reply, misuse, undefined>>
    BY DEF JoinThread
  <1>3. WorkerInv'
    BY <1>1, <1>2, DeleteKeepsInv, CallersStill DEF Inv
  <1>4. pool \in Seq(Workers \cup {Null}) /\ slot \in Nat
    BY DEF Inv, PoolType
  <1>5. PoolType'
    <2>1. pool' \in Seq(Workers \cup {Null}) /\ slot' \in Nat
      BY <1>1, <1>2, <1>4
    <2>2. main' \in {"new", "connect", "up", "stop", "join", "down"}
      BY <1>2
    <2> QED
      BY <1>2, <2>1, <2>2 DEF Inv, PoolType
  <1>6. /\ DOMAIN pool' = DOMAIN pool /\ Len(pool') = Len(pool)
        /\ pool'[slot + 1] = Null
        /\ \A i \in DOMAIN pool : i # slot + 1 => pool'[i] = pool[i]
    BY <1>1, <1>2, <1>4
  <1>7. thd'[w] = "none" /\ \A v \in Workers \ {w} : thd'[v] = thd[v]
    BY <1>1 DEF Inv, WorkerInv, WorkersType
  <1>8. \A i \in DOMAIN pool : i # slot + 1 => pool[i] # w
    BY <1>1 DEF Inv, EntriesLive
  <1>9. EntriesLive'
    <2>1. main' # "join"
      BY <1>2
    <2> SUFFICES ASSUME NEW i \in DOMAIN pool, pool'[i] # Null
                 PROVE  /\ thd'[pool'[i]] # "none"
                        /\ \A j \in DOMAIN pool : pool'[j] = pool'[i] => j = i
      BY <1>6, <2>1 DEF EntriesLive
    <2>2. i # slot + 1 /\ pool'[i] = pool[i] /\ pool[i] # w
      BY <1>6, <1>8
    <2>3. pool[i] \in Workers /\ thd[pool[i]] # "none"
      BY <1>4, <2>2 DEF Inv, EntriesLive
    <2>4. \A j \in DOMAIN pool : pool[j] = pool[i] => j = i
      BY <2>2 DEF Inv, EntriesLive
    <2> QED
      BY <1>6, <1>7, <2>2, <2>3, <2>4
  <1>10. Unforgotten'
    <2> SUFFICES ASSUME CallsInTime
                 PROVE  \A c \in Callers : at'[c] = "idle" /\ Remembered(c)'
      BY <1>2 DEF Unforgotten, CallsInTime
    <2>1. \A c \in Callers : at[c] = "idle"
      BY <1>2 DEF Inv, Unforgotten, Stopping
    <2> QED
      BY <1>2, <2>1 DEF Remembered, callerVars
  <1>11. UsedAsMeant'
    <2> SUFFICES ASSUME misuse = {}
                 PROVE  PastTheEnd' /\ Filled' /\ TargetsLive'
      BY <1>2 DEF UsedAsMeant
    <2>1. PastTheEnd /\ Filled
      BY DEF Inv, UsedAsMeant
    <2>2. PastTheEnd'
      BY <1>2, <2>1 DEF PastTheEnd
    <2>3. /\ IF failed THEN slot <= Len(pool) /\ Len(pool) < ThreadCount
                      ELSE slot < ThreadCount /\ Len(pool) = ThreadCount
          /\ \A i \in DOMAIN pool : i > slot => pool[i] # Null
      BY <1>2, <2>1 DEF Filled, Stopping
    <2>4. \A i \in DOMAIN pool' : i > slot' => pool'[i] # Null
      <3>1. \A i \in DOMAIN pool : i > slot => pool[i] # Null
        BY <2>3
      <3> QED
        BY <1>2, <1>4, <1>6, <3>1
    <2>5. slot + 1 <= Len(pool) /\ Len(pool) \in Nat
      BY <1>1, <1>4
    <2>6. Filled'
      <3>1. CASE failed
        <4>1. Len(pool) < ThreadCount
          BY <2>3, <3>1
        <4>2. slot + 1 # ThreadCount
          BY <1>4, <2>5, <4>1
        <4>3. main' = "stop" /\ failed'
          BY <1>2, <3>1, <4>2
        <4> QED
          BY <1>2, <1>6, <2>4, <2>5, <4>1, <4>3 DEF Filled, Stopping
      <3>2. CASE ~failed
        <4>1. Len(pool') = ThreadCount /\ slot < ThreadCount /\ ~failed'
          BY <1>2, <1>6, <2>3, <3>2
        <4>2. \/ main' = "down"
              \/ main' = "stop" /\ slot' < ThreadCount
          BY <1>2, <1>4, <4>1
        <4> QED
          BY <2>4, <4>1, <4>2 DEF Filled, Stopping
      <3> QED
        BY <3>1, <3>2
    <2>7. \A c \in Callers : at[c] \notin {"add", "blocked"}
      BY <1>2 DEF Inv, Unforgotten, Stopping, CallsInTime
    <2>8. TargetsLive'
      BY <1>2, <2>7 DEF TargetsLive, callerVars
    <2> QED
      BY <2>2, <2>6, <2>8
  <1> QED
    BY <1>3, <1>5, <1>9, <1>10, <1>11 DEF Inv

-----------------------------------------------------------------------------
(* The callers *)

LEMMA ExecuteKeeps ==
    ASSUME Inv, NEW c \in Callers, Execute(c)
    PROVE  Inv'
  <1>1. /\ at[c] = "idle"
        /\ action_idx' = (action_idx + 1) % ThreadCount
        /\ \/ main = "up" /\ misuse' = misuse
           \/ main # "up" /\ \E m \in {"called_early", "called_late"} : misuse' = misuse \cup {m}
        /\ UNCHANGED <<workerVars, pool, main, slot, failed, reply>>
    BY DEF Execute
  <1>2. action_idx' \in 0..(ThreadCount - 1)
    BY <1>1 DEF Inv, PoolType
  <1>3. UNCHANGED <<queue, status, thd, ctx>>
    BY <1>1 DEF workerVars
  <1>4. \/ /\ main \in {"new", "connect"} \/ Entry(action_idx') = Null
           /\ undefined' = TRUE /\ UNCHANGED callerVars
        \/ /\ Entry(action_idx') # Null
           /\ NewContext(c, Entry(action_idx'), Tries) /\ Goes(c, "add") /\ UNCHANGED undefined
    BY DEF Execute, Undefined
  <1>5. PoolType'
    <2>1. misuse' \in SUBSET Misuses
      BY <1>1 DEF Inv, PoolType, Misuses
    <2>2. undefined' \in BOOLEAN
      BY <1>4 DEF Inv, PoolType
    <2> QED
      BY <1>1, <1>2, <2>1, <2>2 DEF Inv, PoolType
  <1>6. EntriesLive'
    BY <1>1, <1>3 DEF Inv, EntriesLive
  <1>7. CASE /\ main \in {"new", "connect"} \/ Entry(action_idx') = Null
             /\ undefined' = TRUE /\ UNCHANGED callerVars
    <2>1. WorkerInv'
      BY <1>1, <1>7, WorkerInvStutters DEF Inv
    <2>2. Unforgotten'
      BY <1>1, <1>3, <1>7 DEF Inv, Unforgotten, Stopping, CallsInTime, Remembered, Kept, callerVars
    <2>3. misuse' # {}
      <3> SUFFICES ASSUME misuse' = {} PROVE FALSE
        OBVIOUS
      <3>1. main = "up" /\ misuse = {} /\ Entry(action_idx') = Null
        BY <1>1, <1>7
      <3>2. Len(pool) = ThreadCount /\ \A i \in DOMAIN pool : pool[i] # Null
        BY <3>1 DEF Inv, UsedAsMeant, Filled
      <3>3. action_idx' < Len(pool) /\ action_idx' + 1 \in DOMAIN pool
        <4>1. pool \in Seq(Workers \cup {Null})
          BY DEF Inv, PoolType
        <4>2. DOMAIN pool = 1..ThreadCount /\ Len(pool) = ThreadCount
          BY <3>2, <4>1
        <4>3. PICK i \in 0..(ThreadCount - 1) : i = action_idx'
          BY <1>2
        <4>4. i < ThreadCount /\ i + 1 \in 1..ThreadCount
          OBVIOUS
        <4> QED
          BY <4>2, <4>3, <4>4
      <3>4. Entry(action_idx') = pool[action_idx' + 1]
        BY <3>3 DEF Entry
      <3> QED
        BY <3>1, <3>2, <3>3, <3>4
    <2> QED
      BY <1>5, <1>6, <2>1, <2>2, <2>3 DEF Inv, UsedAsMeant
  <1>8. CASE /\ Entry(action_idx') # Null
             /\ NewContext(c, Entry(action_idx'), Tries) /\ Goes(c, "add") /\ UNCHANGED undefined
    <2>1. PICK w \in Workers :
              /\ action_idx' + 1 \in DOMAIN pool /\ pool[action_idx' + 1] = w
              /\ NewContext(c, w, Tries)
      BY <1>2, <1>8, EntryFacts DEF Inv
    <2>2. /\ at'[c] = "add" /\ to'[c] = w /\ Untouched(c)'
          /\ \A d \in Callers \ {c} : Still(d)
          /\ CallersType'
      BY <1>8, <2>1, NewContextFacts DEF Inv
    <2>3. \A d \in Callers : Still(d) \/ (Away(d) /\ at'[d] # "latch" /\ Handing(d)')
      <3>1. Away(c) /\ at'[c] # "latch" /\ Handing(c)'
        BY <1>1, <2>2 DEF Away, Handing, Untouched
      <3> QED
        BY <2>2, <3>1
    <2>4. WorkerInv'
      BY <1>3, <2>2, <2>3, CallerStepKeepsInv DEF Inv, WorkerInv, WorkersType
    <2>5. Unforgotten'
      <3> SUFFICES ASSUME CallsInTime, main = "up"
                   PROVE  \A d \in Callers : Remembered(d)'
        BY <1>1 DEF Unforgotten, Stopping, CallsInTime
      <3>1. \A d \in Callers : Remembered(d)
        BY DEF Inv, Unforgotten
      <3>2. Remembered(c)'
        BY <2>2 DEF Remembered
      <3>3. \A d \in Callers \ {c} : Remembered(d)'
        BY <1>3, <2>2, <3>1, RememberedStill
      <3> QED
        BY <3>2, <3>3
    <2>6. UsedAsMeant'
      <3> SUFFICES ASSUME misuse' = {}
                   PROVE  PastTheEnd' /\ Filled' /\ TargetsLive'
        BY DEF UsedAsMeant
      <3>1. misuse = {} /\ main = "up" /\ PastTheEnd /\ Filled /\ TargetsLive
        BY <1>1 DEF Inv, UsedAsMeant
      <3>2. Filled'
        BY <1>1, <3>1 DEF Filled, Stopping
      <3>3. thd[w] # "none"
        BY <2>1 DEF Inv, EntriesLive
      <3>4. TargetsLive'
        BY <1>3, <2>2, <3>1, <3>3 DEF TargetsLive, Still
      <3>5. PastTheEnd'
        BY <1>1, <1>8, <3>1 DEF PastTheEnd
      <3> QED
        BY <3>2, <3>4, <3>5
    <2> QED
      BY <1>5, <1>6, <2>4, <2>5, <2>6 DEF Inv
  <1> QED
    BY <1>4, <1>7, <1>8

LEMMA AddTaskKeeps ==
    ASSUME Inv, NEW c \in Callers, AddTask(c)
    PROVE  Inv'
  <1>1. /\ at[c] \in {"add", "blocked"}
        /\ UNCHANGED <<pool, action_idx, main, slot, failed, reply, misuse>>
    BY DEF AddTask
  <1>2. \/ thd[to[c]] = "none" /\ undefined' = TRUE /\ UNCHANGED <<workerVars, callerVars>>
        \/ /\ thd[to[c]] # "none"
           /\ AddContext(c, "refused") \/ AddSleep(c)
           /\ UNCHANGED undefined
    BY DEF AddTask, Deleted, Undefined
  <1>3. CASE thd[to[c]] = "none" /\ undefined' = TRUE /\ UNCHANGED <<workerVars, callerVars>>
    <2>1. WorkerInv'
      BY <1>3, WorkerInvStutters DEF Inv
    <2>2. UNCHANGED <<queue, thd, ctx>> /\ UNCHANGED <<at, to, latch, result, left>>
      BY <1>3 DEF workerVars, callerVars
    <2>3. PoolType' /\ EntriesLive'
      <3>1. undefined' \in BOOLEAN
        BY <1>3
      <3> QED
        BY <1>1, <2>2, <3>1 DEF Inv, PoolType, EntriesLive
    <2>4. Unforgotten'
      BY <1>1, <2>2 DEF Inv, Unforgotten, Stopping, CallsInTime, Remembered, Kept
    <2>5. misuse # {}
      BY <1>1, <1>3 DEF Inv, UsedAsMeant, TargetsLive
    <2> QED
      BY <1>1, <2>1, <2>3, <2>4, <2>5 DEF Inv, UsedAsMeant
  <1>4. CASE /\ thd[to[c]] # "none"
             /\ AddContext(c, "refused") \/ AddSleep(c)
             /\ UNCHANGED undefined
    <2>1. WorkerInv'
      BY <1>4, AddContextKeepsInv, AddSleepKeepsInv DEF Inv
    <2>2. UNCHANGED <<thd, to>> /\ \A d \in Callers \ {c} : at'[d] = at[d]
      BY <1>4 DEF AddContext, AddSleep, Goes, Inv, WorkerInv, CallersType
    <2>3. PoolType' /\ EntriesLive'
      BY <1>1, <1>4, <2>2 DEF Inv, PoolType, EntriesLive
    <2>4. Unforgotten'
      <3> SUFFICES ASSUME CallsInTime
                   PROVE  /\ ~Stopping /\ main # "down"
                          /\ \A d \in Callers : Remembered(d)'
        BY <1>1 DEF Unforgotten, Stopping, CallsInTime
      <3>1. /\ ~Stopping /\ main # "down"
            /\ \A d \in Callers : Remembered(d)
        BY <1>1 DEF Inv, Unforgotten
      <3> QED
        BY <1>4, <3>1, AddContextRemembers, AddSleepRemembers DEF Inv
    <2>5. UsedAsMeant'
      <3> SUFFICES ASSUME misuse = {}
                   PROVE  PastTheEnd' /\ Filled' /\ TargetsLive'
        BY <1>1 DEF UsedAsMeant
      <3>1. PastTheEnd /\ Filled /\ TargetsLive
        BY DEF Inv, UsedAsMeant
      <3>2. PastTheEnd' /\ Filled'
        BY <1>1, <1>4, <3>1 DEF PastTheEnd, Filled, Stopping
      <3>3. TargetsLive'
        BY <1>1, <2>2, <3>1 DEF TargetsLive
      <3> QED
        BY <3>2, <3>3
    <2> QED
      BY <2>1, <2>3, <2>4, <2>5 DEF Inv
  <1> QED
    BY <1>2, <1>3, <1>4

LEMMA ReturnKeeps ==
    ASSUME Inv, NEW c \in Callers, Return(c)
    PROVE  Inv'
  <1>1. /\ at[c] = "refused" \/ LatchOpen(c)
        /\ Goes(c, "idle") /\ DropContext(c)
        /\ UNCHANGED <<workerVars, pool, action_idx, main, slot, failed, misuse, undefined>>
    BY DEF Return
  <1>2. UNCHANGED <<queue, status, thd, ctx>>
    BY <1>1 DEF workerVars
  <1>3. Away(c)
    BY <1>1, OpenIsAway DEF Inv, Away
  <1>4. /\ at'[c] = "idle"
        /\ \A d \in Callers \ {c} : Still(d)
        /\ CallersType'
    BY <1>1, DropContextFacts DEF Inv
  <1>5. WorkerInv'
    <2>1. \A d \in Callers : Still(d) \/ (Away(d) /\ at'[d] # "latch" /\ Handing(d)')
      <3>1. Away(c) /\ at'[c] # "latch" /\ Handing(c)'
        BY <1>3, <1>4 DEF Handing
      <3> QED
        BY <1>4, <3>1
    <2> QED
      BY <1>2, <1>4, <2>1, CallerStepKeepsInv DEF Inv, WorkerInv, WorkersType
  <1>6. PoolType' /\ EntriesLive'
    <2>1. reply' \in [by : Callers \cup {Null}, what : {"none", "rows", "-1"}]
      BY DEF Return
    <2> QED
      BY <1>1, <1>2, <2>1 DEF Inv, PoolType, EntriesLive
  <1>7. Unforgotten'
    <2> SUFFICES ASSUME CallsInTime
                 PROVE  /\ Stopping \/ main = "down" => \A d \in Callers : at'[d] = "idle"
                        /\ \A d \in Callers : Remembered(d)'
      BY <1>1 DEF Unforgotten, Stopping, CallsInTime
    <2>1. /\ Stopping \/ main = "down" => \A d \in Callers : at[d] = "idle"
          /\ \A d \in Callers : Remembered(d)
      BY DEF Inv, Unforgotten
    <2>2. Remembered(c)'
      BY <1>4 DEF Remembered
    <2>3. \A d \in Callers \ {c} : Remembered(d)'
      BY <1>2, <1>4, <2>1, RememberedStill
    <2>4. Stopping \/ main = "down" => \A d \in Callers : at'[d] = "idle"
      BY <1>4, <2>1 DEF Still
    <2> QED
      BY <2>2, <2>3, <2>4
  <1>8. UsedAsMeant'
    <2> SUFFICES ASSUME misuse = {}
                 PROVE  PastTheEnd' /\ Filled' /\ TargetsLive'
      BY <1>1 DEF UsedAsMeant
    <2>1. PastTheEnd /\ Filled /\ TargetsLive
      BY DEF Inv, UsedAsMeant
    <2>2. PastTheEnd' /\ Filled'
      BY <1>1, <2>1 DEF PastTheEnd, Filled, Stopping
    <2>3. TargetsLive'
      BY <1>2, <1>4, <2>1 DEF TargetsLive, Still
    <2> QED
      BY <2>2, <2>3
  <1> QED
    BY <1>5, <1>6, <1>7, <1>8 DEF Inv

LEMMA NextKeeps == Inv /\ [Next]_vars => Inv'
  <1> SUFFICES ASSUME Inv, [Next]_vars PROVE Inv'
    OBVIOUS
  <1>1. CASE \E w \in Workers : WorkerStep(w) /\ UNCHANGED poolVars
    BY <1>1, WorkerStepKeeps
  <1>2. CASE \E c \in Callers : Execute(c) \/ AddTask(c) \/ Return(c)
    BY <1>2, ExecuteKeeps, AddTaskKeeps, ReturnKeeps
  <1>3. CASE connect \/ stop \/ MainStep
    BY <1>3, MainSettingKeeps, ConnectThreadKeeps, StopThreadKeeps, JoinThreadKeeps DEF MainStep
  <1>5. CASE ConnectOrStopRaces
    BY <1>5, RaceKeeps
  <1>4. CASE UNCHANGED vars
    <2>1. UNCHANGED <<workerVars, callerVars, poolVars>>
      BY <1>4 DEF vars
    <2>2. WorkerInv'
      BY <2>1, WorkerInvStutters DEF Inv
    <2>3. UNCHANGED <<queue, thd, ctx>> /\ UNCHANGED <<at, to, latch, result, left>>
      BY <2>1 DEF workerVars, callerVars
    <2>4. UNCHANGED <<pool, action_idx, main, slot, failed, reply, misuse, undefined>>
      BY <2>1 DEF poolVars
    <2>5. PoolType' /\ EntriesLive'
      BY <2>3, <2>4 DEF Inv, PoolType, EntriesLive
    <2>6. Unforgotten'
      BY <2>3, <2>4 DEF Inv, Unforgotten, Stopping, CallsInTime, Remembered, Kept
    <2>7. UsedAsMeant'
      BY <2>3, <2>4 DEF Inv, UsedAsMeant, PastTheEnd, Filled, Stopping, TargetsLive
    <2> QED
      BY <2>2, <2>5, <2>6, <2>7 DEF Inv
  <1> QED
    BY <1>1, <1>2, <1>3, <1>4, <1>5 DEF Next

LEMMA AlwaysInv == Spec => []Inv
  BY PoolInit, NextKeeps, PTL DEF Spec

-----------------------------------------------------------------------------
(* What the runs check *)

\* A pool that is connected once, called while it is up and stopped once after
\* its last call never uses an entry that is missing nor a worker that is
\* deleted, whatever the workers and the callers do, except when connect fails:
\* its stop() runs past the end of the deque, and connect never returns.
THEOREM UndefinedByMisuseOrCleanup == Spec => []UndefinedOnlyByMisuseOrCleanup
  <1>1. Inv => UndefinedOnlyByMisuseOrCleanup
    BY DEF Inv, UsedAsMeant, PastTheEnd, Filled, Stopping, UndefinedOnlyByMisuseOrCleanup
  <1> QED
    BY <1>1, AlwaysInv, PTL

\* What a worker finds in its queue, or has popped, is the context of a caller
\* that sleeps on its latch, once: no worker ever writes into a frame that is
\* gone, not even after a stop in the middle of calls.
THEOREM WorkersServeTheLiving == Spec => []TasksHaveCallers
  <1>1. Inv => TasksHaveCallers
    BY InvContextsAlive DEF Inv, TasksHaveCallers
  <1> QED
    BY <1>1, AlwaysInv, PTL

\* A latch opens on a finished result.
THEOREM LatchOpensOnResult == Spec => []ResultsFinished
  <1>1. Inv => ResultsFinished
    BY InvResultsFinished DEF Inv
  <1> QED
    BY <1>1, AlwaysInv, PTL

\* A caller on its latch has its context in the queue or the hands of its
\* worker, unless it called, or the application stopped the pool, too early
\* or too late.
THEOREM NobodyIsDropped == Spec => []NobodyDropped
  <1>1. Inv => NobodyDropped
    <2> SUFFICES ASSUME Inv, CallsInTime, NEW c \in Callers, at[c] = "latch", ~latch[c]
                 PROVE  Places(c) # {}
      BY DEF NobodyDropped, NobodyForgotten
    <2>1. Kept(c)
      BY DEF Inv, Unforgotten, Remembered
    <2> QED
      BY <2>1, KeptHasPlace DEF Inv
  <1> QED
    BY <1>1, AlwaysInv, PTL

-----------------------------------------------------------------------------
(* The pool is the service its callers expect *)

\* How far c's call is: the refinement mapping.
Phase(c) ==
    IF at[c] = "idle" THEN "idle"
    ELSE IF result[c] \in {"ok", "failed"} THEN result[c]
    ELSE "pending"

Phases == [c \in Callers |-> Phase(c)]

\* A step that leaves every call's phase and attempts alone, and the reply, is
\* none of the service's.
LEMMA SamePhases ==
    ASSUME \A c \in Callers : Phase(c)' = Phase(c), UNCHANGED <<left, reply>>
    PROVE  UNCHANGED Service!callVars
  BY DEF Service!callVars, Phase

LEMMA InitRefines == Init => Service!CallInit
  BY DEF Init, WorkerInit, Service!CallInit

LEMMA WorkerStepRefines ==
    ASSUME Inv, NEW w \in Workers, WorkerStep(w), UNCHANGED poolVars
    PROVE  [Service!CallNext]_Service!callVars
  <1>0. UNCHANGED reply
    BY DEF poolVars
  <1>1. CASE RunQuery(w)
    <2>1. PICK c \in Callers :
              ctx[w] = c /\ Waits(c, w) /\ left[c] > 0 /\ result[c] \in {"fresh", "failed"}
      BY <1>1 DEF RunQuery, Inv, WorkerInv, WorkersType, Served, InHand
    <2>2. PICK outcome \in {"ok", "failed"} : result' = [result EXCEPT ![c] = outcome]
      BY <1>1, <2>1 DEF RunQuery
    <2>3. at' = at /\ result \in [Callers -> {"null", "fresh"} \cup Done]
      BY <1>1 DEF RunQuery, Inv, WorkerInv, CallersType
    <2>4. Phase(c) \in {"pending", "failed"} /\ Phase(c)' = outcome
      BY <2>1, <2>2, <2>3 DEF Phase, Waits
    <2>5. \A d \in Callers \ {c} : Phase(d)' = Phase(d)
      BY <2>2, <2>3 DEF Phase
    <2>6. Phases' = [Phases EXCEPT ![c] = outcome] /\ Phases[c] \in {"pending", "failed"}
      BY <2>4, <2>5 DEF Phases
    <2>7. left' = [left EXCEPT ![c] = @ - 1]
      BY <1>1, <2>1 DEF RunQuery
    <2>8. Service!HandedOver(c)
      BY <1>0, <2>1, <2>6, <2>7 DEF Service!HandedOver, Phases, Phase
    <2> QED
      BY <2>8 DEF Service!CallNext
  <1>2. CASE NewResult(w)
    <2>1. PICK c \in Callers : ctx[w] = c /\ Waits(c, w) /\ Untouched(c)
      BY <1>2 DEF NewResult, Inv, WorkerInv, WorkersType, Served, InHand
    <2>2. /\ result' = [result EXCEPT ![c] = "fresh"] /\ UNCHANGED <<at, left>>
          /\ result \in [Callers -> {"null", "fresh"} \cup Done]
      BY <1>2, <2>1 DEF NewResult, Inv, WorkerInv, CallersType
    <2>3. \A d \in Callers : Phase(d)' = Phase(d)
      BY <2>1, <2>2 DEF Phase, Untouched
    <2> QED
      BY <1>0, <2>2, <2>3, SamePhases
  <1>3. CASE ~RunQuery(w) /\ ~NewResult(w)
    <2>1. UNCHANGED <<at, result, left>>
      BY <1>3 DEF WorkerStep, TestStatus, MarkRunning, Pop, PopSleep, PopExpire, PopTimedOut,
                  NoResult, CountDown, UnlockLatch, CloseSession, callerVars
    <2>2. \A d \in Callers : Phase(d)' = Phase(d)
      BY <2>1 DEF Phase
    <2> QED
      BY <1>0, <2>1, <2>2, SamePhases
  <1> QED
    BY <1>1, <1>2, <1>3

LEMMA CallerStepRefines ==
    ASSUME Inv, NEW c \in Callers, Execute(c) \/ AddTask(c) \/ Return(c)
    PROVE  [Service!CallNext]_Service!callVars
  <1>0. /\ at \in [Callers -> Calling]
        /\ result \in [Callers -> {"null", "fresh"} \cup Done]
    BY DEF Inv, WorkerInv, CallersType
  <1>1. CASE Execute(c) /\ UNCHANGED callerVars
    <2>1. UNCHANGED <<left, reply>> /\ \A d \in Callers : Phase(d)' = Phase(d)
      BY <1>1 DEF Execute, callerVars, Phase
    <2> QED
      BY <2>1, SamePhases
  <1>2. CASE Execute(c) /\ ~UNCHANGED callerVars
    <2>1. /\ at[c] = "idle" /\ at' = [at EXCEPT ![c] = "add"]
          /\ result' = [result EXCEPT ![c] = "null"]
          /\ left' = [left EXCEPT ![c] = Tries]
          /\ UNCHANGED reply
      BY <1>2 DEF Execute, Goes, NewContext
    <2>2. Phase(c) = "idle" /\ Phase(c)' = "pending"
      BY <1>0, <2>1 DEF Phase
    <2>3. \A d \in Callers \ {c} : Phase(d)' = Phase(d)
      BY <1>0, <2>1 DEF Phase
    <2>4. Phases' = [Phases EXCEPT ![c] = "pending"] /\ Phases[c] = "idle"
      BY <2>2, <2>3 DEF Phases
    <2>5. Service!CallBegins(c)
      BY <2>1, <2>4 DEF Service!CallBegins, Phases, Phase
    <2> QED
      BY <2>5 DEF Service!CallNext
  <1>3. CASE AddTask(c)
    <2>1. /\ at[c] # "idle" /\ at'[c] # "idle"
          /\ \A d \in Callers \ {c} : at'[d] = at[d]
          /\ UNCHANGED <<result, left, reply>>
      BY <1>0, <1>3 DEF AddTask, AddContext, AddSleep, Goes, callerVars
    <2>2. \A d \in Callers : Phase(d)' = Phase(d)
      BY <2>1 DEF Phase
    <2> QED
      BY <2>1, <2>2, SamePhases
  <1>4. CASE Return(c)
    <2>1. /\ at[c] # "idle" /\ at' = [at EXCEPT ![c] = "idle"]
          /\ result' = [result EXCEPT ![c] = "null"]
          /\ left' = [left EXCEPT ![c] = 0]
          /\ reply' = [by |-> c, what |-> IF result[c] = "ok" THEN "rows" ELSE "-1"]
      BY <1>4 DEF Return, Goes, DropContext, LatchOpen
    <2>2. /\ Phase(c) # "idle" /\ Phase(c)' = "idle"
          /\ Phase(c) = "ok" <=> result[c] = "ok"
      BY <1>0, <2>1 DEF Phase
    <2>3. \A d \in Callers \ {c} : Phase(d)' = Phase(d)
      BY <1>0, <2>1 DEF Phase
    <2>4. Phase(c) = "failed" => left[c] = 0
      <3>1. CASE at[c] = "refused"
        BY <3>1 DEF Inv, WorkerInv, Handing, Untouched, Phase
      <3>2. CASE LatchOpen(c)
        BY <3>2, InvResultsFinished DEF Inv, ResultsFinished, Phase
      <3> QED
        BY <1>4, <3>1, <3>2 DEF Return
    <2>5. /\ Phases' = [Phases EXCEPT ![c] = "idle"] /\ Phases[c] # "idle"
          /\ Phases[c] = "ok" <=> result[c] = "ok"
          /\ Phases[c] = "failed" => left[c] = 0
      BY <2>2, <2>3, <2>4 DEF Phases
    <2>6. Service!CallReturns(c)
      BY <2>1, <2>5 DEF Service!CallReturns, Phases, Phase
    <2> QED
      BY <2>6 DEF Service!CallNext
  <1> QED
    BY <1>1, <1>2, <1>3, <1>4

LEMMA NextRefines == Inv /\ [Next]_vars => [Service!CallNext]_Service!callVars
  <1> SUFFICES ASSUME Inv, [Next]_vars PROVE [Service!CallNext]_Service!callVars
    OBVIOUS
  <1>1. CASE \E w \in Workers : WorkerStep(w) /\ UNCHANGED poolVars
    BY <1>1, WorkerStepRefines
  <1>2. CASE \E c \in Callers : Execute(c) \/ AddTask(c) \/ Return(c)
    BY <1>2, CallerStepRefines
  <1>3. CASE connect \/ stop \/ MainStep \/ ConnectOrStopRaces \/ UNCHANGED vars
    <2>1. UNCHANGED callerVars /\ UNCHANGED reply
      BY <1>3 DEF connect, stop, MainStep, ConnectThread, ConnectFails, StopThread, JoinThread,
                  ConnectOrStopRaces, vars, poolVars
    <2>2. \A d \in Callers : Phase(d)' = Phase(d)
      BY <2>1 DEF Phase, callerVars
    <2> QED
      BY <2>1, <2>2, SamePhases DEF callerVars
  <1> QED
    BY <1>1, <1>2, <1>3 DEF Next

\* Every step of the workers, of the callers and of connect and stop is a step
\* of the service, or none: between the call and its return a statement is handed
\* to MySQL Tries times at most, never after an attempt that succeeded, and the
\* reply is that of the last attempt.
THEOREM PoolRefinesService == Spec => ImplementsCallService
  BY InitRefines, NextRefines, AlwaysInv, PTL DEF Spec, ImplementsCallService, Service!CallSpec
=============================================================================
