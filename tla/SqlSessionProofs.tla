-------------------------- MODULE SqlSessionProofs --------------------------
(***************************************************************************)
(* What a caller may believe of a connection, for every set of statements  *)
(* and any number of attempts and faults: transactions are atomic while it *)
(* lasts, statements are executed at most as often as they are tried, and  *)
(* a success reported outside a transaction is permanent.                  *)
(***************************************************************************)
EXTENDS SqlSession, TLAPS

\* What is permanent, in terms of what the callers were told.
Done(s) == IF told[s] = "ok" THEN 1 ELSE 0

\* On the connection the worker started with: outside a transaction the
\* server is in autocommit mode and holds nothing back; inside it holds every
\* statement back that was reported.
FirstConnection ==
    /\ tx \in {"none", "refused"} => /\ autocommit
                                     /\ pending = Nothing
                                     /\ \A s \in Stmts : db[s] = Done(s)
    /\ tx = "open" => /\ ~autocommit
                      /\ db = Nothing
                      /\ \A s \in Stmts : pending[s] = Done(s)
    /\ \A s \in Stmts : told[s] # "failed"
    /\ cur # NoStmt => tx \in {"none", "refused", "open"} /\ told[cur] = "none"

Inv == TypeOK /\ (~reconnected => FirstConnection /\ Atomic)

-----------------------------------------------------------------------------
(* The type invariant, one step per action. *)

LEMMA ConstantFacts == NoStmt \notin Stmts /\ Tries \in Nat \ {0} /\ MaxFaults \in Nat
BY SessionAssumption DEF SessionAssumption

USE ConstantFacts

\* Booleans apart from the rest: no one prover takes both.
Flags == up \in BOOLEAN /\ autocommit \in BOOLEAN /\ reconnected \in BOOLEAN

Values ==
    /\ pending \in [Stmts -> Nat] /\ db \in [Stmts -> Nat]
    /\ cur \in Stmts \cup {NoStmt} /\ count \in 0..Tries
    /\ told \in [Stmts -> {"none", "ok", "failed"}]
    /\ tx \in {"none", "refused", "open", "committed", "undone", "unknown"}
    /\ faults \in 0..MaxFaults

LEMMA TypeParts == TypeOK <=> Flags /\ Values
BY Zenon DEF TypeOK, Flags, Values, TxStates

LEMMA InitType == Init => TypeOK
<1> SUFFICES ASSUME Init PROVE Flags /\ Values
    BY TypeParts
<1>1. Flags
  BY Zenon DEF Init, Flags
<1>2. Values
  BY DEF Init, Values, Nothing
<1> QED
  BY <1>1, <1>2

LEMMA StepFlags == Flags /\ [Next]_vars => Flags'
BY Zenon DEF Flags, Next, Begin, Commit, Rollback, Execute, QuerySucceeds, Answer,
    QueryFails, AnswerLost, Retry, ConnectionBreaks, Lose, vars

LEMMA StepValues == Values /\ [Next]_vars => Values'
<1> SUFFICES ASSUME Values, [Next]_vars PROVE Values'
    OBVIOUS
<1>r. ASSUME cur # NoStmt, count > 0, Retry, db' \in [Stmts -> Nat], tx' = tx
      PROVE  Values'
  BY <1>r DEF Values, Retry, Answer, Fault, Nothing
<1>1. CASE Begin
  BY <1>1 DEF Values, Begin, Fault, Lose, Nothing
<1>2. CASE Commit
  <2>1. Committed \in [Stmts -> Nat]
    BY DEF Values, Committed
  <2> QED
    BY <1>2, <2>1 DEF Values, Commit, Fault, Lose, Nothing
<1>3. CASE Rollback
  BY <1>3 DEF Values, Rollback, Fault, Lose, Nothing
<1>4. ASSUME NEW s \in Stmts, Execute(s) PROVE Values'
  BY <1>4 DEF Values, Execute
<1>5. CASE QuerySucceeds
  BY <1>5 DEF Values, QuerySucceeds, Apply, Answer
<1>6. CASE QueryFails
  BY <1>6, <1>r DEF Values, QueryFails
<1>7. CASE AnswerLost
  <2>1. db' \in [Stmts -> Nat]
    BY <1>7 DEF Values, AnswerLost
  <2> QED
    BY <1>7, <1>r, <2>1 DEF AnswerLost
<1>8. CASE ConnectionBreaks
  BY <1>8 DEF Values, ConnectionBreaks, Fault, Lose, Nothing
<1>9. CASE UNCHANGED vars
  BY <1>9 DEF Values, vars
<1> QED
  BY <1>1, <1>2, <1>3, <1>4, <1>5, <1>6, <1>7, <1>8, <1>9 DEF Next

LEMMA StepType == TypeOK /\ [Next]_vars => TypeOK'
<1>1. TypeOK' <=> Flags' /\ Values'
  BY Zenon DEF TypeOK, Flags, Values, TxStates
<1> QED
  BY <1>1, TypeParts, StepFlags, StepValues

\* The values of one connection and its callers' statements (the state of
\* thd_routine's loop, mysql_simple_pool.cpp:180-230) keep their types: the
\* attempts left stay between 0 and three.
THEOREM TypeCorrect == Spec => []TypeOK
BY InitType, StepType, PTL DEF Spec

-----------------------------------------------------------------------------
(* The first connection.  An action that ends it has nothing to show; the   *)
(* others are taken one by one.                                             *)

LEMMA InitInv == Init => Inv
<1> SUFFICES ASSUME Init PROVE FirstConnection /\ Atomic
    BY InitType DEF Inv
<1> QED
  BY DEF Init, FirstConnection, Atomic, Done, Nothing

LEMMA StepInv == Inv /\ [Next]_vars => Inv'
<1> SUFFICES ASSUME Inv, [Next]_vars, ~reconnected' PROVE FirstConnection' /\ Atomic'
    BY StepType DEF Inv
<1>t. TypeOK
  BY DEF Inv
<1>f. CASE QueryFails \/ AnswerLost \/ ConnectionBreaks
  BY <1>f DEF QueryFails, AnswerLost, ConnectionBreaks, Retry, Lose
<1>1. CASE Begin
  <2>1. ~reconnected
    BY <1>1 DEF Begin, Lose
  <2>2. \A s \in Stmts : db[s] = 0 /\ Done(s) = 0
    BY <1>1, <2>1 DEF Inv, FirstConnection, Begin, Done
  <2>3. db = Nothing
    BY <1>t, <2>2 DEF TypeOK, Nothing
  <2>4. tx' \in {"open", "refused"} /\ autocommit' = (tx' = "refused")
    BY <1>1, <2>1 DEF Inv, FirstConnection, Begin, Lose
  <2>5. pending = Nothing /\ told' = told /\ db' = db /\ cur' = cur
    BY <1>1, <2>1 DEF Inv, FirstConnection, Begin
  <2>6. pending' = Nothing
    BY <1>1, <2>5 DEF Begin, Lose
  <2>7. told[cur] = "none" \/ cur = NoStmt
    BY <1>1 DEF Begin
  <2>8. \A s \in Stmts : told[s] # "failed"
    BY <2>1 DEF Inv, FirstConnection
  <2> QED
    BY <2>2, <2>3, <2>4, <2>5, <2>6, <2>7, <2>8 DEF FirstConnection, Atomic, Done, Nothing
<1>2. CASE Commit
  <2>1. ~reconnected
    BY <1>2 DEF Commit, Lose
  <2>2. \A s \in Stmts : Committed[s] = Done(s)
    BY <1>2, <1>t, <2>1 DEF Inv, FirstConnection, Commit, Committed, Done, Nothing, TypeOK
  <2> QED
    BY <1>2, <2>1, <2>2 DEF Inv, FirstConnection, Atomic, Commit, Lose, Done
<1>3. CASE Rollback
  <2>1. ~reconnected
    BY <1>3 DEF Rollback, Lose
  <2> QED
    BY <1>3, <2>1 DEF Inv, FirstConnection, Atomic, Rollback, Lose, Done, Nothing
<1>4. ASSUME NEW s \in Stmts, Execute(s) PROVE FirstConnection' /\ Atomic'
  BY <1>4, <1>t DEF Inv, FirstConnection, Atomic, Execute, Done, TypeOK
<1>5. CASE QuerySucceeds
  <2>1. /\ ~reconnected /\ FirstConnection
        /\ cur \in Stmts /\ told[cur] = "none" /\ tx \in {"none", "refused", "open"} /\ up
        /\ told' = [told EXCEPT ![cur] = "ok"] /\ cur' = NoStmt
        /\ UNCHANGED <<up, autocommit, tx>>
        /\ Apply
    BY <1>5, <1>t DEF Inv, QuerySucceeds, Answer, FirstConnection, TypeOK
  <2>2. /\ Done(cur) = 0
        /\ \A s \in Stmts : told'[s] = IF s = cur THEN "ok" ELSE told[s]
    BY <2>1, <1>t DEF Done, TypeOK
  <2>3. CASE tx \in {"none", "refused"}
    <3>1. db' = [db EXCEPT ![cur] = @ + 1] /\ pending' = Nothing
      BY <2>1, <2>3 DEF FirstConnection, Apply
    <3>2. \A s \in Stmts : db'[s] = IF told'[s] = "ok" THEN 1 ELSE 0
      BY <2>1, <2>2, <2>3, <3>1, <1>t DEF FirstConnection, Done, TypeOK
    <3> QED
      BY <2>1, <2>2, <2>3, <3>1, <3>2 DEF FirstConnection, Atomic, Done, Nothing
  <2>4. CASE tx = "open"
    <3>1. pending' = [pending EXCEPT ![cur] = @ + 1] /\ db' = Nothing
      BY <2>1, <2>4 DEF FirstConnection, Apply
    <3>2. \A s \in Stmts : pending'[s] = IF told'[s] = "ok" THEN 1 ELSE 0
      BY <2>1, <2>2, <2>4, <3>1, <1>t DEF FirstConnection, Done, TypeOK
    <3> QED
      BY <2>1, <2>2, <2>4, <3>1, <3>2 DEF FirstConnection, Atomic, Done, Nothing
  <2> QED
    BY <2>1, <2>3, <2>4
<1>9. CASE UNCHANGED vars
  BY <1>9 DEF Inv, FirstConnection, Atomic, Done, Nothing, vars
<1> QED
  BY <1>f, <1>1, <1>2, <1>3, <1>4, <1>5, <1>9 DEF Next

\* Commit and rollback are all or nothing (mysql_simple_pool.cpp:180-205) as
\* long as no failed statement made retry() replace the connection.
THEOREM AtomicOnOneConnection == Spec => []AtomicUnlessReconnected
<1>1. Inv => AtomicUnlessReconnected
  BY DEF Inv, AtomicUnlessReconnected
<1> QED
  BY <1>1, InitInv, StepInv, PTL DEF Spec

-----------------------------------------------------------------------------
(* How often a statement is executed: what the connection did with it plus  *)
(* the attempts it has left never exceeds the attempts it was given.        *)

Executions(s) == db[s] + pending[s]

Budget ==
    \A s \in Stmts :
        /\ s = cur => told[s] = "none" /\ Executions(s) <= Tries - count
        /\ s # cur /\ told[s] = "none" => Executions(s) = 0
        /\ Executions(s) <= Tries
        /\ ~reconnected => Executions(s) <= 1 /\ (told[s] = "none" => Executions(s) = 0)

LEMMA InitBudget == Init => Budget
<1> SUFFICES ASSUME Init PROVE Budget
    OBVIOUS
<1>1. /\ pending = Nothing /\ db = Nothing
      /\ cur = NoStmt /\ count = 0 /\ told = [s \in Stmts |-> "none"]
  BY DEF Init
<1>2. \A s \in Stmts : Executions(s) = 0 /\ s # cur
  <2> SUFFICES ASSUME NEW s \in Stmts PROVE db[s] + pending[s] = 0 /\ s # cur
      BY DEF Executions
  <2>1. db[s] = 0 /\ pending[s] = 0
    BY <1>1 DEF Nothing
  <2> QED
    BY <1>1, <2>1
<1>3. 0 <= Tries /\ 0 <= 1
  OBVIOUS
<1> QED
  BY <1>2, <1>3 DEF Budget

LEMMA StepBudget == Values /\ Budget /\ [Next]_vars => Budget'
<1> SUFFICES ASSUME Values, Budget, [Next]_vars PROVE Budget'
    OBVIOUS
<1>0. \A s \in Stmts : db[s] \in Nat /\ pending[s] \in Nat
  BY DEF Values
<1>k. ASSUME UNCHANGED <<cur, count, told>>, reconnected => reconnected',
             \A s \in Stmts : Executions(s)' \in Nat /\ Executions(s)' <= Executions(s)
      PROVE  Budget'
  BY <1>0, <1>k DEF Budget, Executions, Values
<1>r. ASSUME cur # NoStmt, count > 0, Retry, db' \in [Stmts -> Nat],
             \A s \in Stmts : db'[s] <= db[s] + (IF s = cur THEN 1 ELSE 0)
      PROVE  Budget'
  <2>1. \A s \in Stmts : /\ s # cur => Executions(s)' <= Executions(s)
                         /\ s = cur => Executions(s)' <= Executions(s) + 1
                         /\ Executions(s)' \in Nat
    BY <1>0, <1>r DEF Retry, Nothing, Executions
  <2>2. reconnected'
    BY <1>r DEF Retry
  <2>3. CASE count = 1
    BY <1>0, <1>r, <2>1, <2>2, <2>3 DEF Budget, Retry, Answer, Values, Executions
  <2>4. CASE count # 1
    BY <1>0, <1>r, <2>1, <2>2, <2>4 DEF Budget, Retry, Values, Executions
  <2> QED
    BY <2>3, <2>4
<1>1. CASE Begin
  BY <1>0, <1>1, <1>k DEF Begin, Lose, Nothing, Executions
<1>2. CASE Commit
  BY <1>0, <1>2, <1>k DEF Commit, Committed, Lose, Nothing, Executions, Values
<1>3. CASE Rollback
  BY <1>0, <1>3, <1>k DEF Rollback, Lose, Nothing, Executions
<1>4. ASSUME NEW s \in Stmts, Execute(s) PROVE Budget'
  <2>1. \A r \in Stmts : Executions(r)' = Executions(r)
    BY <1>4 DEF Execute, Executions
  <2> QED
    BY <1>4, <2>1 DEF Execute, Budget
<1>5. CASE QuerySucceeds
  <2>1. \A s \in Stmts : Executions(s)' = Executions(s) + (IF s = cur THEN 1 ELSE 0)
    BY <1>0, <1>5 DEF QuerySucceeds, Apply, Executions, Values
  <2> QED
    BY <1>0, <1>5, <2>1 DEF QuerySucceeds, Answer, Budget, Values, Executions
<1>6. CASE QueryFails
  BY <1>0, <1>6, <1>r DEF QueryFails, Values
<1>7. CASE AnswerLost
  <2>1. db' \in [Stmts -> Nat] /\ \A s \in Stmts : db'[s] <= db[s] + (IF s = cur THEN 1 ELSE 0)
    BY <1>0, <1>7 DEF AnswerLost, Values
  <2> QED
    BY <1>7, <1>r, <2>1 DEF AnswerLost
<1>8. CASE ConnectionBreaks
  BY <1>0, <1>8, <1>k DEF ConnectionBreaks, Lose, Nothing, Executions
<1>9. CASE UNCHANGED vars
  BY <1>0, <1>9, <1>k DEF vars, Executions
<1> QED
  BY <1>1, <1>2, <1>3, <1>4, <1>5, <1>6, <1>7, <1>8, <1>9 DEF Next

\* The retry loop (mysql_simple_pool.cpp:207-230) executes a statement at most
\* as often as it tries it, however its connections break; and once if the
\* connection was not replaced.
THEOREM ExecutedAtMostTries == Spec => []AtMostTries
<1>1. Init => TypeOK /\ Budget
  BY InitType, InitBudget
<1>2. TypeOK /\ Budget /\ [Next]_vars => TypeOK' /\ Budget'
  BY StepType, StepBudget, TypeParts
<1>3. Budget => AtMostTries
  BY DEF Budget, AtMostTries, Executions
<1> QED
  BY <1>1, <1>2, <1>3, PTL DEF Spec

-----------------------------------------------------------------------------
(* Outside a transaction every connection is in autocommit mode.            *)

Permanent == tx \in {"none", "refused"} => autocommit /\ \A s \in Stmts : told[s] = "ok" => db[s] >= 1

LEMMA StepPermanent == Values /\ Values' /\ Permanent /\ [Next]_vars => Permanent'
<1> SUFFICES ASSUME Values, Values', Permanent, [Next]_vars, tx' \in {"none", "refused"}
             PROVE Permanent'
    BY DEF Permanent
<1>1. tx \in {"none", "refused"}
  BY DEF Next, Begin, Commit, Rollback, Execute, QuerySucceeds, QueryFails, AnswerLost,
         ConnectionBreaks, vars
<1>2. autocommit /\ \A s \in Stmts : told[s] = "ok" => db[s] >= 1
  BY <1>1 DEF Permanent
<1>3. \A s \in Stmts : db[s] \in Nat
  BY DEF Values
<1>k. ASSUME UNCHANGED <<autocommit, told, db>> PROVE Permanent'
  BY <1>2, <1>k DEF Permanent
<1>r. ASSUME Retry, \A s \in Stmts : db'[s] >= db[s]
      PROVE  Permanent'
  <2>1. autocommit'
    BY <1>r DEF Retry
  <2>2. \A s \in Stmts : told'[s] = "ok" => told[s] = "ok"
    BY <1>r DEF Retry, Answer, Values
  <2>3. \A s \in Stmts : told'[s] = "ok" => db'[s] >= 1
    <3> SUFFICES ASSUME NEW s \in Stmts, told'[s] = "ok" PROVE db'[s] >= 1
        OBVIOUS
    <3>1. db[s] >= 1 /\ db'[s] >= db[s]
      BY <1>2, <1>r, <2>2
    <3>2. db'[s] \in Nat
      BY DEF Values
    <3> QED
      BY <1>3, <3>1, <3>2
  <2> QED
    BY <2>1, <2>3 DEF Permanent
<1>5. CASE QuerySucceeds
  <2>1. autocommit' = autocommit /\ db' = [db EXCEPT ![cur] = @ + 1]
    BY <1>2, <1>5 DEF QuerySucceeds, Apply
  <2>2. told' = [told EXCEPT ![cur] = "ok"]
    BY <1>5 DEF QuerySucceeds, Answer
  <2>3. \A s \in Stmts : told'[s] = "ok" => db'[s] >= 1
    BY <1>2, <1>3, <2>1, <2>2 DEF Values
  <2> QED
    BY <1>2, <2>1, <2>3 DEF Permanent
<1>6. CASE QueryFails
  BY <1>3, <1>6, <1>r DEF QueryFails
<1>7. CASE AnswerLost
  <2>1. \A s \in Stmts : db'[s] >= db[s]
    BY <1>3, <1>7 DEF AnswerLost, Values
  <2> QED
    BY <1>7, <1>r, <2>1 DEF AnswerLost
<1>8. CASE Begin
  BY <1>8, <1>k DEF Begin
<1>9. CASE Commit \/ Rollback
  BY <1>1, <1>9 DEF Commit, Rollback
<1> QED
  BY <1>1, <1>5, <1>6, <1>7, <1>8, <1>9, <1>k DEF Next, Execute, ConnectionBreaks, vars

\* What insert, update and del report as done outside a transaction, or after
\* a begin() that failed, (mysql_simple_pool.cpp:207-230) is in the database, on whatever connection
\* it went through.
THEOREM ReportsArePermanent == Spec => []ReportedIsPermanent
<1>1. Init => TypeOK /\ Permanent
  <2>1. Init => tx = "none" /\ autocommit /\ told = [s \in Stmts |-> "none"]
    BY Zenon DEF Init
  <2> QED
    BY <2>1, InitType DEF Permanent
<1>2. TypeOK /\ Permanent /\ [Next]_vars => TypeOK' /\ Permanent'
  <2>1. TypeOK' => Values'
    BY Zenon DEF TypeOK, Values, TxStates
  <2> QED
    BY <2>1, StepType, StepPermanent, TypeParts
<1>3. Permanent => ReportedIsPermanent
  BY DEF Permanent, ReportedIsPermanent
<1> QED
  BY <1>1, <1>2, <1>3, PTL DEF Spec
=============================================================================
