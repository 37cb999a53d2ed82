----------------------------- MODULE SqlSession -----------------------------
(***************************************************************************)
(* One worker's connection to MySQL: the part of thd_routine that Worker   *)
(* leaves to a choice (src/mysql/mysql_simple_pool.cpp:180-230).  BEGIN,   *)
(* COMMIT and ROLLBACK are one library call each and are not tried again;  *)
(* any other statement is tried up to three times, and after every failure *)
(* retry() closes the connection and opens another.                        *)
(*                                                                         *)
(* The server is external.  It keeps the session's autocommit flag and its *)
(* uncommitted statements; both are gone with the connection.  A request   *)
(* is executed, or refused without effect, or the connection breaks before *)
(* or after the server executed it.  Client libraries report a broken      *)
(* connection and a refused statement alike: as a failure.                 *)
(***************************************************************************)
EXTENDS Naturals

CONSTANTS
    Stmts,          \* the statements of one run, each sent once by a caller
    NoStmt,
    Tries,          \* the attempts of one statement
    MaxFaults       \* bound: failures of the network and the server

ASSUME SessionAssumption ==
    /\ NoStmt \notin Stmts
    /\ Tries \in Nat \ {0}
    /\ MaxFaults \in Nat

VARIABLES
    up,             \* the connection is open
    autocommit,     \* the server's flag for this session
    pending,        \* the server: how often each statement was executed in the open transaction
    db,             \* the server: how often each statement was made permanent
    cur, count,     \* the statement in the loop and the attempts it has left
    told,           \* the status each statement's caller got: "none", "ok", "failed"
    tx,             \* what the caller was told of its transaction
    reconnected,    \* the session it started with is gone
    faults

vars == <<up, autocommit, pending, db, cur, count, told, tx, reconnected, faults>>

Nothing == [s \in Stmts |-> 0]
TxStates == {"none", "refused", "open", "committed", "undone", "unknown"}

Init ==
    /\ up \in BOOLEAN       \* thd_routine does not look at what connect returned
    /\ autocommit = TRUE
    /\ pending = Nothing
    /\ db = Nothing
    /\ cur = NoStmt /\ count = 0
    /\ told = [s \in Stmts |-> "none"]
    /\ tx = "none"
    /\ reconnected = FALSE
    /\ faults = 0

Committed == [s \in Stmts |-> db[s] + pending[s]]

Fault == faults < MaxFaults /\ faults' = faults + 1

\* The server rolls back what a session that ends has not committed.
Lose == up' = FALSE /\ pending' = Nothing /\ reconnected' = TRUE

-----------------------------------------------------------------------------
(* BEGIN, COMMIT, ROLLBACK *)

\* Mutant: autocommit stays on.
BeginOpen ==
    /\ tx = "none" /\ cur = NoStmt
    /\ \A s \in Stmts : told[s] = "none"
    /\ up
    /\ tx' = "open"
    /\ UNCHANGED <<up, autocommit, pending, db, cur, count, told, reconnected, faults>>

\* begin() tells its caller what the server answered (cpp:305).  Without a
\* connection, or refused, the session stays as it is.
Begin ==
    /\ tx = "none" /\ cur = NoStmt
    /\ \A s \in Stmts : told[s] = "none"
    /\ \/ up /\ autocommit' = FALSE /\ tx' = "open" /\ UNCHANGED <<up, pending, reconnected, faults>>
       \/ tx' = "refused" /\ UNCHANGED <<up, autocommit, pending, reconnected, faults>>
       \/ up /\ Fault /\ Lose /\ tx' = "refused" /\ UNCHANGED autocommit
    /\ UNCHANGED <<db, cur, count, told>>

\* tx_end follows with the end of the session in every case.  A caller whose
\* begin failed ends nothing: MyTxEx returns at once (cpp:541-555).
Commit ==
    /\ tx = "open" /\ cur = NoStmt
    /\ \/ up /\ db' = Committed /\ pending' = Nothing /\ tx' = "committed"
          /\ UNCHANGED <<up, reconnected, faults>>
       \/ tx' = "unknown" /\ UNCHANGED <<up, db, pending, reconnected, faults>>
       \/ up /\ Fault /\ Lose /\ tx' = "unknown" /\ db' \in {db, Committed}
    /\ UNCHANGED <<autocommit, cur, count, told>>

Rollback ==
    /\ tx = "open" /\ cur = NoStmt
    /\ \/ up /\ pending' = Nothing /\ tx' = "undone"
          /\ UNCHANGED <<up, reconnected, faults>>
       \/ tx' = "unknown" /\ UNCHANGED <<up, pending, reconnected, faults>>
       \/ up /\ Fault /\ Lose /\ tx' = "unknown"
    /\ UNCHANGED <<autocommit, db, cur, count, told>>

-----------------------------------------------------------------------------
(* any other statement *)

\* A caller told that begin failed may send its statements all the same.
Execute(s) ==
    /\ tx \in {"none", "refused", "open"}
    /\ cur = NoStmt
    /\ told[s] = "none"
    /\ cur' = s
    /\ count' = Tries
    /\ UNCHANGED <<up, autocommit, pending, db, told, tx, reconnected, faults>>

\* The server's side of executing cur.
Apply ==
    IF autocommit
    THEN db' = [db EXCEPT ![cur] = @ + 1] /\ UNCHANGED pending
    ELSE pending' = [pending EXCEPT ![cur] = @ + 1] /\ UNCHANGED db

Answer(status) ==
    /\ told' = [told EXCEPT ![cur] = status]
    /\ cur' = NoStmt
    /\ count' = 0

\* Mutant: a success does not end the loop.
QuerySucceedsAgain ==
    /\ cur # NoStmt /\ count > 0
    /\ up
    /\ Apply
    /\ IF count = 1 THEN Answer("ok") ELSE count' = count - 1 /\ UNCHANGED <<cur, told>>
    /\ UNCHANGED <<up, autocommit, tx, reconnected, faults>>

QuerySucceeds ==
    /\ cur # NoStmt /\ count > 0
    /\ up
    /\ Apply
    /\ Answer("ok")
    /\ UNCHANGED <<up, autocommit, tx, reconnected, faults>>

\* Mutants: after the last attempt the status is still the initial 0; or the
\* loop ends without an answer.
RetryForgives ==
    /\ pending' = Nothing
    /\ reconnected' = TRUE
    /\ autocommit' = TRUE
    /\ \/ up' = TRUE /\ UNCHANGED faults
       \/ up' = FALSE /\ Fault
    /\ IF count = 1 THEN Answer("ok") ELSE count' = count - 1 /\ UNCHANGED <<cur, told>>

RetryForgets ==
    /\ pending' = Nothing
    /\ reconnected' = TRUE
    /\ autocommit' = TRUE
    /\ \/ up' = TRUE /\ UNCHANGED faults
       \/ up' = FALSE /\ Fault
    /\ count' = count - 1
    /\ UNCHANGED <<cur, told>>

\* retry(): the old session ends, a new one starts with its defaults, if the
\* server can be reached; after the last attempt too.
Retry ==
    /\ pending' = Nothing
    /\ reconnected' = TRUE
    /\ autocommit' = TRUE
    /\ \/ up' = TRUE /\ UNCHANGED faults
       \/ up' = FALSE /\ Fault
    /\ IF count = 1 THEN Answer("failed") ELSE count' = count - 1 /\ UNCHANGED <<cur, told>>

\* Refused by the server, or the connection was broken before it got there.
QueryFails ==
    /\ cur # NoStmt /\ count > 0
    /\ Retry
    /\ UNCHANGED <<db, tx>>

\* Executed, and the connection broke before the answer: what was autocommitted
\* stays, what was pending is rolled back.
AnswerLost ==
    /\ cur # NoStmt /\ count > 0
    /\ up
    /\ db' = IF autocommit THEN [db EXCEPT ![cur] = @ + 1] ELSE db
    /\ Retry
    /\ UNCHANGED tx

\* The server restarts, or drops an idle session.
ConnectionBreaks ==
    /\ up /\ cur = NoStmt
    /\ Fault
    /\ Lose
    /\ UNCHANGED <<autocommit, db, cur, count, told, tx>>

Next ==
    \/ Begin \/ Commit \/ Rollback
    \/ \E s \in Stmts : Execute(s)
    \/ QuerySucceeds \/ QueryFails \/ AnswerLost
    \/ ConnectionBreaks

Spec == Init /\ [][Next]_vars

\* The loop runs on: a library call returns.
Fairness == WF_vars(QuerySucceeds \/ QueryFails \/ AnswerLost)

-----------------------------------------------------------------------------
TypeOK ==
    /\ up \in BOOLEAN /\ autocommit \in BOOLEAN /\ reconnected \in BOOLEAN
    /\ pending \in [Stmts -> Nat] /\ db \in [Stmts -> Nat]
    /\ cur \in Stmts \cup {NoStmt} /\ count \in 0..Tries
    /\ told \in [Stmts -> {"none", "ok", "failed"}]
    /\ tx \in TxStates
    /\ faults \in 0..MaxFaults

Atomic ==
    /\ tx = "committed" => \A s \in Stmts : db[s] = IF told[s] = "ok" THEN 1 ELSE 0
    /\ tx = "undone" => \A s \in Stmts : db[s] = 0

\* begin() and commit() call what lies between them a transaction
\* (mysql_simple_pool.cpp:280 "mysql transaction begin", :193 "commit
\* transaction faild" only if COMMIT fails): when both report success, every
\* statement in between that was reported done is in the database.
CommitKeepsReported ==
    tx = "committed" => \A s \in Stmts : told[s] = "ok" => db[s] >= 1

\* As long as nothing in the transaction made the worker reconnect, so it is:
\* autocommit off on one connection holds all its statements back.
AtomicUnlessReconnected == ~reconnected => Atomic

\* A success reported outside a transaction, or after a begin() that failed, is
\* permanent at once: the fresh connections of retry() are in autocommit mode
\* whatever was lost before.
ReportedIsPermanent ==
    tx \in {"none", "refused"} => \A s \in Stmts : told[s] = "ok" => db[s] >= 1

\* One call executes its statement at most as often as it is tried, on however
\* many connections, and once if nothing failed.  (More than once it may be:
\* a statement whose answer was lost is sent again.)
AtMostTries ==
    \A s \in Stmts :
        /\ db[s] + pending[s] <= Tries
        /\ ~reconnected => db[s] + pending[s] <= 1

\* Whoever waits for a statement gets a status, with the server gone for good too.
EveryStatementAnswered == cur # NoStmt ~> cur = NoStmt
=============================================================================
