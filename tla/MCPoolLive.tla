----------------------------- MODULE MCPoolLive ------------------------------
(***************************************************************************)
(* A worker from both its sides.  In the shape "session" one connection of  *)
(* a worker executes three statements, with more faults than attempts.  In  *)
(* the shape "pool" one worker, its queue of one, serves two callers.  The  *)
(* initial state says which; the other one stays as it begins, where        *)
(* nothing is left to run that fairness would have to drive.                *)
(***************************************************************************)
EXTENDS SqlSession

CONSTANTS a, b, w1, s1, s2, s3

MCStmts == {s1, s2, s3}

VARIABLES
    shape,
    queue, status, thd, ctx, at, to, latch, result, left,
    pool, action_idx, main, slot, failed, reply, misuse, undefined

Pool == INSTANCE SimplePool WITH
    Callers <- {a, b}, Workers <- {w1}, Null <- NoStmt, MaxSize <- 1,
    NodeAlloc <- {TRUE, FALSE}, ResultAlloc <- {TRUE}, Tries <- 2,
    ThreadCount <- 1, CreateFails <- TRUE, MaxConnects <- 2

queueVars == <<queue, status, thd, ctx, at, to, latch, result, left, pool, action_idx,
               main, slot, failed, reply, misuse, undefined>>
allVars == <<vars, queueVars, shape>>

MCInit ==
    /\ shape \in {"pool", "session"}
    /\ Init /\ Pool!Init
    /\ shape = "pool" => up = TRUE

MCNext ==
    /\ UNCHANGED shape
    /\ \/ shape = "pool" /\ Pool!Next /\ UNCHANGED vars
       \/ shape = "session" /\ Next /\ UNCHANGED queueVars

MCSpec == MCInit /\ [][MCNext]_allVars /\ Fairness /\ Pool!Fairness

\* The property of SimplePool: what a queue accepted is answered.
AcceptedIsAnswered == Pool!AcceptedIsAnswered
=============================================================================
