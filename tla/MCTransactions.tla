--------------------------- MODULE MCTransactions ---------------------------
(* Two callers with two transactions over two workers' worth of memory, so  *)
(* that a deleted MyThread's address is used again; or one of each.         *)
EXTENDS Transactions

CONSTANTS a, b, w1, w2

MCCallers == {a, b}
MCWorkers == {w1, w2}

OneCaller == {a}
OneWorker == {w1}
=============================================================================
