--------------------------- MODULE MCBlockingQueue ---------------------------
(***************************************************************************)
(* Two shapes of BlockingQueue, one of them chosen at the start: "many",   *)
(* producers and consumers with and without timeouts whose nodes may fail  *)
(* to be allocated, and "worker", the shape MysqlSimplePool gives every    *)
(* worker's queue: one consumer with a timeout that always comes back, and *)
(* producers without.                                                      *)
(***************************************************************************)
EXTENDS BlockingQueue

CONSTANTS p1, p2, p3, c1, c2

MCProducers == {p1, p2, p3}
MCConsumers == {c1, c2}
MCTimed     == {p3, c2}
MCClearers  == {p1}

VARIABLE shape

Worker == INSTANCE BlockingQueue
    WITH Consumers <- {c1}, Timed <- {c1}, Alloc <- {TRUE}

allVars == <<vars, shape>>

MCInit == Init /\ shape \in {"many", "worker"}

MCNext ==
    /\ \/ shape = "many" /\ Next
       \/ shape = "worker" /\ Worker!Next
    /\ UNCHANGED shape

AsWorker(A) == shape = "worker" /\ A /\ UNCHANGED shape

\* The worker's consumer always pops again (thd_routine) and its deadline
\* passes; a producer that was woken gets the mutex in the end, and nobody has
\* to start a call.
MCSpec ==
    /\ MCInit /\ [][MCNext]_allVars
    /\ WF_allVars(AsWorker(Worker!Consuming(c1))) /\ WF_allVars(AsWorker(Worker!Expire(c1)))
    /\ \A p \in Producers : WF_allVars(AsWorker(Worker!Contending(p) /\ Worker!Producing(p)))

\* Producers of a worker's queue are not locked out.  (In the other shape they
\* may be: one add that times out lowers the flag for all of them, and nothing
\* raises it again while the queue stays empty.)
WorkerNoLockout == shape = "worker" => Worker!NoLockout
=============================================================================
