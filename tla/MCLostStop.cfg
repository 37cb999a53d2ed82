\* One caller, one transaction: the stop request of tx_end against the worker's loop.
SPECIFICATION FairSpec
CONSTANTS
    a = a
    b = b
    w1 = w1
    w2 = w2
    Null = Null
    Callers <- OneCaller
    Workers <- OneWorker
    MaxSize = 1
    NodeAlloc = {TRUE}
    ResultAlloc = {TRUE}
    Tries = 1
    MaxTx = 1
PROPERTY
    EndReturnsToCaller
CHECK_DEADLOCK FALSE
