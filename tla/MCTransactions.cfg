SPECIFICATION FairSpec
CONSTANTS
    a = a
    b = b
    w1 = w1
    w2 = w2
    Null = Null
    Callers <- MCCallers
    Workers <- MCWorkers
    MaxSize = 1
    NodeAlloc = {TRUE}
    ResultAlloc = {TRUE, FALSE}
    Tries = 1
    MaxTx = 2
INVARIANTS
    TransactionsApart
    SerialCallsAreSafe
    TasksKept
PROPERTY
    SeenStopIsObeyed
CHECK_DEADLOCK FALSE
