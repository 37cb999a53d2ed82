SPECIFICATION Spec
CONSTANTS
    a = a
    b = b
    w1 = w1
    w2 = w2
    Null = Null
    Callers <- MCCallers
    Workers <- MCWorkers
    MaxSize = 1
    NodeAlloc = {TRUE}
    ResultAlloc = {TRUE, FALSE}
    Tries = 3
    ThreadCount = 2
    CreateFails = TRUE
    MaxConnects = 2
INVARIANTS
    UndefinedOnlyByMisuseOrCleanup
    TasksHaveCallers
    NobodyDropped
    ResultsFinished
PROPERTIES
    ImplementsCallService
CONSTRAINT OneMisuse
SYMMETRY Interchangeable
CHECK_DEADLOCK FALSE
