\* Three producers and two consumers, one of each with a timeout; or the same
\* producers without timeouts and one consumer.
SPECIFICATION MCSpec
CONSTANTS
    p1 = p1
    p2 = p2
    p3 = p3
    c1 = c1
    c2 = c2
    Null = Null
    MaxSize = 2
    Producers <- MCProducers
    Consumers <- MCConsumers
    Timed <- MCTimed
    Clearers <- MCClearers
    Alloc = {TRUE, FALSE}
INVARIANTS
    TypeOK
    FullSignalMeansRoom
    SleepersHaveNothing
PROPERTIES
    RoomTakenOnlyByRefusal
    ImplementsBoundedQueue
    WorkerNoLockout
CHECK_DEADLOCK FALSE
