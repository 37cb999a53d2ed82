\* One worker with a queue of one, two callers, and memory that may run out for
\* queue nodes; the application may connect twice.  Or three statements and four
\* faults on one connection.
SPECIFICATION MCSpec
CONSTANTS
    a = a
    b = b
    w1 = w1
    s1 = s1
    s2 = s2
    s3 = s3
    Stmts <- MCStmts
    NoStmt = NoStmt
    Tries = 3
    MaxFaults = 4
INVARIANTS
    AtomicUnlessReconnected
    ReportedIsPermanent
    AtMostTries
PROPERTIES
    AcceptedIsAnswered
    EveryStatementAnswered
CHECK_DEADLOCK FALSE
