\* The network never fails and the worker is connected: the server refuses one
\* of two statements once.
SPECIFICATION ConnectedSpec
CONSTANTS
    s1 = s1
    s2 = s2
    Stmts <- MCStmts
    NoStmt = NoStmt
    Tries = 3
    MaxFaults = 0
INVARIANT
    CommitKeepsReported
CHECK_DEADLOCK FALSE
