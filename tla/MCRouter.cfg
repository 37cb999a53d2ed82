SPECIFICATION Spec
CONSTANTS
    Texts <- MCTexts
    Services <- MCServices
    Endpoints <- MCEndpoints
    Requests <- MCRequests
    VarOrder <- MCVarOrder
    Default = Default
INVARIANTS
    HandlerMatches
    ExactFirst
    MissedOnlyBehindLiteral
    LastTemplateWins
    ArgumentsArrive
CHECK_DEADLOCK FALSE
