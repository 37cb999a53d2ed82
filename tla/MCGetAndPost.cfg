SPECIFICATION Spec
CONSTANTS
    Texts <- MCTexts
    Services <- OneService
    Endpoints <- BothMethods
    Requests <- BothRequests
    VarOrder <- MCVarOrder
    Default = Default
INVARIANT
    GetAndPostApart
CHECK_DEADLOCK FALSE
