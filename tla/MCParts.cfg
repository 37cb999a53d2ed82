SPECIFICATION PartsSpec
CONSTANTS
    NULL = NULL
    Nodes = {n1, n2, n3, n4}
    MaxLen = 0
    Null = Null
    Chars <- MCChars
    UrlChars <- MCUrlChars
    Apis <- MCApis
    Requests <- MCRequests
    Templates <- MCTemplates
    Calls <- MCCalls
    Trees <- MCTrees
    Long <- MCLong
    Members <- MCMembers
    Names <- MCNames
    Cells <- MCCells
    Answers <- MCAnswers
    MaxSets = 2
    Default = 0
    MaxTemplate = 6
INVARIANTS
    WellLinked
    PiecesSpellPattern
    AcceptsTemplates
    EarliestError
    VariablesAreSections
    ValuesAreSections
    ValuesInPlace
    
    ModelsAreRows
PROPERTIES
    ImplementsFifoList
    SetsFreedOnce
CHECK_DEADLOCK FALSE
