SPECIFICATION PartsSpec
CONSTANTS
    NULL = NULL
    Nodes = {n1, n2, n3, n4}
    MaxLen = 0
    Null = Null
    Chars <- MCChars
    UrlChars <- MCUrlChars
    Apis <- MCApis
    Requests <- MCRequests
    Templates <- MCTemplates
    Calls <- MCCalls
    Trees <- MCTrees
    Long <- MCLong
    Members <- MCMembers
    Names <- MCNames
    Cells <- MCCells
    Answers <- MCAnswers
    MaxSets = 2
    Default = 0
    MaxTemplate = 2
INVARIANT
    ReturnAsDocumented
CHECK_DEADLOCK FALSE
