SPECIFICATION Spec
CONSTANTS
    Objs = {a, b}
    Addr = {a1, a2, a3, a4}
    Strings = {s0, s1}
    s0 = s0
    s1 = s1
    Doubles <- OneDouble
    Vals <- MCVals
    Overlaid <- MCOverlaid
    Default = s0
    MaxLen = 2
    Null = Null
    Missing = Missing
    Dead = Dead
    Other = Other
    Docs <- MCDocs
SYMMETRY Symmetry
INVARIANTS
    NothingDangles
    RoundTrip
PROPERTIES
    LeaksOnlyOnClear
    ImplementsModelValues
CHECK_DEADLOCK FALSE
