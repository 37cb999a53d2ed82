SPECIFICATION Spec
CONSTANTS
    Objs = {a, b}
    Addr = {a1, a2}
    Strings = {s0, s1}
    s0 = s0
    s1 = s1
    Doubles <- TwoDoubles
    Vals <- MCVals
    Overlaid <- MCOverlaid
    Default <- ZeroDouble
    MaxLen = 1
    Null = Null
    Missing = Missing
    Dead = Dead
    Other = Other
    Docs <- MCDocs
INVARIANT DoublesArrive
CHECK_DEADLOCK FALSE
