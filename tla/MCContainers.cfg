SPECIFICATION MCSpec
CONSTANTS
    a = a
    b = b
    Nodes = {n1, n2, n3, n4}
    Data = {1, 2}
    MaxUncounted = 1
    Null = Null
    Index <- MCIndex
    Values <- MCValues
    Puts <- WithNull
    ByIndex = TRUE
    Size = 0
INVARIANTS
    InBounds
    WellFormed
PROPERTIES
    TrimsToValue
    ImplementsSlots
    SetTakesFirst
    CountFollows
    ImplementsSeq
