SPECIFICATION Spec
CONSTANTS
    MaxEntries = 5
    Directions = 3
    MaxLevel = 1
    M = 1
    EfConstruction = 3
    EfSearch = 4
    MaxLimit = 2
INVARIANTS
    GraphWellFormed
    SearchFills
    SmallSegmentsExact
CHECK_DEADLOCK FALSE
