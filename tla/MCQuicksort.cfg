SPECIFICATION FairSpec
CONSTANTS
    N = 5
    Values <- FewValues
CHECK_DEADLOCK FALSE
INVARIANTS Sorted OnlyPermuted
PROPERTY SortEnds
