SPECIFICATION SortSpec
CONSTANTS
    N = 6
    Values <- SmallValues
    minParallelSize = 2
    initialDepth = 3
INVARIANTS RangesDisjoint ResultIsSorted
CHECK_DEADLOCK FALSE
