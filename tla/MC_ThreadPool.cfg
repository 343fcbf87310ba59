SPECIFICATION FairSpec
CONSTANTS
    ThreadCount = 3
    CountSize = 8
    MaxDepth = 2
    Tasks = {k1, k2, k3}
    None = None
INVARIANTS LatchCounts ExecutorOutlivesThreads
PROPERTIES AbsSpec SyncReturns DestructorReturns
CHECK_DEADLOCK FALSE
