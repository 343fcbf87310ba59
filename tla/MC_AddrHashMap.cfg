CONSTANTS
    Threads = {t1, t2}
    Addrs = {a, b, c}
    NoAddr = NoAddr
    kBucketSize = 1
    kInitCap = 1
    kHdrCells = 1
    Contended = {c}
    MaxOps = 3
SPECIFICATION FairSpec
INVARIANTS HandleKeepsElement HandlePointsToLiveArray NoDuplicates CreatorIsExclusive
PROPERTIES NotFoundIsTrue EveryCallReturns
CHECK_DEADLOCK FALSE
