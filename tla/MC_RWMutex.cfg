CONSTANTS
    Threads = {t1, t2, t3, t4}
    WordSize = 10
SPECIFICATION FairSpec
INVARIANT WordCounts
PROPERTIES AbsSpec SpinningReaderGetsIn
