CONSTANTS
    Threads = {t1, t2, t3, t4}
    __n_readers_ = 3
SPECIFICATION FairSpec
INVARIANTS StateCounts NoForgottenSleeper
PROPERTIES AbsSpec EnteredWriterGetsIn
