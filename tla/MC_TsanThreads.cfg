CONSTANTS
    max_threads = 3
    thread_quarantine_size = 1
    max_reuse = 2
    kDirtyTids = 1
    kTracePartSize = 1
    MaxEpoch = 3
    Syncs = {s1}
SPECIFICATION Spec
INVARIANTS ListsMatchStatus FastReleaseSound FlagSound SizesCover ContextSyncEmpty
PROPERTY OperationsConform
CHECK_DEADLOCK FALSE
