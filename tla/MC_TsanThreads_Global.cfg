CONSTANTS
    max_threads = 3
    thread_quarantine_size = 0
    max_reuse = 2
    kDirtyTids = 1
    kTracePartSize = 1
    MaxEpoch = 3
    Syncs = {s1}
SPECIFICATION GlobalSpec
INVARIANT FastReleaseSound
CHECK_DEADLOCK FALSE
