SPECIFICATION Spec
CONSTANTS
    t1 = t1
    t2 = t2
    t3 = t3
    Tids = {t1, t2, t3}
    Calls <- ThreeThreadCalls
    MaxQueue = 1
    None = None
INVARIANTS PendingWaitsOnRunning FiredMeansStopped
PROPERTY AskedThreadsStop
CHECK_DEADLOCK FALSE
