SPECIFICATION ReportingSpec
CONSTANTS
    t1 = t1
    t2 = t2
    t3 = t3
    Tids = {t1, t2}
    Calls <- LivenessCalls
    MaxQueue = 2
    None = None
PROPERTIES StopEndsLoop PendingIsResolved
CHECK_DEADLOCK FALSE
