SPECIFICATION FairSpec
CONSTANTS
    p1 = p1
    p2 = p2
    p3 = p3
    Procs = {p1, p2, p3}
    Remote = {p3}
    MaxPolls = 2
    MaxErrors = 1
    None = None
INVARIANTS LockIsBacked ExclusiveUnlessStolen
PROPERTIES EveryProcessFinishes DeadLockIsCleared
CHECK_DEADLOCK FALSE
