SPECIFICATION Spec
CONSTANTS
    p1 = p1
    p2 = p2
    p3 = p3
    Procs = {p1, p2}
    Remote = {p3}
    MaxPolls = 2
    MaxErrors = 0
    None = None
INVARIANT SingleOwner
CHECK_DEADLOCK FALSE
