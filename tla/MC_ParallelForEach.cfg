CONSTANTS
    ThreadCount = 2
    taskSize = 2
    MaxSections = 4
    AtomCounts = {1, 3}
SPECIFICATION FairSpec
INVARIANTS CommittedIsComplete HangsOnlyWhenNested
PROPERTIES LinkEnds ExitEnds ImplementsTaskGroup
CHECK_DEADLOCK FALSE
