SPECIFICATION FairSpec
CONSTANTS
    f1 = f1
    f2 = f2
    f3 = f3
    x1 = x1
    x2 = x2
    Fd = {f1, f2, f3}
    File = {x1, x2}
    FileOf <- SharedFile
    PipeCap = 2
    MaxRuns = 1
INVARIANTS
    NoDanglingWaker
    LiveFdsRegistered
    SlotsMatch
PROPERTIES
    PipeRead
    ReadyReported
CHECK_DEADLOCK FALSE
