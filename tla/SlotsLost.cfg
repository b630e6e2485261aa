SPECIFICATION FairSpec
CONSTANTS
    f1 = f1
    f2 = f2
    f3 = f3
    x1 = x1
    x2 = x2
    Fd = {f1, f2}
    File = {x1, x2}
    FileOf <- OwnFile
    PipeCap = 2
    MaxRuns = 1
PROPERTIES
    WakesArrive
CHECK_DEADLOCK FALSE
