SPECIFICATION Spec
CONSTANTS
    Task = {t1}
    Fd = {}
    PrioOf <- OnePriority
    PipeNo = {n1, n2}
    PipeCap = 0
    MaxFrames = 0
    MaxRuns = 1
SYMMETRY Symmetry
INVARIANTS
    NeverPollsCompleted
CHECK_DEADLOCK FALSE
