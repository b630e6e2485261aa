SPECIFICATION YieldSpec
CONSTANTS
    t1 = t1
    t2 = t2
    Task = {t1, t2}
    Fd = {f1}
    PrioOf <- OnePriority
    PipeNo = {n1, n2}
    PipeCap = 1
    MaxFrames = 0
    MaxRuns = 1
SYMMETRY Symmetry
INVARIANTS
    Placement
    TaskConservation
    NoLostWake
    AwaiterNotStranded
PROPERTIES
    RunsToCompletion
    ShutdownStops
    YieldsToWaiting
CHECK_DEADLOCK FALSE
