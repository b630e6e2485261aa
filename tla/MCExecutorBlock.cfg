SPECIFICATION Spec
CONSTANTS
    Task = {t1, t2}
    Fd = {}
    PrioOf <- OnePriority
    PipeNo = {n1, n2}
    PipeCap = 1
    MaxFrames = 3
    MaxRuns = 1
SYMMETRY Symmetry
VIEW WhatCounts
INVARIANTS
    BlockWakeKept
PROPERTIES
    NextExecutorForgets
CHECK_DEADLOCK FALSE
