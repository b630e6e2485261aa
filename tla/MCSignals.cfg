SPECIFICATION SignalsSpec
CONSTANTS
    a1 = a1
    a2 = a2
    a3 = a3
    INT = INT
    HUP = HUP
    Async = {a1, a2, a3}
    Signal = {INT, HUP}
    SigSet <- Overlap
INVARIANTS
    NoSharedSignal
    MaskAccounted
CHECK_DEADLOCK FALSE
