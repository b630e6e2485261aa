SPECIFICATION Spec
CONSTANTS
    Interest = {"in", "out"}
    Waiter = {k1}
    Foreign = {}
    BurstLimit = 2
INVARIANTS
    NoLostEdge
CHECK_DEADLOCK FALSE
