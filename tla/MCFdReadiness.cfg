SPECIFICATION FairSpec
CONSTANTS
    Interest = {"in"}
    Waiter = {k1, k2}
    Foreign = {k2}
    BurstLimit = 2
INVARIANTS
    NoLostEdge
    BurstIsBounded
PROPERTIES
    PollsEnd
    ArrivalsServed
CHECK_DEADLOCK FALSE
