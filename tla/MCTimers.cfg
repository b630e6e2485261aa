SPECIFICATION FairSpec
CONSTANTS
    Duration = {0, 1, 2}
    BurstLimit = 2
INVARIANTS
    NotEarly
    FutureWins
    ExpiryKept
PROPERTIES
    CallsEnd
    FutureServed
    TicksTold
