SPECIFICATION FlushSpec
CONSTANTS
    MaxWrites = 2
    Sync = {s1, s2}
    Thread = {s1, s2, r1}
    Task = {t1, t2}
    Writer = t1
    Panics = {r1}
    Unheard = {r1, s1}
INVARIANTS
    LastPollerTold
    JoinsOnlyFinished
    OneSyncAtATime
    FlushCovers
PROPERTIES
    ReturnedJoinEnds
    FlushEnds
CHECK_DEADLOCK FALSE
