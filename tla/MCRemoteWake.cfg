SPECIFICATION FairSpec
CONSTANTS
    h1 = h1
    Thread = {h1, h2}
    Task = {t1}
    Home <- HomeFirst
    MaxNo = 3
    PipeCap = 2
    MaxWeak = 4
INVARIANTS
    PointersKept
    TasksStay
PROPERTIES
    WakesServed
CHECK_DEADLOCK FALSE
