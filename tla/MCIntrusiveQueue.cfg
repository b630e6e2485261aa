SPECIFICATION Spec
CONSTANTS
    Entry = {e1, e2, e3}
    Queue = {q1, q2}
    Null = Null
    MaxHeld = 2
INVARIANTS
    ListsAreRings
    CountsMatch
PROPERTIES
    RefinesFifo
CHECK_DEADLOCK FALSE
