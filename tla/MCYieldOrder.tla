--------------------------- MODULE MCYieldOrder -----------------------------
EXTENDS YieldOrder, TLC

CONSTANTS t1, t2

\* The tasks share a run queue.
OnePriority == [t \in Task |-> 2]

\* They are interchangeable, and so are pipe numbers.
Symmetry == Permutations({t1, t2}) \cup Permutations(PipeNo)
=============================================================================
