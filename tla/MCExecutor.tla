----------------------------- MODULE MCExecutor -----------------------------
EXTENDS Executor, TLC

\* The tasks share a run queue.
OnePriority == [t \in Task |-> 2]

\* They are interchangeable, and so are pipe numbers.
Symmetry == Permutations(Task) \cup Permutations(PipeNo)

\* The variables that guards and the properties of block_on read: without
\* aborted and woken, which are histories for other properties.
WhatCounts == <<pc, control, queues, tasks, fds, chan, gen, born, bwoken>>
=============================================================================
