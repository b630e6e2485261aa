-------------------------- MODULE MCEpollRegistry ---------------------------
EXTENDS EpollRegistry

CONSTANTS f1, f2, f3, x1, x2

\* Two Fds wrap one file, a third another one.
SharedFile == [f \in Fd |-> IF f = f3 THEN x2 ELSE x1]

\* Each Fd wraps a file of its own.
OwnFile == [f \in Fd |-> IF f = f1 THEN x1 ELSE x2]
=============================================================================
