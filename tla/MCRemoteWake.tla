--------------------------- MODULE MCRemoteWake -----------------------------
EXTENDS RemoteWake

CONSTANT h1

\* Every task is spawned by the first thread.
HomeFirst == [t \in Task |-> h1]
=============================================================================
