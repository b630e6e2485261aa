----------------------------- MODULE FifoQueues -----------------------------
(***************************************************************************)
(* What src/src/queue.rs promises the executor: a family of FIFO queues    *)
(* over shared entries.  An entry is on at most one queue; pushing a       *)
(* queued entry moves it to the end of the queue it is pushed on; a queue  *)
(* owns one reference to each entry it holds.                              *)
(***************************************************************************)
EXTENDS Naturals, Sequences, SequencesExt

CONSTANTS Entry,    \* the allocations that can be queued
          Queue,    \* the queues
          MaxHeld   \* bound: references to one entry the callers hold

VARIABLES fifo,     \* fifo[q]: the entries of q, the one to pop first
          held,     \* held[e]: references to e that callers own
          live      \* queues not yet dropped

fvars == <<fifo, held, live>>

IsIn(e, q) == e \in Range(fifo[q])

\* The queues after e has been taken off whichever holds it.
Without(e) == [q \in Queue |-> RemoveFirst(fifo[q], e)]

Init ==
    /\ fifo = [q \in Queue |-> <<>>]
    /\ held = [e \in Entry |-> 1]
    /\ live = Queue

\* The caller gives one reference away in every case: to the queue when the
\* entry was not queued, to be dropped when the queue already owns one.
Push(q, e) ==
    /\ q \in live /\ held[e] > 0
    /\ fifo' = [Without(e) EXCEPT ![q] = Append(@, e)]
    /\ held' = [held EXCEPT ![e] = @ - 1]
    /\ UNCHANGED live

Pop(q) ==
    /\ q \in live /\ fifo[q] # <<>>
    /\ fifo' = [fifo EXCEPT ![q] = Tail(@)]
    /\ held' = [held EXCEPT ![Head(fifo[q])] = @ + 1]
    /\ UNCHANGED live

\* Called on some queue, but takes the entry off whichever queue holds it.
Release(e) ==
    /\ held[e] > 0
    /\ fifo' = Without(e)
    /\ held' = [held EXCEPT ![e] = @ - 1]
    /\ UNCHANGED live

\* Dropping a queue pops and drops its entries one by one.
DropQueue(q) ==
    /\ q \in live
    /\ live' = live \ {q}
    /\ UNCHANGED <<fifo, held>>

DropPop(q) ==
    /\ q \notin live /\ fifo[q] # <<>>
    /\ fifo' = [fifo EXCEPT ![q] = Tail(@)]
    /\ UNCHANGED <<held, live>>

CloneRef(e) ==
    /\ held[e] > 0 /\ held[e] < MaxHeld
    /\ held' = [held EXCEPT ![e] = @ + 1]
    /\ UNCHANGED <<fifo, live>>

DropRef(e) ==
    /\ held[e] > 0
    /\ held' = [held EXCEPT ![e] = @ - 1]
    /\ UNCHANGED <<fifo, live>>

Next ==
    \/ \E q \in Queue, e \in Entry : Push(q, e)
    \/ \E q \in Queue : Pop(q) \/ DropQueue(q) \/ DropPop(q)
    \/ \E e \in Entry : Release(e) \/ CloneRef(e) \/ DropRef(e)

Spec == Init /\ [][Next]_fvars
=============================================================================
