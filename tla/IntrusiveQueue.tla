--------------------------- MODULE IntrusiveQueue ---------------------------
(***************************************************************************)
(* The intrusive doubly linked list of src/src/queue.rs, at the level of   *)
(* its raw pointers and Arc counts.                                        *)
(*                                                                         *)
(* A node is a queue's head or an entry embedded in an allocation.  The    *)
(* head of an empty queue points to itself.  An entry is queued exactly    *)
(* when its prev pointer is not null: unqueue() nulls prev and leaves next *)
(* dangling.  The list is circular; push() links after the head and pop()  *)
(* unlinks before it.  Each method runs under the executor's exclusive     *)
(* borrow, so it is one step; dropping a queue runs destructors between    *)
(* its pops, so it is one step per pop.                                    *)
(***************************************************************************)
EXTENDS Naturals, Sequences, FiniteSets, Functions

CONSTANTS Entry, Queue, MaxHeld, Null

ASSUME NodesAreDistinct ==
    /\ Entry \cap Queue = {}
    /\ Null \notin Entry \cup Queue

ASSUME EntriesAreFinite == IsFiniteSet(Entry)

ASSUME MaxHeldIsPositive == MaxHeld \in Nat \ {0}

Node == Entry \cup Queue

VARIABLES link,     \* link.prev, link.next: the pointers of every node
          strong,   \* strong[e]: the Arc's strong count; at 0 it is freed
          held,     \* held[e]: how many of these references callers own
          live      \* queues not yet dropped

vars == <<link, strong, held, live>>

Links == [prev : [Node -> Node \cup {Null}], next : [Node -> Node \cup {Null}]]

IsQueued(l, e) == l.prev[e] # Null

IsEmpty(l, q) == l.prev[q] = q

\* Mutant of Unqueue: the neighbours are joined but prev is not nulled.
UnqueueKeepsPrev(l, e) ==
    IF ~IsQueued(l, e) THEN l
    ELSE [next |-> [l.next EXCEPT ![l.prev[e]] = l.next[e]],
          prev |-> [l.prev EXCEPT ![l.next[e]] = l.prev[e]]]

\* QueueEntry::unqueue
Unqueue(l, e) ==
    IF ~IsQueued(l, e) THEN l
    ELSE [next |-> [l.next EXCEPT ![l.prev[e]] = l.next[e]],
          prev |-> [l.prev EXCEPT ![l.next[e]] = l.prev[e], ![e] = Null]]

\* Mutant of LinkAfterHead: the entry is linked before the head, where pop()
\* takes from.
LinkBeforeHead(l, q, e) ==
    [prev |-> [l.prev EXCEPT ![e] = l.prev[q], ![q] = e],
     next |-> [l.next EXCEPT ![e] = q, ![l.prev[q]] = e]]

\* The four pointer writes of push(), on an entry that is not queued.
LinkAfterHead(l, q, e) ==
    [next |-> [l.next EXCEPT ![e] = l.next[q], ![q] = e],
     prev |-> [l.prev EXCEPT ![e] = q, ![l.next[q]] = e]]

\* Queue::new and Queue::init, QueueEntry::new
Init ==
    /\ link = [prev |-> [n \in Node |-> IF n \in Queue THEN n ELSE Null],
               next |-> [n \in Node |-> IF n \in Queue THEN n ELSE Null]]
    /\ strong = [e \in Entry |-> 1]
    /\ held = [e \in Entry |-> 1]
    /\ live = Queue

\* If the entry was queued its reference already belongs to a list, so the
\* caller's is dropped; otherwise the caller's is leaked into the list.
Push(q, e) ==
    /\ q \in live /\ held[e] > 0
    /\ link' = LinkAfterHead(Unqueue(link, e), q, e)
    /\ strong' = [strong EXCEPT ![e] = IF IsQueued(link, e) THEN @ - 1 ELSE @]
    /\ held' = [held EXCEPT ![e] = @ - 1]
    /\ UNCHANGED live

\* pop() hands the list's own reference to the caller.
Pop(q) ==
    /\ q \in live /\ ~IsEmpty(link, q)
    /\ link' = Unqueue(link, link.prev[q])
    /\ held' = [held EXCEPT ![link.prev[q]] = @ + 1]
    /\ UNCHANGED <<strong, live>>

\* Mutant of Release: the list's reference is leaked.
ReleaseLeaksRef(e) ==
    /\ held[e] > 0
    /\ link' = Unqueue(link, e)
    /\ strong' = [strong EXCEPT ![e] = @ - 1]
    /\ held' = [held EXCEPT ![e] = @ - 1]
    /\ UNCHANGED live

\* release() drops the list's reference if there is one, and the caller's.
Release(e) ==
    /\ held[e] > 0
    /\ link' = Unqueue(link, e)
    /\ strong' = [strong EXCEPT ![e] = IF IsQueued(link, e) THEN @ - 2 ELSE @ - 1]
    /\ held' = [held EXCEPT ![e] = @ - 1]
    /\ UNCHANGED live

\* Drop for Queue: the owner gives the queue up, then it pops until empty,
\* dropping each reference it pops.
DropQueue(q) ==
    /\ q \in live
    /\ live' = live \ {q}
    /\ UNCHANGED <<link, strong, held>>

DropPop(q) ==
    /\ q \notin live /\ ~IsEmpty(link, q)
    /\ link' = Unqueue(link, link.prev[q])
    /\ strong' = [strong EXCEPT ![link.prev[q]] = @ - 1]
    /\ UNCHANGED <<held, live>>

\* Arc::clone and Arc::drop by whoever holds a reference.
CloneRef(e) ==
    /\ held[e] > 0 /\ held[e] < MaxHeld
    /\ strong' = [strong EXCEPT ![e] = @ + 1]
    /\ held' = [held EXCEPT ![e] = @ + 1]
    /\ UNCHANGED <<link, live>>

DropRef(e) ==
    /\ held[e] > 0
    /\ strong' = [strong EXCEPT ![e] = @ - 1]
    /\ held' = [held EXCEPT ![e] = @ - 1]
    /\ UNCHANGED <<link, live>>

Next ==
    \/ \E q \in Queue, e \in Entry : Push(q, e)
    \/ \E q \in Queue : Pop(q) \/ DropQueue(q) \/ DropPop(q)
    \/ \E e \in Entry : Release(e) \/ CloneRef(e) \/ DropRef(e)

Spec == Init /\ [][Next]_vars
-----------------------------------------------------------------------------
(* The state every variable ranges over. *)
TypeOK ==
    /\ link \in Links
    /\ strong \in [Entry -> Nat]
    /\ held \in [Entry -> Nat]
    /\ live \subseteq Queue

\* The node at position i of the ring of q whose entries are s: the head comes
\* before the first and after the last.
At(q, s, i) == IF i \in 1..Len(s) THEN s[i] ELSE q

\* From q the prev pointers lead over the entries of s back to q, and the next
\* pointers lead the other way.
IsRing(l, q, s) ==
    /\ IsInjective(s)
    /\ \A i \in 0..Len(s) : /\ l.prev[At(q, s, i)] = At(q, s, i + 1)
                           /\ l.next[At(q, s, i + 1)] = At(q, s, i)

Lists == UNION {[1..n -> Entry] : n \in 0..Cardinality(Entry)}

\* The entries of q in the order in which pop() takes them.
Chain(q) == CHOOSE s \in Lists : IsRing(link, q, s)

(* queue.rs push/pop/release: the pointers of each head and its entries    *)
(* form one ring, no entry is on two of them, and an entry looks queued to *)
(* is_queued() exactly when it is on one.                                  *)
ListsAreRings ==
    /\ \A q \in Queue : \E s \in Lists : IsRing(link, q, s)
    /\ \A q, r \in Queue : q # r => Range(Chain(q)) \cap Range(Chain(r)) = {}
    /\ \A e \in Entry : IsQueued(link, e) <=> \E q \in Queue : e \in Range(Chain(q))

(* queue.rs with_entry/from_entry: a list owns exactly one reference to    *)
(* every entry linked on it and none to the others, whichever sequence of  *)
(* pushes, moves, pops, releases and drops came before; so an entry that   *)
(* is still linked is never freed and a freed one is never linked.         *)
CountsMatch ==
    \A e \in Entry :
        strong[e] = held[e] + (IF IsQueued(link, e) THEN 1 ELSE 0)

(* The linked lists, read from their heads, behave as the FIFO queues the  *)
(* executor relies on.                                                     *)
Fifo == INSTANCE FifoQueues WITH fifo <- [q \in Queue |-> Chain(q)]
RefinesFifo == Fifo!Spec
=============================================================================
