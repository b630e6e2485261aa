---------------------------- MODULE FdReadiness -----------------------------
(***************************************************************************)
(* The readiness of one registered file descriptor: EpollWaker             *)
(* (src/src/executor.rs:471-545), the part of epoll_wait that serves it    *)
(* (lines 258-285) and Fd::poll_with (src/src/fd.rs).                      *)
(*                                                                         *)
(* Registrations are edge triggered.  The kernel queues the fd when        *)
(* something arrives and reports, when asked, whatever is possible then.   *)
(* The futures of a waiter try an operation, and one that would block      *)
(* leaves the waiter's waker to be woken by the next report.  In a poll a  *)
(* task may go on trying for as long as its operations succeed.            *)
(***************************************************************************)
EXTENDS Naturals

CONSTANTS Interest,    \* the directions registered: EPOLLIN, EPOLLOUT
          Waiter,      \* whoever polls futures on the fd
          Foreign,     \* those whose waker is not a task waker
          BurstLimit   \* operations that may succeed in a row

NoWaiter == "none"

ASSUME BurstLimitIsPositive == BurstLimit \in Nat \ {0}
ASSUME ForeignWait == Foreign \subseteq Waiter
ASSUME WaitersAreNotMarks == NoWaiter \notin Waiter

VARIABLES
    level,      \* level[d]: an operation in direction d would not block
    edge,       \* the kernel has the fd on its ready list
    events,     \* EpollWaker.events
    waker,      \* EpollWaker.waker
    burst,      \* EpollWaker.burst
    polling,    \* the waiter whose poll is in progress
    pended,     \* directions that returned Pending in this poll
    waits,      \* waits[k]: directions k's futures wait for
    due,        \* waiters that were woken and not polled since
    readies     \* history: operations that succeeded in this poll

kernel == <<level, edge>>
fd     == <<events, waker, burst>>
vars   == <<kernel, fd, polling, pended, waits, due, readies>>

\* Fd::new: every direction is assumed to be ready.  The kernel queues the fd
\* when something is possible at its registration.
Init ==
    /\ level \in [Interest -> BOOLEAN] /\ edge = (\E d \in Interest : level[d])
    /\ events = Interest /\ waker = NoWaiter /\ burst = 0
    /\ polling = NoWaiter /\ pended = {}
    /\ waits = [k \in Waiter |-> {}]
    /\ due = Waiter
    /\ readies = 0
-----------------------------------------------------------------------------
(* The kernel and the peer. *)

Arrive(d) ==
    /\ level' = [level EXCEPT ![d] = TRUE]
    /\ edge' = TRUE
    /\ UNCHANGED <<fd, polling, pended, waits, due, readies>>

\* What had arrived is withdrawn or taken by someone else.
Withdraw(d) ==
    /\ level[d]
    /\ level' = [level EXCEPT ![d] = FALSE]
    /\ UNCHANGED <<edge, fd, polling, pended, waits, due, readies>>
-----------------------------------------------------------------------------
(* Executor::epoll_wait *)

Reported == IF edge THEN {d \in Interest : level[d]} ELSE {}

\* An event that adds to the readiness wakes the waker, if it is a task's.
Woken ==
    IF Reported \subseteq events \/ waker \notin Waiter \ Foreign THEN {} ELSE {waker}

Dispatch(others) ==
    /\ edge' = FALSE
    /\ events' = events \cup Reported
    /\ due' = due \cup Woken \cup others

EpollWait ==
    /\ polling = NoWaiter /\ edge
    /\ Dispatch({})
    /\ UNCHANGED <<level, waker, burst, polling, pended, waits, readies>>
-----------------------------------------------------------------------------
(* A poll of a waiter, and EpollWaker::poll_with inside it. *)

StartPoll(k) ==
    /\ polling = NoWaiter /\ k \in due
    /\ polling' = k /\ pended' = {} /\ readies' = 0
    /\ due' = due \ {k}
    /\ waits' = [waits EXCEPT ![k] = {}]
    /\ UNCHANGED <<kernel, fd>>

\* A future that returned Pending is not polled again in the same poll.  The
\* fd has one waker, so one waiter uses it at a time.
MayTry(d) ==
    /\ polling # NoWaiter /\ d \notin pended
    /\ \A k \in Waiter \ {polling} : waits[k] = {}

\* The waiter's waker is stored.
Park(d) ==
    /\ burst' = 0
    /\ waker' = polling
    /\ pended' = pended \cup {d}
    /\ waits' = [waits EXCEPT ![polling] = @ \cup {d}]
    /\ UNCHANGED <<kernel, polling, due, readies>>

NotReady(d) ==
    /\ MayTry(d) /\ events = {}
    /\ Park(d) /\ UNCHANGED events

\* Mutant of WouldBlock: the readiness is kept.
WouldBlockKeeps(d) ==
    /\ MayTry(d) /\ events # {} /\ burst < BurstLimit /\ ~level[d]
    /\ Park(d) /\ UNCHANGED events

\* The operation returned EAGAIN: the recorded readiness is forgotten.
WouldBlock(d) ==
    /\ MayTry(d) /\ events # {} /\ burst < BurstLimit /\ ~level[d]
    /\ Park(d) /\ events' = {}

\* Mutant of Succeed: what succeeded is not counted.
SucceedUncounted(d) ==
    /\ MayTry(d) /\ events # {} /\ burst < BurstLimit /\ level[d]
    /\ readies' = IF readies > BurstLimit THEN readies ELSE readies + 1
    /\ \E left \in BOOLEAN : level' = [level EXCEPT ![d] = left]
    /\ UNCHANGED <<edge, fd, polling, pended, waits, due>>

\* It succeeded, and may have used up what there was.
Succeed(d) ==
    /\ MayTry(d) /\ events # {} /\ burst < BurstLimit /\ level[d]
    /\ burst' = burst + 1 /\ readies' = readies + 1
    /\ \E left \in BOOLEAN : level' = [level EXCEPT ![d] = left]
    /\ UNCHANGED <<edge, events, waker, polling, pended, waits, due>>

\* Fd::poll_with on ControlFlow::Yield wakes the waiter: a task's wake()
\* collects events and enqueues the task, another waker reaches its waiter or,
\* like that of block_on on its own thread, does nothing.
Yield(d) ==
    /\ MayTry(d) /\ events # {} /\ burst >= BurstLimit
    /\ burst' = 0
    /\ pended' = pended \cup {d}
    /\ IF polling \in Foreign
       THEN due' \in {due, due \cup {polling}} /\ UNCHANGED <<edge, events>>
       ELSE Dispatch({polling})
    /\ UNCHANGED <<level, waker, polling, waits, readies>>

Try(d) == NotReady(d) \/ WouldBlock(d) \/ Succeed(d) \/ Yield(d)

EndPoll ==
    /\ polling # NoWaiter
    /\ polling' = NoWaiter
    /\ UNCHANGED <<kernel, fd, pended, waits, due, readies>>

\* A waiter drops its futures on the fd.
Cancel(k) ==
    /\ polling \in {NoWaiter, k} /\ waits[k] # {}
    /\ waits' = [waits EXCEPT ![k] = {}]
    /\ UNCHANGED <<kernel, fd, polling, pended, due, readies>>

\* Something else wakes the waiter.
WakeWaiter(k) ==
    /\ due' = due \cup {k}
    /\ UNCHANGED <<kernel, fd, polling, pended, waits, readies>>
-----------------------------------------------------------------------------
Next ==
    \/ \E d \in Interest : Arrive(d) \/ Withdraw(d) \/ Try(d)
    \/ \E k \in Waiter : StartPoll(k) \/ Cancel(k) \/ WakeWaiter(k)
    \/ EpollWait \/ EndPoll

\* A task in a poll goes on, and need not stop as long as nothing it can try
\* is Pending.  run() calls epoll_wait after every poll of a task, and runs
\* every task that was woken: both may have to wait for other polls to end.
MustEnd == pended # {} \/ \A d \in Interest : ~MayTry(d)

Goes == (\E d \in Interest : Try(d)) \/ (MustEnd /\ EndPoll)

Spec == Init /\ [][Next]_vars

FairSpec ==
    /\ Spec /\ WF_vars(Goes) /\ SF_vars(EpollWait)
    /\ \A k \in Waiter : SF_vars(StartPoll(k))
-----------------------------------------------------------------------------
(* The values of the variables: what an EpollWaker and its waiters hold.   *)
TypeOK ==
    /\ level \in [Interest -> BOOLEAN] /\ edge \in BOOLEAN
    /\ events \subseteq Interest /\ burst \in 0..BurstLimit /\ readies \in Nat
    /\ waker \in Waiter \cup {NoWaiter} /\ polling \in Waiter \cup {NoWaiter}
    /\ pended \subseteq Interest /\ due \subseteq Waiter
    /\ waits \in [Waiter -> SUBSET Interest]

\* While a future of k waits for what would not block, k has been woken, or
\* the kernel is about to report the fd.
EdgeKept(k) == \A d \in waits[k] : level[d] => k \in due \/ edge

(* executor.rs:531-535 and 268-281: the event that WouldBlock waits for    *)
(* comes.  No edge is lost between the operation that would block, the     *)
(* readiness recorded for the fd and the wake of the task that waits.      *)
NoLostEdge == \A k \in Waiter \ Foreign : EdgeKept(k)

(* executor.rs:518-523: an fd that is always ready gives one poll of a     *)
(* task at most BurstLimit results, whatever earlier polls left counted.   *)
BurstIsBounded == readies <= BurstLimit

(* executor.rs:520-522, "we could end up never yielding if the fd is       *)
(* always ready": the poll of a task that loops on the fd ends.            *)
PollsEnd == \A k \in Waiter : polling = k ~> polling # k

(* A task waiting for what has arrived is polled again, or what arrived    *)
(* is gone: the edge, the event loop and the waiter's poll follow up.      *)
ArrivalsServed ==
    \A k \in Waiter \ Foreign : \A d \in Interest :
        (d \in waits[k] /\ level[d]) ~> (d \notin waits[k] \/ ~level[d] \/ polling = k)
=============================================================================
