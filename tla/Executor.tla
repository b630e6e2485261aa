------------------------------ MODULE Executor ------------------------------
(***************************************************************************)
(* The thread-local executor of src/src/executor.rs and the task handles   *)
(* of src/src/task.rs: one thread's run queues, sleep queue and wake pipe, *)
(* the run() and block_on() loops that serve them, and the user code the   *)
(* loops poll.                                                             *)
(*                                                                         *)
(* The executor's thread is sequential.  Its call stack is `frames': a     *)
(* run() loop, block_on() loops and the tasks they are polling, innermost  *)
(* last.  While pc = "user" the innermost frame runs user code (main, a    *)
(* task, or the future block_on polls), which may call any operation of    *)
(* the crate; the other values of pc are the points of the loops.  The     *)
(* kernel (an edge on a registered fd) and other threads (a wake written   *)
(* to the pipe) act between any two steps.                                 *)
(***************************************************************************)
EXTENDS Naturals, Sequences, SequencesExt

CONSTANTS Task,       \* task identities; one spawn each
          Fd,         \* file descriptors registered with the epoll instance
          PrioOf,     \* PrioOf[t]: the priority t is spawned with
          PipeNo,     \* the numbers the kernel may give the pipe's write end
          PipeCap,    \* bound: pointers the wake pipe holds
          MaxFrames,  \* bound: depth of the call stack
          MaxRuns     \* bound: executors created after the first

\* Priority, from the highest: High, Normal, Low.
Priority == 1..3

NoTask == "none"
Marks == {NoTask, "main", "run", "block", "null", "pipe"}

ASSUME TasksAreNotMarks == Task \cap Marks = {} /\ Fd \cap Marks = {}
ASSUME PrioOfType == PrioOf \in [Task -> Priority]
ASSUME BoundsType == PipeCap \in Nat /\ MaxFrames \in Nat /\ MaxRuns \in Nat

VARIABLES
    pc,         \* where the thread is
    frames,     \* the call stack: "run", "block" or a task being polled
    batch,      \* events epoll_wait returned and the loop has not handled
    after,      \* the task wake() enqueues once these are handled
    resume,     \* the pc to go to once these are handled
    runq,       \* runq_high, runq_normal, runq_low
    sleepq,     \* the sleep queue; its order is never observed
    status,     \* "unborn", "fresh" (never polled), "started", "done"
    handle,     \* whether the task's Handle still exists
    output,     \* whether the task's output is stored and not yet taken
    waiter,     \* handle_waker: who is woken when the task completes
    home,       \* the task's copy of its executor's pipe_wr
    ready,      \* EpollWaker.events is not empty, per fd
    edge,       \* the kernel holds an unreported edge, per fd
    parked,     \* EpollWaker.waker, per fd
    pipe,       \* what other threads wrote to the wake pipe
    pipeNo,     \* the number of this executor's pipe_wr
    shutdown,   \* Executor.shutdown
    gen,        \* history: how many executors run() has replaced
    born,       \* history: the value of gen at each task's spawn
    aborted,    \* history: tasks aborted when they were not done nor running
    woken,      \* history: the task was woken since its last poll or abort
    bwoken      \* history: block_on frames woken since their last poll ended

control == <<frames, batch, after, resume>>
queues  == <<runq, sleepq>>
tasks   == <<status, handle, output, waiter, home>>
fds     == <<ready, edge, parked>>
chan    == <<pipe, pipeNo, shutdown>>
history == <<gen, born, aborted, woken, bwoken>>
vars    == <<pc, control, queues, tasks, fds, chan, history>>
-----------------------------------------------------------------------------
(* Who is where. *)

Polling == Range(frames) \cap Task

Me == IF frames = <<>> THEN "main" ELSE Last(frames)

InRunq(t) == t \in Range(runq[PrioOf[t]])

Queued(t) == InRunq(t) \/ t \in sleepq

Unfinished(t) == status[t] \in {"fresh", "started"}

\* Weak::upgrade succeeds: a queue, the Handle or run_task owns a reference.
Alive(t) == Queued(t) \/ handle[t] \/ t \in Polling

\* The user code can have a clone of t's waker: it is handed out by poll().
HasWaker(t) == status[t] \in {"started", "done"} /\ Alive(t)

Current(t) == born[t] = gen
-----------------------------------------------------------------------------
\* Mutant of Enqueue: a queued task is pushed without being taken off first.
EnqueueTwice(t) ==
    IF status[t] = "done" THEN UNCHANGED queues
    ELSE /\ runq' = [runq EXCEPT ![PrioOf[t]] = Append(@, t)]
         /\ UNCHANGED sleepq

\* Mutant of Enqueue: the task goes to the front of its run queue.
EnqueueFirst(t) ==
    IF status[t] = "done" THEN UNCHANGED queues
    ELSE /\ runq' = [runq EXCEPT ![PrioOf[t]] = <<t>> \o RemoveFirst(@, t)]
         /\ sleepq' = sleepq \ {t}

(* Executor::enqueue, with the push of queue.rs: a queued task moves to    *)
(* the end of its run queue, a completed one is not enqueued.              *)
Enqueue(t) ==
    IF status[t] = "done" THEN UNCHANGED queues
    ELSE /\ runq' = [runq EXCEPT ![PrioOf[t]] = Append(RemoveFirst(@, t), t)]
         /\ sleepq' = sleepq \ {t}

\* Queue::release, called by Executor::abort
Release(t) ==
    /\ runq' = [runq EXCEPT ![PrioOf[t]] = RemoveFirst(@, t)]
    /\ sleepq' = sleepq \ {t}

\* task_waker::wake called on the executor's thread for a task that is not
\* being polled.  A task of another executor has another pipe number: the
\* write fails with EBADF and is ignored.
WakeIdle(t) ==
    IF Alive(t) /\ home[t] = pipeNo
    THEN /\ Enqueue(t)
         /\ woken' = [woken EXCEPT ![t] = TRUE]
    ELSE UNCHANGED <<queues, woken>>

Sources == {f \in Fd : edge[f]} \cup (IF pipe = <<>> THEN {} ELSE {"pipe"})

\* The epoll_wait system call: every ready source is reported (the events
\* buffer has one slot per registration) and reported edges are consumed.
Harvest(t, next) ==
    /\ batch' = Sources
    /\ edge' = [f \in Fd |-> FALSE]
    /\ after' = t
    /\ resume' = next
    /\ pc' = "events"
    /\ UNCHANGED <<ready, parked>>

\* Where a loop goes after its epoll_wait: run() looks for a task, block_on
\* polls its future.
LoopTop == IF Me = "run" THEN "pick" ELSE "user"

\* Mutant of Replace: the old executor is dropped before the new one is built,
\* so its pipe's number is free again.
ReplaceInPlace ==
    /\ frames' = <<>> /\ pc' = "user"
    /\ runq' = [p \in Priority |-> <<>>] /\ sleepq' = {}
    /\ pipe' = <<>> /\ shutdown' = FALSE
    /\ pipeNo' \in PipeNo
    /\ gen' = gen + 1
    /\ ready' = [f \in Fd |-> TRUE]
    /\ edge' = [f \in Fd |-> FALSE]
    /\ parked' = [f \in Fd |-> NoTask]
    /\ UNCHANGED <<batch, after, resume, tasks, born, aborted, woken, bwoken>>

\* EXECUTOR.replace at the end of run(): a new executor is built while the
\* old one is still open, then the old one and its queues are dropped.
Replace ==
    /\ frames' = <<>> /\ pc' = "user"
    /\ runq' = [p \in Priority |-> <<>>] /\ sleepq' = {}
    /\ pipe' = <<>> /\ shutdown' = FALSE
    /\ pipeNo' \in PipeNo \ {pipeNo}
    /\ gen' = gen + 1
    /\ ready' = [f \in Fd |-> TRUE]
    /\ edge' = [f \in Fd |-> FALSE]
    /\ parked' = [f \in Fd |-> NoTask]
    /\ UNCHANGED <<batch, after, resume, tasks, born, aborted, woken, bwoken>>

Init ==
    /\ pc = "user" /\ frames = <<>>
    /\ batch = {} /\ after = NoTask /\ resume = "pick"
    /\ runq = [p \in Priority |-> <<>>] /\ sleepq = {}
    /\ status = [t \in Task |-> "unborn"]
    /\ handle = [t \in Task |-> FALSE]
    /\ output = [t \in Task |-> FALSE]
    /\ waiter = [t \in Task |-> NoTask]
    /\ pipeNo \in PipeNo
    /\ home = [t \in Task |-> pipeNo]
    /\ ready = [f \in Fd |-> TRUE]
    /\ edge = [f \in Fd |-> FALSE]
    /\ parked = [f \in Fd |-> NoTask]
    /\ pipe = <<>> /\ shutdown = FALSE
    /\ gen = 0 /\ born = [t \in Task |-> 0]
    /\ aborted = {} /\ woken = [t \in Task |-> FALSE]
    /\ bwoken = {}
-----------------------------------------------------------------------------
(* Operations user code calls. *)

InFuture == Me \in Task \cup {"block"}

Spawn(t) ==
    /\ pc = "user" /\ status[t] = "unborn"
    /\ status' = [status EXCEPT ![t] = "fresh"]
    /\ handle' = [handle EXCEPT ![t] = TRUE]
    /\ home' = [home EXCEPT ![t] = pipeNo]
    /\ born' = [born EXCEPT ![t] = gen]
    /\ Enqueue(t)
    /\ UNCHANGED <<pc, control, output, waiter, fds, chan,
                   gen, aborted, woken, bwoken>>

DropHandle(t) ==
    /\ pc = "user" /\ handle[t]
    /\ handle' = [handle EXCEPT ![t] = FALSE]
    /\ UNCHANGED <<pc, control, queues, status, output, waiter, home, fds, chan, history>>

Abort(t) ==
    /\ pc = "user" /\ handle[t]
    /\ Release(t)
    /\ aborted' = IF Unfinished(t) /\ t \notin Polling THEN aborted \cup {t} ELSE aborted
    /\ woken' = [woken EXCEPT ![t] = FALSE]
    /\ UNCHANGED <<pc, control, tasks, fds, chan, gen, born, bwoken>>

\* Handle::result and Handle::poll finding an output take it.
TakeOutput(t) ==
    /\ pc = "user" /\ handle[t] /\ t \notin Polling /\ output[t]
    /\ output' = [output EXCEPT ![t] = FALSE]
    /\ UNCHANGED <<pc, control, queues, status, handle, waiter, home, fds, chan, history>>

\* Mutant of AwaitHandle: the waker is stored without looking for an output.
AwaitHandleUnchecked(t) ==
    /\ pc = "user" /\ InFuture /\ handle[t] /\ t \notin Polling
    /\ waiter' = [waiter EXCEPT ![t] = Me]
    /\ UNCHANGED <<pc, control, queues, status, handle, output, home, fds, chan, history>>

\* Handle::poll finding none stores the poller's waker.
AwaitHandle(t) ==
    /\ pc = "user" /\ InFuture /\ handle[t] /\ t \notin Polling /\ ~output[t]
    /\ waiter' = [waiter EXCEPT ![t] = Me]
    /\ UNCHANGED <<pc, control, queues, status, handle, output, home, fds, chan, history>>

\* Both borrow the task, which is borrowed mutably while it is polled.
HandlePanics(t) ==
    /\ pc = "user" /\ handle[t] /\ t \in Polling
    /\ pc' = "panic"
    /\ UNCHANGED <<control, queues, tasks, fds, chan, history>>

\* A waker of a task that is not being polled.
WakeLocal(t) ==
    /\ pc = "user" /\ HasWaker(t) /\ t \notin Polling
    /\ WakeIdle(t)
    /\ UNCHANGED <<pc, control, tasks, fds, chan, gen, born, aborted, bwoken>>

\* A waker of a task on the call stack, as yield_now() calls it: wake()
\* collects events first and enqueues the task after them.
WakeRunning(t) ==
    /\ pc = "user" /\ t \in Polling
    /\ Harvest(t, "user")
    /\ UNCHANGED <<frames, queues, tasks, chan, history>>

\* The future of the block_on frame i is itself in the middle of a poll, in
\* wake() or in a block_on of its own.
InOwnPoll(i) ==
    IF i = Len(frames) THEN pc = "user" \/ after # NoTask ELSE frames[i + 1] = "block"

RecordBlockWake(i) ==
    IF InOwnPoll(i) THEN UNCHANGED bwoken ELSE bwoken' = bwoken \cup {i}

\* The waker of a block_on future: on this thread it does nothing.
WakeBlock(i) ==
    /\ pc = "user" /\ frames[i] = "block"
    /\ RecordBlockWake(i)
    /\ UNCHANGED <<pc, control, queues, tasks, fds, chan, gen, born, aborted, woken>>

\* EpollWaker::poll_with returning Pending: no readiness is left, and the
\* poller's waker is stored or, as main() polls too, one that wakes nobody.
ParkOnFd(f) ==
    /\ pc = "user"
    /\ ready' = [ready EXCEPT ![f] = FALSE]
    /\ \E k \in {NoTask} \cup (IF InFuture THEN {Me} ELSE {}) :
          parked' = [parked EXCEPT ![f] = k]
    /\ UNCHANGED <<pc, control, queues, tasks, edge, chan, history>>

RequestShutdown ==
    /\ pc = "user" /\ InFuture
    /\ shutdown' = TRUE
    /\ UNCHANGED <<pc, control, queues, tasks, fds, pipe, pipeNo, history>>

Run ==
    /\ pc = "user" /\ frames = <<>> /\ gen < MaxRuns
    /\ frames' = <<"run">> /\ pc' = "pick"
    /\ UNCHANGED <<batch, after, resume, queues, tasks, fds, chan, history>>

BlockOn ==
    /\ pc = "user" /\ Len(frames) < MaxFrames
    /\ frames' = Append(frames, "block")
    /\ UNCHANGED <<pc, batch, after, resume, queues, tasks, fds, chan, history>>
-----------------------------------------------------------------------------
(* How the user code of a frame ends. *)

\* Mutant of TaskPending: a task that is queued is put to sleep as well.
SleepAlways ==
    /\ pc = "user" /\ Me \in Task
    /\ frames' = Front(frames) /\ pc' = "ran"
    /\ runq' = [runq EXCEPT ![PrioOf[Me]] = RemoveFirst(@, Me)]
    /\ sleepq' = sleepq \cup {Me}
    /\ UNCHANGED <<batch, after, resume, tasks, fds, chan, history>>

\* run_task on Poll::Pending: a task that is already queued woke itself.
TaskPending ==
    /\ pc = "user" /\ Me \in Task
    /\ frames' = Front(frames) /\ pc' = "ran"
    /\ sleepq' = IF Queued(Me) THEN sleepq ELSE sleepq \cup {Me}
    /\ UNCHANGED <<batch, after, resume, runq, tasks, fds, chan, history>>

\* Inner::poll stores the output, then run_task sees Poll::Ready.
TaskReady ==
    /\ pc = "user" /\ Me \in Task
    /\ output' = [output EXCEPT ![Me] = TRUE]
    /\ pc' = "finish"
    /\ UNCHANGED <<control, queues, status, handle, waiter, home, fds, chan, history>>

\* run_task wakes the handle's waiter, then marks the task completed.
Finish ==
    /\ pc = "finish" /\ waiter[Me] \notin Polling
    /\ IF waiter[Me] \in Task THEN WakeIdle(waiter[Me]) ELSE UNCHANGED <<queues, woken>>
    /\ waiter' = [waiter EXCEPT ![Me] = NoTask]
    /\ status' = [status EXCEPT ![Me] = "done"]
    /\ frames' = Front(frames) /\ pc' = "ran"
    /\ UNCHANGED <<batch, after, resume, handle, output, home, fds, chan,
                   gen, born, aborted, bwoken>>

\* The same with a waiter that is on the call stack: its wake collects
\* events before the task is marked completed.
FinishWakesRunning ==
    /\ pc = "finish" /\ waiter[Me] \in Polling
    /\ waiter' = [waiter EXCEPT ![Me] = NoTask]
    /\ Harvest(waiter[Me], "finish")
    /\ UNCHANGED <<frames, queues, status, handle, output, home, chan, history>>

BlockPending ==
    /\ pc = "user" /\ Me = "block"
    /\ pc' = "pick"
    /\ UNCHANGED <<control, queues, tasks, fds, chan, history>>

BlockReady ==
    /\ pc = "user" /\ Me = "block"
    /\ frames' = Front(frames)
    /\ bwoken' = bwoken \ {Len(frames)}
    /\ UNCHANGED <<pc, batch, after, resume, queues, tasks, fds, chan,
                   gen, born, aborted, woken>>
-----------------------------------------------------------------------------
(* The loops of run() and block_on(). *)

Runnable == {p \in Priority : runq[p] # <<>>}

Highest == CHOOSE p \in Runnable : \A r \in Runnable : p <= r
NextTask == Head(runq[Highest])

\* A task that is being polled is mutably borrowed; a completed future must
\* not be polled.
MayPoll(t) == t \notin Polling /\ status[t] # "done"

PollTask ==
    /\ pc = "pick" /\ Runnable # {} /\ MayPoll(NextTask)
    /\ runq' = [runq EXCEPT ![Highest] = Tail(@)]
    /\ frames' = Append(frames, NextTask) /\ pc' = "user"
    /\ status' = [status EXCEPT ![NextTask] = "started"]
    /\ woken' = [woken EXCEPT ![NextTask] = FALSE]
    /\ UNCHANGED <<batch, after, resume, sleepq, handle, output, waiter, home,
                   fds, chan, gen, born, aborted, bwoken>>

PollPanics ==
    /\ pc = "pick" /\ Runnable # {} /\ ~MayPoll(NextTask)
    /\ runq' = [runq EXCEPT ![Highest] = Tail(@)]
    /\ pc' = "panic"
    /\ UNCHANGED <<control, sleepq, tasks, fds, chan, history>>

\* run() leaves its loop when a task it ran asked for it.
ShutDown ==
    /\ pc = "ran" /\ Me = "run" /\ shutdown
    /\ Replace

\* Mutant of CheckEvents: run() does not look at the flag.
CheckEventsAnyway ==
    /\ pc = "ran"
    /\ Harvest(NoTask, LoopTop)
    /\ UNCHANGED <<frames, queues, tasks, chan, history>>

CheckEvents ==
    /\ pc = "ran" /\ ~(Me = "run" /\ shutdown)
    /\ Harvest(NoTask, LoopTop)
    /\ UNCHANGED <<frames, queues, tasks, chan, history>>

\* Mutant of AllDone: run() leaves when no task is runnable.
NoneRunnable ==
    /\ pc = "pick" /\ Me = "run" /\ Runnable = {}
    /\ Replace

\* run() leaves its loop when no task is left.
AllDone ==
    /\ pc = "pick" /\ Me = "run" /\ Runnable = {} /\ sleepq = {}
    /\ Replace

Sleep ==
    /\ pc = "pick" /\ Runnable = {} /\ (Me = "run" => sleepq # {})
    /\ pc' = "wait"
    /\ UNCHANGED <<control, queues, tasks, fds, chan, history>>

WakeUp ==
    /\ pc = "wait" /\ Sources # {}
    /\ Harvest(NoTask, LoopTop)
    /\ UNCHANGED <<frames, queues, tasks, chan, history>>

\* EINTR counts as no event.
Interrupted ==
    /\ pc = "wait"
    /\ pc' = "events" /\ after' = NoTask /\ resume' = LoopTop
    /\ UNCHANGED <<frames, batch, queues, tasks, fds, chan, history>>

\* Mutant of RunFails: the queues are dropped with the loop.
RunFailsForgets ==
    /\ pc = "wait" \/ (pc = "ran" /\ ~shutdown)
    /\ Me = "run"
    /\ frames' = <<>> /\ pc' = "user"
    /\ runq' = [p \in Priority |-> <<>>] /\ sleepq' = {}
    /\ UNCHANGED <<batch, after, resume, tasks, fds, chan, history>>

\* epoll_wait fails, with no event reported: run() returns the error at once.
\* The executor stays, and run() may be called again.
RunFails ==
    /\ pc = "wait" \/ (pc = "ran" /\ ~shutdown)
    /\ Me = "run"
    /\ frames' = <<>> /\ pc' = "user"
    /\ UNCHANGED <<batch, after, resume, queues, tasks, fds, chan, history>>

\* One iteration of the loop over the events: a registered fd.  Readiness
\* already known wakes nobody; only task wakers are woken from here.
HandleFd(f) ==
    /\ pc = "events" /\ f \in batch
    /\ batch' = batch \ {f}
    /\ ready' = [ready EXCEPT ![f] = TRUE]
    /\ IF ~ready[f] /\ parked[f] \in Task /\ Alive(parked[f])
       THEN /\ Enqueue(parked[f])
            /\ woken' = [woken EXCEPT ![parked[f]] = TRUE]
       ELSE UNCHANGED <<queues, woken>>
    /\ UNCHANGED <<pc, frames, after, resume, tasks, edge, parked, chan,
                   gen, born, aborted, bwoken>>

\* The same for the pipe: wake_from_pipe reads one pointer, null for
\* block_on's future.
WakeFromPipe ==
    /\ pc = "events" /\ "pipe" \in batch
    /\ batch' = batch \ {"pipe"}
    /\ pipe' = Tail(pipe)
    /\ IF Head(pipe) \in Task /\ Alive(Head(pipe))
       THEN Enqueue(Head(pipe)) ELSE UNCHANGED queues
    /\ UNCHANGED <<pc, frames, after, resume, tasks, fds, pipeNo, shutdown, history>>

\* The loop over the events ends; a wake() that started it enqueues its
\* task, a block_on loop polls its future again.
EventsHandled ==
    /\ pc = "events" /\ batch = {}
    /\ pc' = resume /\ resume' = "pick"
    /\ after' = NoTask
    /\ IF after \in Task
       THEN /\ Enqueue(after)
            /\ woken' = [woken EXCEPT ![after] = TRUE]
            /\ UNCHANGED bwoken
       ELSE /\ bwoken' = bwoken \ {Len(frames)}
            /\ UNCHANGED <<queues, woken>>
    /\ UNCHANGED <<frames, batch, tasks, fds, chan, gen, born, aborted>>
-----------------------------------------------------------------------------
(* The kernel and the other threads. *)

KernelEdge(f) ==
    /\ pc # "panic" /\ ~edge[f]
    /\ edge' = [edge EXCEPT ![f] = TRUE]
    /\ UNCHANGED <<pc, control, queues, tasks, ready, parked, chan, history>>

\* task_waker::wake on another thread writes the task's address.
WakeRemote(t) ==
    /\ pc # "panic" /\ HasWaker(t) /\ home[t] = pipeNo /\ Len(pipe) < PipeCap
    /\ pipe' = Append(pipe, t)
    /\ woken' = [woken EXCEPT ![t] = TRUE]
    /\ UNCHANGED <<pc, control, queues, tasks, fds, pipeNo, shutdown,
                   gen, born, aborted, bwoken>>

\* Mutant of WakeBlockRemote: no null pointer is written.
WakeBlockSilently(i) ==
    /\ pc # "panic" /\ frames[i] = "block" /\ Len(pipe) < PipeCap
    /\ RecordBlockWake(i)
    /\ UNCHANGED <<pc, control, queues, tasks, fds, chan, gen, born, aborted, woken>>

\* The waker of a block_on future, on another thread, writes a null pointer.
WakeBlockRemote(i) ==
    /\ pc # "panic" /\ frames[i] = "block" /\ Len(pipe) < PipeCap
    /\ pipe' = Append(pipe, "null")
    /\ RecordBlockWake(i)
    /\ UNCHANGED <<pc, control, queues, tasks, fds, pipeNo, shutdown,
                   gen, born, aborted, woken>>
-----------------------------------------------------------------------------
UserStep ==
    \/ \E t \in Task : Spawn(t) \/ DropHandle(t) \/ Abort(t)
    \/ \E t \in Task : TakeOutput(t) \/ AwaitHandle(t) \/ HandlePanics(t)
    \/ \E t \in Task : WakeLocal(t) \/ WakeRunning(t)
    \/ \E i \in DOMAIN frames : WakeBlock(i)
    \/ \E f \in Fd : ParkOnFd(f)
    \/ RequestShutdown \/ Run \/ BlockOn

PollEnds == TaskPending \/ TaskReady \/ BlockPending \/ BlockReady

LoopStep ==
    \/ Finish \/ FinishWakesRunning
    \/ PollTask \/ PollPanics \/ ShutDown \/ CheckEvents
    \/ AllDone \/ Sleep \/ WakeUp \/ Interrupted \/ RunFails
    \/ \E f \in Fd : HandleFd(f)
    \/ WakeFromPipe \/ EventsHandled

Outside ==
    \/ \E f \in Fd : KernelEdge(f)
    \/ \E t \in Task : WakeRemote(t)
    \/ \E i \in DOMAIN frames : WakeBlockRemote(i)

Next == UserStep \/ PollEnds \/ LoopStep \/ Outside

Spec == Init /\ [][Next]_vars
-----------------------------------------------------------------------------
\* Tasks a step starts to poll.
Starts == Polling' \ Polling

(* The values the variables range over. *)
TypeOK ==
    /\ pc \in {"user", "pick", "wait", "events", "ran", "finish", "panic"}
    /\ frames \in Seq(Task \cup {"run", "block"})
    /\ batch \subseteq Fd \cup {"pipe"}
    /\ after \in Task \cup {NoTask}
    /\ resume \in {"pick", "user", "finish"}
    /\ runq \in [Priority -> Seq(Task)]
    /\ sleepq \subseteq Task
    /\ status \in [Task -> {"unborn", "fresh", "started", "done"}]
    /\ handle \in [Task -> BOOLEAN]
    /\ output \in [Task -> BOOLEAN]
    /\ waiter \in [Task -> Task \cup {NoTask, "block"}]
    /\ home \in [Task -> PipeNo]
    /\ ready \in [Fd -> BOOLEAN]
    /\ edge \in [Fd -> BOOLEAN]
    /\ parked \in [Fd -> Task \cup {NoTask, "block"}]
    /\ pipe \in Seq(Task \cup {"null"})
    /\ pipeNo \in PipeNo
    /\ shutdown \in BOOLEAN
    /\ gen \in Nat
    /\ born \in [Task -> Nat]
    /\ aborted \subseteq Task
    /\ woken \in [Task -> BOOLEAN]
    /\ bwoken \subseteq Nat

(* Executor queues (executor.rs:123-133): a task is queued at most once,   *)
(* on the run queue of its own priority or asleep but never both, and a    *)
(* sleeping task is neither completed nor being polled.                    *)
RunQueues ==
    \A p \in Priority :
        /\ IsInjective(runq[p])
        /\ \A t \in Range(runq[p]) : PrioOf[t] = p /\ t \notin sleepq

Placement ==
    /\ RunQueues
    /\ \A t \in sleepq : status[t] = "started" /\ t \notin Polling

(* run, block_on and run_task: a task is polled by a loop, once, and is    *)
(* not completed while it is; run() is called by main only.                *)
StackShape ==
    /\ \A i \in 1..Len(frames) :
          /\ frames[i] \in Task => i > 1 /\ frames[i - 1] \in {"run", "block"}
          /\ frames[i] = "block" /\ i > 1 => frames[i - 1] # "run"
          /\ frames[i] = "run" => i = 1
    /\ \A i, j \in 1..Len(frames) : frames[i] \in Task /\ frames[i] = frames[j] => i = j

CallStack ==
    /\ StackShape
    /\ \A t \in Polling : status[t] = "started"
    /\ pc \in {"pick", "wait", "ran"} => Me \in {"run", "block"}
    /\ pc = "finish" => Me \in Task
    /\ pc = "user" => Me # "run"

(* epoll_wait: where it was called from, and what its loop has left to do. *)
EventLoop ==
    /\ pc # "events" => after = NoTask /\ batch = {}
    /\ pc = "events" => \/ resume = "pick" /\ Me = "run"
                        \/ resume = "user" /\ Me \in Task \cup {"block"}
                        \/ resume = "finish" /\ Me \in Task
    /\ "pipe" \in batch => pipe # <<>>
    /\ \A t \in Task : born[t] <= gen

(* run_task and enqueue: the executor never loses a task.  One that was    *)
(* spawned on this executor and has neither completed nor been aborted is  *)
(* on one of its queues or on the call stack.                              *)
TaskConservation ==
    \A t \in Task : Unfinished(t) /\ Current(t) /\ t \notin aborted
                        => Queued(t) \/ t \in Polling

(* task_waker::wake, epoll_wait and run_task: no wake-up is lost.  A task  *)
(* woken since its last poll began, by itself, by another task, by an fd   *)
(* or from another thread, is on a run queue, or its address is in the     *)
(* pipe, or wake() is about to enqueue it, unless the thread panicked.     *)
NoLostWake ==
    pc # "panic" => \A t \in Task : woken[t] /\ Unfinished(t) /\ Current(t) /\ t \notin aborted
                        => InRunq(t) \/ t \in Range(pipe) \/ after = t

(* Handle::poll and run_task: nobody stays parked on the handle of a task  *)
(* whose output is there to be taken, whichever came first.                *)
AwaiterNotStranded ==
    \A t \in Task : status[t] = "done" /\ output[t] => waiter[t] = NoTask

(* block_on: a wake of its future that arrives while the loop is running   *)
(* tasks or waiting is not slept through.                                  *)
BlockWakeKept ==
    pc = "wait" /\ Len(frames) \in bwoken => pipe # <<>>

\* The inductive invariant: what each loop relies on when it takes its step.
IInv ==
    /\ TypeOK /\ CallStack /\ EventLoop /\ Placement
    /\ TaskConservation /\ NoLostWake /\ AwaiterNotStranded

(* run() (executor.rs:677-679), "until no futures are pending": it returns *)
(* without a shutdown request only when every task spawned on the executor *)
(* has completed or been aborted.                                          *)
RunsToCompletion ==
    [][gen' # gen /\ ~shutdown =>
          \A t \in Task : Unfinished(t) /\ Current(t) => t \in aborted]_vars

(* shutdown() (executor.rs:838): "All tasks, including the current task,   *)
(* will be stopped once this future is polled."                            *)
ShutdownStops == [][shutdown => Starts = {}]_vars

(* run_task (executor.rs:64): a task that returned Poll::Ready is not      *)
(* polled again.                                                           *)
NeverPollsCompleted ==
    pc = "pick" /\ Runnable # {} => status[NextTask] # "done"

(* run() (executor.rs:701-703): the executor that replaces another one     *)
(* never polls a task spawned on the one it replaced.                      *)
NextExecutorForgets == [][\A t \in Starts : gen # born[t] + 1]_vars
=============================================================================
