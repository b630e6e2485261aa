# A verification of epox

epox (`src/`) is a single-threaded async executor for Linux: an epoll loop,
three run queues, a sleep queue, and a pipe through which other threads wake
tasks. This directory holds TLA+ models of it, the TLC runs that check them and
the TLAPS proofs about them. Everything is translated from the code under
`src/src/`; line numbers refer to those files.

## The system

| Component | State | Operations |
|---|---|---|
| Intrusive queues, `queue.rs` | `prev`/`next` of each entry and head, the `Arc` count of each task | `push`, `pop`, `release`, `is_empty`, `Drop` |
| Executor, `executor.rs` | `runq_high/normal/low`, `sleepq`, the pipe, the `events` vector, `shutdown` | `spawn`, `abort`, `enqueue`, `sleep`, `epoll_wait`, `wake_from_pipe`, `run`, `block_on`, `shutdown` |
| Tasks, `executor.rs` and `task.rs` | `has_completed`, `handle_waker`, the stored output, the borrow of the future, `pipe_wr` | `run_task`, `Inner::poll`, `Handle::{result, poll, abort}`, the task waker's `wake` |
| Fds, `executor.rs` 471-545 and `fd.rs` | `events`, `waker`, `burst` of an `EpollWaker` | `Fd::new`, `poll_with`, `Drop`, dispatch in `epoll_wait` |
| Thread join, `thread.rs` | `State::Running(waker)` or `Complete` under a mutex | `spawn`, `join`, `JoinFuture::poll` |
| Timers, `timer.rs` and `time.rs` | the armed timerfd | `set`, `tick`, `sleep`, `timeout` |
| futures-io, `futures.rs` | the flush in progress | `poll_read`, `poll_write`, `poll_flush` |
| Signals, `signal.rs` | the thread's signal mask, the signalfds | `AsyncSignal::{new, receive}`, `Drop` |

How they interact. A task's future calls into the executor through a
thread-local, so the executor is re-entered from inside the polls it makes: a
task spawns, wakes and aborts others, wakes itself (which runs the event loop,
line 382), or calls `block_on`, which runs tasks from inside a task. The
executor and a task share the task's `Arc`: a queue owns one reference, `Handle`
another, wakers only weak ones. The kernel sets readiness at any time; other
threads reach the executor only through the pipe. Executors of one thread follow
each other: `run()` replaces the executor when it returns, while handles and
wakers of the old one's tasks may live on.

What is hard here: re-entrancy (a poll inside a poll, an event loop inside a
wake), wakes that arrive between a poll and the bookkeeping after it, wakes from
other threads, tasks that outlive their executor, and reference counts kept by
hand. The properties of each component follow from that:

* queues: the pointers always represent the lists, and the counts the owners;
* executor and tasks: no task and no wake-up is lost, nobody waits for ever on a
  finished task, a task is polled by one loop at a time and never after it
  completed, `run()` returns when and only when it should, and executors do not
  run each other's tasks;
* fds: no edge is lost, an fd that is always ready starves nobody, the kernel
  never holds the address of a dropped waker, and every ready fd has its turn;
* wakers: a pointer that crosses threads stays valid, a wake that got through is
  served, and a task stays on its thread;
* thread join: awaiting a thread ends when the thread does; a flush covers what
  was written before it;
* timers: a sleep or timeout returns, and not early; signals: the mask matches
  the signalfds alive.

## Modules

| Module | What it models |
|---|---|
| `FifoQueues` | what the queues promise: FIFO queues over shared entries, with counts of the references callers own |
| `IntrusiveQueue` | `queue.rs` at the level of pointers and `Arc` counts; implements `FifoQueues` |
| `Executor` | `executor.rs` and `task.rs`: one thread's executor, its loops and the user code they poll |
| `YieldOrder` | `Executor` with a history of who waited when a task yielded |
| `FdReadiness` | `EpollWaker` and `Fd::poll_with`: one edge-triggered fd, per direction, and its waiters |
| `EpollRegistry` | `epoll_add`, `epoll_del`, `Fd::new`, `Drop for Fd` and the `events` vector across executors |
| `RemoteWake` | `task_waker` and the wake pipe over threads that each have an executor |
| `ThreadJoin` | `thread.rs`: threads that tasks await |
| `Timers` | `timer.rs` and `time.rs`; composes `FdReadiness` |
| `Flush` | `poll_flush` of `futures.rs`; extends `ThreadJoin` |
| `Signals` | `signal.rs`: the signal mask against the signalfds |
| `QueueLemmas` | facts about sequences the proofs rest on |
| `IntrusiveQueueProofs`, `FdReadinessProofs`, `EpollRegistryProofs`, `RemoteWakeProofs` | the theorems about the module each is named after |
| `ExecutorProofs` | the theorems about `Executor` and `YieldOrder` |
| `FlushProofs` | the theorems about `ThreadJoin` and `Flush` |
| `SourceProofs` | the theorems about `Timers` and `Signals` |
| `MC...` | instances for TLC, one per module that a run checks |

Components meet in three ways. `IntrusiveQueue` implements the queues that
`Executor` treats as sequences. `Timers` contains an instance of the component it
uses (`F == INSTANCE FdReadiness`) and takes its actions as parts of its own.
`Flush` extends `ThreadJoin`, whose threads it shares with other futures of the
executor, and `YieldOrder` extends `Executor`. The other modules cut the system
along its interfaces: `Executor` has one readiness flag per fd and one pipe,
whose inside is the subject of `FdReadiness` and `RemoteWake`; those two have
tasks that are only runnable or not, whose scheduling is the subject of
`Executor`.

### IntrusiveQueue

`link.prev` and `link.next` are the pointers of the code; `Null` is the null
pointer that `unqueue` stores in `prev` only. `strong[e]` is the `Arc` count and
`held[e]` how many references callers own, bounded by `MaxHeld`. There is no
history variable: `Chain(q)` is the sequence of entries whose ring the pointers
of `q` form, in the order in which `pop` takes them, and is the refinement mapping
under which the pointers implement `FifoQueues` (`Fifo == INSTANCE FifoQueues WITH
fifo <- [q |-> Chain(q)]`). `ListsAreRings` says that there is such a sequence for
every queue, so `prev` and `next` agree, that two queues share no entry, and that an
entry looks queued if and only if it is on one of them.
Every method is one step because the executor's `RefCell` is
borrowed mutably around it; `Drop` pops entry by entry because dropping an entry
may run user destructors.

### Executor

The thread is sequential, so the state is one program counter and a call stack.

* `frames` is the stack: `"run"`, `"block"` (a `block_on` loop) or a task whose
  future is being polled; empty means that `main` runs. A task on the stack is a
  task whose `RefCell` is mutably borrowed.
* `pc = "user"`: the innermost frame runs user code, which may take any action of
  the first section of the module or end its poll. `"pick"`, `"ran"`, `"wait"`
  are the points of the loops before popping a task, after polling it, and in
  `epoll_wait` without a timeout; `"finish"` is `run_task` between
  `Poll::Ready` and `has_completed`; `"events"` is the loop over the events,
  entered from `run`, `block_on`, or a task's own `wake()`; `batch`, `after` and
  `resume` say what it has left to do and where it returns. `"panic"` is a
  `RefCell` or completed-future panic.
* `runq`, `sleepq` are the queues (their pointers are `IntrusiveQueue`'s
  concern), `status`, `output`, `waiter`, `handle`, `home` the fields of a task
  and its handle, `ready`, `edge`, `parked` an fd's stored readiness, the edge
  the kernel has not reported, and the waker `poll_with` stored.
* `pipe` is what other threads wrote to the wake pipe and `pipeNo` the number of
  its write end: `wake()` compares numbers, so they are modelled. A new executor
  is built before the old one is closed, hence `PipeNo \ {pipeNo}` in `Replace`.
* `RunFails` is an `epoll_wait` that fails: `run()` returns with the executor as it
  is, and may be called again.
* `gen`, `born`, `aborted`, `woken`, `bwoken` are history variables
  that only the properties read (`gen` also bounds the number of executors).

What a state stands for. A task is spawned once. Wakers are not counted: a task
that was polled and is still alive may be woken by anybody at any time, which is
more than any program does. An fd has one readiness flag. The `events` vector
has one slot per registration, so a wait reports every ready source. Fds are
those of the current executor: a new executor starts with fresh ones. Wakers of
`block_on` calls that returned are left out: they can only cause one more poll.
`run()` is called by `main` only and a shutdown is asked for from a future, as
their documentation says. An fd is polled from a future or from `main`, which has no
waker that reaches the executor (`tests/tasks.rs:149-153` polls with a noop one).

### YieldOrder

`YieldOrder` adds `kept[y]`: the tasks that were runnable with `y`'s priority or a
higher one when `y` yielded, that have not been polled since, and that were not
woken again, which moves a task to the end of its queue. A yield is the wake of a
task inside its own poll, which is what `YieldFuture` does.

### FdReadiness

`level[d]` says whether an operation in direction `d` would succeed, `edge`
whether the kernel has the fd on its ready list: an arrival sets both, and a
report takes the fd off the list and carries every direction that is possible at
that time. `events`, `waker` and `burst` are the fields of `EpollWaker`. A waiter
is a task or, if it is in `Foreign`, somebody who polls with a waker of its own.
One poll of a waiter (`polling`) tries operations as long as it likes; a
direction that returned `Pending` (`pended`) is not tried again in the same poll,
and `waits[k]` remembers what `k`'s futures wait for. One waiter has futures on
the fd at a time: the fd has one waker, and later ones replace it. At the burst
limit a task wakes itself; whether a foreign waiter is polled again is its own
concern, and `block_on`'s is not unless something else happens (`Yield`).
`BurstLimit` is 2 instead of 20.

### EpollRegistry

`slots` is `events.len()`, `table` the kernel's registrations, one per file, with
the `Fd` whose `EpollWaker` they point to, and `ready` the kernel's list, which it
reports from the front, as many as there are slots. Each `Fd` is made once and
wraps the file `FileOf[f]`. An `Fd` that its executor does not outlive is
`stale`: it can be dropped on the next executor or after the thread's, by the
program or with the old executor's tasks, and `late` records those that were. The
pipe is level triggered and is read one pointer at a time.

### RemoteWake

Threads have executors; `no[h]` is the number of the write end of `h`'s pipe,
`end[n]` and `data[n]` the state and contents of the pipe with that number. The
steps of `wake()` are apart: the upgrade of the weak pointer, the comparison with
the enqueue or the write, and the drop of the strong pointer at the end; `call[h]`
says how far `h` is. So are the two of `clone()`, which any thread that has a waker
may call, as may the task's own poll, and which holds a strong pointer meanwhile. A
write that fails with `EPIPE` or `EAGAIN` panics (`fault`). The clone that was not
written is leaked (line 388). `wake_by_val` drops its weak pointer unwinding as it
does otherwise; `wake_by_ref` does not get to line 451, where it would put its own
back, and so gives up a count although the waker is still there (`WakeDone`). A
thread that unwinds only drops what it has. An executor is dropped field by field:
the queues, the reading end, the writing end. `st` and `at` say where a task is,
`waker` which threads keep a waker of it, `weak` the weak count, `freed` the thread
that dropped the last strong pointer. The kernel may give a closed number to a new
pipe once, which `reused` records. A task's own waker and the one in the `Context`
are not counted in `weak`.

### ThreadJoin

`stage[t]` is how far the spawned thread got: its closure, the replacement of
the state under the lock (`Complete`), the wake, the exit. `complete` and
`waker` are the shared `State`, `taken` the waker on the thread's own stack,
`Task` the tasks that may poll the join future. A poll that finds `Running` is
one step, since it holds the lock throughout; one that finds `Complete` keeps
the lock, and the executor, until the thread has exited (`joining`). A waker
that the thread wakes puts the futures its task awaits into `due`: that the
executor then polls the task is what `Executor` shows. A panic unwinds from the
closure to the end of the thread (`ClosurePanics`), or from a wake that finds the
pipe of the awaiting task's executor full or half closed (`WakePanics`, of the
threads in `Unheard`): then the state is `Complete`, nobody is told (`untold`), and
a poll that comes for another reason joins the thread and gets its panic.

### Timers

One task makes a timer, sets it and awaits it, over and over: `sleep`, `timeout`
with a future that may be ready from the start or become ready at any time, or a
timer of its own that it ticks and sets again. Each poll of a timeout asks the future
first (`AskFuture`, `FutureDone`) and the timer only if it was pending (`asked`); the
poll in which a call begins is its first one. `seen` records whether the future was
ready when that poll began. An expiry is an `Arrive` of `FdReadiness`; reading and
setting the timer take it away. `elapsed` counts the time since the call up to
the duration, so the clock has no bound.

### Flush

The threads, their join futures and wakers are `ThreadJoin`'s; the module adds
the file (`written`, `durable`, and what each sync covers) and the fields of
`AsyncWriteFd`. `flush_handle` belongs to the writer, so a `flush()` that is
dropped leaves it for the next one to join. A sync may fail, then the flush
returns the error. If the wake of the thread panicked, a flush that is polled anyway
goes on with that panic, and its `AsyncWriteFd` unwinds with the task (`FlushPanics`).
`Sync` are the threads that sync; the other threads of
`ThreadJoin` are spawned, awaited, joined and dropped between two polls of the
writer (`OtherPoll`, `OtherReturns`, `OtherStep`, `OtherEnds`).

### Signals

The mask is that of the thread that makes and drops the `AsyncSignal`s. `app` is
what the application blocked itself; it may unblock only that. An `AsyncSignal`
whose signalfd could not be registered is `"failed"`: its signals were blocked and
nothing unblocks them.

### Bounds

| Module | Bounds | Why they are enough |
|---|---|---|
| `IntrusiveQueue` | `MaxHeld` = 2 | three entries have a first, a middle and a last; two queues an entry to move between |
| `Executor` | `PipeCap`, `MaxFrames` (stack depth that `block_on` may start from), `MaxRuns` (executors after the first) | two tasks let one wake, await, abort or overtake another on any queue or on the stack, three frames give `block_on` in a task in `block_on`, one replacement an executor before and after it |
| `FdReadiness` | `BurstLimit` = 2 | a burst that ends by itself, and one that is cut off |
| `EpollRegistry` | `PipeCap` = 2, `MaxRuns` = 1 | the pipe stays ready after a read; one replacement has an executor before and after it |
| `RemoteWake` | `MaxNo` = 3, `PipeCap` = 2, `MaxWeak` = 4, one number given out again | two threads, one task that both hold wakers of, a pipe that can be full, a number to replace an executor with and one that comes back |
| `Timers` | `Duration` = 0, 1, 2, `BurstLimit` = 2 | 0 is the edge; 1 and 2 separate a tick from the end of a sleep |
| `Flush`, `ThreadJoin` | `MaxWrites` = 2, two threads that sync and one other, two tasks, a wake that may fail of one thread of each kind | a write before and one after the sync began, a flush after a flush, and a join future that one task hands to another |
| `Signals` | its sets | three overlapping sets |

The tasks and the pipe numbers of the two runs of `Executor` are symmetric.
`block_on` does not tell states apart by the histories `aborted` and `woken`
(`VIEW`), which no guard and neither of its properties reads. The tasks of a run
share one run queue: what the priorities change is left to the proofs, which hold
for any `PrioOf`. Deadlock is an error only in `timers`, where time always passes:
elsewhere a program may end, or wait for an event that nobody sends.

### Fairness

The runs of `IntrusiveQueue`, `Executor` and `Signals` assume none: their
properties are invariants and action properties.
`RunsToCompletion` and `BlockWakeKept` state as safety what a liveness property
would need of the loops. Elsewhere:

* `FdReadiness`: a poll that was started goes on until it returns (weak), and is
  obliged to return only once one of its futures is `Pending` or nothing can be
  tried: a loop over an fd that is always ready is the hazard. `epoll_wait` and
  the poll of a waiter that was woken are strongly fair: they have to wait for
  the polls of others, but `run()` calls the first after every poll and pops
  every task that is queued. Nothing is assumed of arrivals.
* `EpollRegistry`: weak fairness of `epoll_wait`, which both loops call for ever.
* `RemoteWake`: a call of `wake()` or `clone()` and the drop of an executor go on (weak);
  reading the pipe, starting a queued poll and ending a poll are strongly fair,
  because each thread alternates between them.
* `Flush`: a future whose task was woken is polled (strongly fair: it has to wait
  for the polls of others, but the run queue is served in its order); a poll that
  began goes on, a join returns once its thread has exited, a sync ends, and a
  thread whose closure returned goes on to its end (weak). The closure of another
  thread need never return, and a future that was not woken need never be polled.
* `Timers`: as `FdReadiness`, and time passes. The future need not become ready.

## Runs

| Run | Instance | What it shows |
|---|---|---|
| `queue` | 3 entries, 2 queues, 2 references | pointers, counts, refinement of `FifoQueues` |
| `run` | 2 tasks, 1 fd, pipe of 1, 1 replacement | `run()` alone: queues, wakes and handles, whom a yield waits for, and when `run()` ends, also with an error |
| `block_on` | 2 tasks, pipe of 1, stack of 3, 1 replacement | wakes of blocked futures, `run()` and `block_on` together, the executor that replaces another |
| `fd` | one direction, a task and a foreign waiter | no lost edge, the burst limit, progress of both |
| `registry` | 3 `Fd`s on 2 files, 1 replacement | the addresses the kernel keeps, registrations, slots, and that everything is reported, with fewer slots than ready files too |
| `remote_wake` | 2 threads, 1 task, 3 numbers, pipes of 2 | pointers across threads and failing writes, where a task is, and that a wake that was written leads to a poll |
| `timers` | durations 0, 1 and 2 | `sleep`, `timeout` and `tick` return, and not early, lose no expiry, and ask the future first |
| `flush` | 2 threads that sync, 1 that may panic, wakes that panic, 2 tasks, 2 writes | polls, completion and wake of threads in every order, what a flush covers, and that it ends |
| `signals` | 3 overlapping sets of 2 signals | receivers and mask |

Properties:

* `Placement`: a task is on one queue at most, the run queue of its priority or
  the sleep queue; sleeping tasks are neither completed nor being polled.
* `TaskConservation`: a task of this executor that is unfinished and not aborted
  is on a queue or on the stack.
* `NoLostWake`: a task woken since its last poll began, from anywhere, is on a
  run queue, in the pipe, or about to be enqueued by `wake()`.
* `AwaiterNotStranded`: no waker stays on a handle whose output can be taken.
* `BlockWakeKept`: a wake of a blocked future that arrives outside of its poll
  leaves something in the pipe, so the wait it could be slept through returns.
* `RunsToCompletion`, `ShutdownStops`: `run()` returns without a shutdown only
  when its tasks are done, and starts no poll after one.
* `NextExecutorForgets`: the executor that replaces another polls none of its
  tasks. The order in line 703 (build, then drop) is what makes it true.
* `LastPollerTold`, `ReturnedJoinEnds`: once a thread has woken, the task that
  polled its join future last has it to poll again, and a join of a thread whose
  closure returned ends. Both except a thread whose own wake panicked.
* `JoinsOnlyFinished`: no poll blocks the executor on a closure that still runs.
* `YieldsToWaiting`: a task that yielded starts its next poll only after those
  that waited when it did, unless they were woken again.
* `NoLostEdge`, `ArrivalsServed`: a task whose future waits for what is possible
  was woken, or the kernel is about to report it; and it is polled again.
* `BurstIsBounded`, `PollsEnd`: a poll gets at most `BurstLimit` results from an
  fd, and a loop over an fd that is always ready comes to an end.
* `NoDanglingWaker`, `LiveFdsRegistered`, `SlotsMatch`: what is registered or
  about to be reported belongs to an `Fd` that exists, a live `Fd` is registered
  if it is the only one made for its file, and the vector has a slot for each and
  for the pipe on an executor that saw no `Fd` of an earlier one dropped.
* `PipeRead`, `ReadyReported`: on such an executor the pipe is read; on any, every
  ready file is reported in its turn as long as one slot is left.
* `PointersKept`: each waker and each pointer in a pipe has a weak count, also
  after writes that failed.
  `TasksStay`: until a pipe number is given out again, a task is queued and polled
  on its thread. `WakesServed`: until then, a wake that was written or enqueued
  leads to a poll, unless the executor stops.
* `NotEarly`, `FutureWins`, `FutureServed`, `ExpiryKept`, `CallsEnd`, `TicksTold`:
  nothing elapses before its time, a future that is ready when a poll begins wins in
  that poll and ends its timeout even if the timer never expires, a task that waits
  for a timer that has expired was woken or is about to be, and calls with a
  duration above zero and ticks come to an end.
* `OneSyncAtATime`, `FlushCovers`, `FlushEnds`: one thread per writer, `Ok` means
  that the writes before the thread was spawned are durable, and a flush ends unless
  its thread's wake panicked.
  A flush that inherits the thread of an abandoned one may miss the writes in
  between: the property is as strong as the code.
* `NoSharedSignal`, `MaskAccounted`: a signal has one receiver, and the mask is what
  the application and the live `AsyncSignal`s block, and what failed ones left.

Three runs end in a violation; each checks what a comment, a test or a doc of the
repository says, and the code does otherwise:

| Run | What happens |
|---|---|
| `polls_completed` | a task wakes itself, then returns `Ready`: it stays queued and is polled again |
| `fd_two_directions` | a read that would block forgets that the fd can be written, and no edge reports it again |
| `slots_lost` | fds of the replaced executor pop the slots of the new one, which then reads no events |

The models contain more such cases, which the properties above except by their
conditions:

* executor.rs:802: `block_on` in a task that woke itself picks that very task,
  which panics; its loop does not look at the shutdown flag either, so
  `ShutdownStops` is checked without `block_on`;
* executor.rs:206: a waker brings an aborted task back while its handle exists;
* executor.rs:767: a future that wakes itself during its poll by `block_on` is not
  polled again when nothing else is runnable: `block_on(yield_now())` waits for
  ever. So does a `block_on` future that reaches the burst limit of an fd (line 523).
  `BlockWakeKept` speaks of the other wakes;
* queue.rs:42: waking a task that waits moves it behind one that yielded to it, which
  is then polled first, although task.rs:173-174 says that all tasks of equal or higher
  priority are polled before;
* executor.rs:275: a future with a combinator's waker is not woken by its event;
* fd.rs:44: a second `Fd` for a file is refused, and its drop deletes the
  registration of the first;
* executor.rs:391: when another executor gets the number of a stopped one's pipe,
  a waker brings the task there, on the same thread or another;
* executor.rs:365: a thread in `wake()` may drop the last strong pointer to a task
  of another thread, and with it a future that need not be `Send`;
* executor.rs:395: a write between the close of the pipe's two ends fails with
  `EPIPE`, and one to a full pipe with `EAGAIN`; both panic the thread that wakes. If
  that is a spawned thread which has just finished, its value is lost and the task that
  awaits it is not told;
* time.rs:10: a duration of zero disarms the timer;
* signal.rs:45: a failed registration leaves the signals blocked;
* thread.rs:46: a closure that panics leaves the state `Running`, and awaiting its
  thread never ends, although futures.rs:146-147 says that the poll returns `Err`.

## Proofs

`ExecutorProofs` proves for any sets of tasks and fds, any priorities, any
bounds: `TypeOK`, `Placement`, `TaskConservation`, `NoLostWake`,
`AwaiterNotStranded`, `RunsToCompletion`, `NextExecutorForgets`, `BlockWakeKept`
and `YieldsToWaiting`; `ShutdownStops` and `NeverPollsCompleted` under the
hypotheses below. The only assumptions are those `Executor` declares: the marks of
the stack and the pipe are not tasks or fds, `PrioOf` is a function to the
priorities, the bounds are naturals.

`Placement` to `AwaiterNotStranded` are inductive only together with what the loops know
of where they are. `IInv` adds `CallStack` (a task on the stack is there once,
is started, and sits on a loop; `run` is at the bottom; the innermost frame fits
`pc`) and `EventLoop` (`after` and `batch` are empty outside of the event loop,
and `resume` fits the frame that called it). `TaskConservation` is needed for
`NoLostWake`: `wake_from_pipe` may drop a pointer whose task cannot be upgraded,
and only because no unfinished task is ever unowned is no wake-up lost there.

The proof goes bottom up: what `enqueue`, `release` and `pop` do to the queues
(`EnqueueFacts`, `ReleaseFacts`, `PopTaskFacts`), what pushing and popping a
frame does to the stack (`PushFacts`, `PopFacts`), then one lemma per part of
the invariant with one step per action (`TypeStep`, `StackStep`, `SafeStep`).
Steps that move no task go through `QuietSafe`, wake-ups through `EnqueueSafe`.
`RunsToCompletion` follows from `TaskConservation` and from `run` being alone on
the stack when it is innermost. `NextExecutorForgets` has an invariant of its
own, `Homes`: whatever the executor can still reach was spawned with the number
of its pipe, and no task of the executor it replaced has that number.

`BlockWakeKept` has `Blocks`: a frame whose future was woken is a `block_on` loop
that sits below a task or is not polling, and the innermost such frame has an event
loop to come or something in the pipe. It needs `CallStack` for what lies between
two loops.

`YieldsToWaiting` is about the order of the run queues. `StepMovesQueues` shows that
a step moves them in one of six ways (`QueueMove`), `Before` (`QueueLemmas`) says
which of two tasks comes first in a sequence, and `EnqueueOrder`, `RemoveOrder` and
`OrderKept` what each move does to it. The invariant `YInv` adds to `IInv` that a
task whose `wake()` is in progress is on the stack (`WakesPolled`), and that whatever
`y` left runnable is still on a run queue that is served first, or on `y`'s and ahead
of it (`KeptAhead`).

Two properties are not true of every program, and their theorems say of which ones
they are:

* `ShutdownHeeded`: `ShutdownStops` holds as long as nobody calls `block_on`
  (`[]NoBlock`), whose loop does not look at the flag. `Heeded` says where the thread
  can be after a request: in a task, in `wake()`, or before the test of the flag.
* `CompletedNotPolled`: `NeverPollsCompleted` holds unless a wake of a task reaches
  the executor during the task's last poll (`[]FinishesUnqueued`: the task is on no
  queue when `run_task` sees `Poll::Ready`). What the run `polls_completed` shows is
  therefore the only way to poll a completed future. With both hypotheses, every task
  that `run()` picks can be polled (`RunPicksPollable`).

`IntrusiveQueueProofs`, for any finite set of entries and any queues: the types,
`CountsMatch`, `ListsAreRings` and the refinement of `FifoQueues`, initial states
and steps. The invariant `QInv` says that *some* sequences fit the pointers
(`Rings`); `RingUnique` shows that they are the only ones, so they are what `Chain`
reads (`ReadRing`). `UnqueueRings` and `LinkRings` give the sequences after the
two pointer operations every method is made of, and `NextQueues` shows with them
each method to be the operation of `FifoQueues`. Following a chain of pointers would
be induction; the proof takes the least position at which two rings differ instead
(`LeastNat`).

`FdReadinessProofs`: the types for any directions, `NoLostEdge` and `BurstIsBounded`
for an fd registered for one (the hypothesis `Interest = {d}`). With two they are
not true: an operation that would block clears what is known of the other direction
(`fd_two_directions`), and ends its burst. `EdgeInv` says that whatever is possible is
recorded or about to be reported (`Recorded`), that a task that waits and was not
woken left its waker and no readiness (`Parked`), and that a poll does not try again
what it waits for (`PollerPended`). `BurstInv` bounds the results of a poll by
`burst` until an operation returned `Pending`.

`EpollRegistryProofs`: the types, `NoDanglingWaker`, `LiveFdsRegistered` and
`SlotsMatch` for any `Fd`s, files and number of executors. `RInv` says that a
registration names a live `Fd` of its own file and that what is on the ready list is
registered, once: a drop deletes by file, and that takes away the address that
dangles, even when the slot it pops is another's.

`RemoteWakeProofs`, for any threads and tasks: `PointersKept` and the types always,
`TasksStay` until a pipe number is given out again. `HInv` follows the numbers: each
open pipe has its own, a task's number is never that of another thread's pipe, and a
pipe holds tasks with its number only. `KInv` strengthens the counts to
`CountsKept`: besides wakers and pointers in pipes, a weak count is there for each
thread that is about to unwind out of `wake()` (`Failing`), the one leaked at line
388, which is what `wake_by_ref` then takes away. `Held` is what the steps need:
what is in a pipe, or held as a waker, was spawned, a pipe holds `PipeCap` pointers
at most, who is in `wake()` keeps its waker, and nothing has failed before the
write. `PlacesOfAppend` and `PlacesOfTail` count the places of a task's pointers as
a pipe is written and read. `EnoughNumbers`, one number for each thread, is the one
assumption that is not about types: it makes the initial state exist, and the
threads finite.

`FlushProofs`: of `ThreadJoin`, the types, `LastPollerTold` and `JoinsOnlyFinished` for
any number of threads and tasks. `LastWakerKept` makes them inductive: the waker of
the last poll is in the shared state until the thread replaces it, and with the
thread until it wakes or panics. Of `Flush`, that it implements `ThreadJoin`
(`FlushImplementsJoin`: each of its steps is one of `ThreadJoin`'s or leaves those
variables alone), so both facts hold beside a writer, and `OneSyncAtATime` and
`FlushCovers` for any number of writes. `FInv` has `SyncStages` (a thread that syncs
was spawned) and `CoversBase` (a sync covers what was written when its thread was
spawned, and made it durable once the closure returned without an error). These are
theorems of `FlushSafe`, the specification without its fairness.

`SourceProofs`, of `Timers`, for any durations and any positive burst limit: the
types, `NotEarly`, `FutureWins` and `ExpiryKept`. `Clock` says that what is left of a
call and what has passed add up to its duration, and that its fd is readable only when
all of it has passed, so that the readiness which `Fd::new` assumes shows nothing;
`Inside` that only a timeout has a future, and that a timer is asked only after a future
that was pending. `Expiry` is `EdgeInv` of
`FdReadinessProofs` for the fd of the call in progress: it has to survive a new timer,
another setting and an abandoned call, which it does because a task waits only
inside a call and a call that begins finds no waiter.

Of `Signals`: `NoSharedSignal` and `MaskAccounted` for any sets of signals. `SInv`
adds the types and `AppApart`: what the application blocked itself and what a live
`AsyncSignal` receives are disjoint.

The type invariant of every module that has one is proved, and is not repeated in the
runs.

Every invariant and action property of the runs that pass is a theorem. Only
model-checked are the liveness properties: `PollsEnd`, `ArrivalsServed`, `PipeRead`,
`ReadyReported`, `WakesServed`, `CallsEnd`, `FutureServed`, `TicksTold`,
`ReturnedJoinEnds` and `FlushEnds`. Liveness under fairness is out of the prover's
reach and stays with TLC. So would be what a recursive definition computes for every
input: the modules have none.

## Not modelled

System calls that fail when nothing has changed yet (`pipe2`, `fcntl`,
`timerfd_create`); destructors of tasks that call back into the executor other
than through their `Fd`s; the number of a closed pipe reused by something other
than an executor; `poll_read` and `poll_write`, which are `Fd::poll_with` around
one system call, and `poll_close`, which returns an error; names, tracing, the
build script and the examples. The flush style (`fsync` or `tcdrain`) makes no
difference to the state, nor does an operation that is retried after `EINTR`.

## Plan

Done: the modules above, and a proof of every safety property that the passing runs
check. What could be added is proof as well: that `Executor` takes its run queues
through operations of `FifoQueues` only, which `QueueMove` nearly says, and the
conditions under which the two other findings cannot happen, as `CompletedNotPolled`
has it for the first (`OneDirectionLosesNoEdge` and the condition in `SlotsMatch` are
sufficient ones).
