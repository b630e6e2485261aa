----------------------------- MODULE RemoteWake -----------------------------
(***************************************************************************)
(* Wakers used from other threads: task_waker::wake and wake_from_pipe of  *)
(* src/src/executor.rs, over threads that each have an executor.           *)
(*                                                                         *)
(* A waker is a weak pointer to a task.  wake() upgrades it, compares the  *)
(* number of the task's pipe with that of its own thread's executor, and   *)
(* enqueues the task or writes a weak pointer to that number; the strong   *)
(* pointer is dropped last.  clone() upgrades it as well, for as long as   *)
(* it takes to make another weak pointer.  Pipe numbers belong to the      *)
(* process: run() makes the new executor, then drops the old one, field by *)
(* field, and the numbers it closes may be given to the next pipe of any   *)
(* thread.                                                                 *)
(***************************************************************************)
EXTENDS Naturals, Sequences, SequencesExt, FiniteSets

CONSTANTS Thread,
          Task,
          Home,      \* Home[t]: the thread that spawns t
          MaxNo,     \* bound: pipe numbers of the process
          PipeCap,   \* capacity of a pipe, in pointers
          MaxWeak    \* bound: weak pointers to a task when it is woken

ASSUME HomeType == Home \in [Task -> Thread]
ASSUME BoundsType == MaxNo \in Nat /\ PipeCap \in Nat /\ MaxWeak \in Nat

None == "none"
ASSUME NamesAreNotMarks == None \notin Task \cup Thread

Number == 1..MaxNo

\* Each thread has a pipe of its own to begin with.
ASSUME EnoughNumbers == \E f \in [Thread -> Number] : IsInjective(f)

VARIABLES
    no,       \* no[h]: pipe_wr of thread h's executor, 0 after the thread's end
    old,      \* old[h]: pipe_wr of the executor that h is dropping, or 0
    end,      \* end[n]: "fresh", "open", "half" (no reader) or "closed"
    data,     \* data[n]: the pointers in the pipe with number n
    wr,       \* wr[t]: pipe_wr of the task, 0 before spawn
    st,       \* st[t]: "new", "run", "sleep", "poll", "again" (polled and
              \* queued), "done", or "out" (in no queue, not completed)
    at,       \* at[t]: the thread whose queue holds or whose run() polls t
    handle,   \* tasks with a Handle, which stays on their home thread
    waker,    \* waker[t]: threads that keep a waker of t
    waking,   \* waking[h]: the task h upgraded in wake() or clone(), or None
    call,     \* call[h]: "none", "clone", "wake", or "sent" (wake() past its
              \* enqueue or write)
    weak,     \* weak[t]: weak pointers to t besides the task's own waker
    freed,    \* freed[t]: the thread that dropped the last strong pointer
    fault,    \* fault[h]: the error h's wake() panicked with, or None
    owed,     \* history: tasks woken since they were last polled
    reused    \* history: a new pipe was given a number that had been closed

exec == <<no, old, end, data>>
refs == <<handle, waker, weak>>
history == <<owed, reused>>
vars == <<exec, wr, st, at, refs, waking, call, freed, fault, history>>

Queued == {"run", "sleep", "poll", "again"}

Strong(t) ==
    \/ st[t] \in Queued \/ t \in handle
    \/ \E h \in Thread : waking[h] = t

\* Arc's drop: h, which released pointers in this step, frees what has no
\* strong pointer left.
Release(h) ==
    freed' = [t \in Task |->
        IF wr'[t] # 0 /\ freed[t] = None /\ ~Strong(t)' THEN h ELSE freed[t]]

\* h is in no call of wake() or clone() and not dropping an executor.
InCode(h) == no[h] # 0 /\ old[h] = 0 /\ call[h] = "none"

\* The same, and h is not unwinding: then all it does is drop what it has.
Idle(h) == InCode(h) /\ fault[h] = None
Polling(h) == \E t \in Task : at[t] = h /\ st[t] \in {"poll", "again"}

\* Which numbers the first pipes have makes no difference.
Init ==
    /\ no = CHOOSE f \in [Thread -> Number] : IsInjective(f)
    /\ old = [h \in Thread |-> 0]
    /\ end = [n \in Number |-> IF n \in Range(no) THEN "open" ELSE "fresh"]
    /\ data = [n \in Number |-> <<>>]
    /\ wr = [t \in Task |-> 0] /\ st = [t \in Task |-> "new"] /\ at = Home
    /\ handle = {} /\ waker = [t \in Task |-> {}] /\ weak = [t \in Task |-> 0]
    /\ waking = [h \in Thread |-> None] /\ call = [h \in Thread |-> "none"]
    /\ freed = [t \in Task |-> None] /\ fault = [h \in Thread |-> None]
    /\ owed = {} /\ reused = FALSE
-----------------------------------------------------------------------------
\* Executor::enqueue on thread h: a completed task is left alone, any other
\* is taken from where it is queued.
Enqueue(h, t) ==
    IF st[t] = "done" THEN UNCHANGED <<st, at>>
    ELSE /\ st' = [st EXCEPT ![t] = IF @ \in {"poll", "again"} /\ at[t] = h
                                    THEN "again" ELSE "run"]
         /\ at' = [at EXCEPT ![t] = h]

Spawn(h, t) ==
    /\ Idle(h) /\ Home[t] = h /\ wr[t] = 0
    /\ wr' = [wr EXCEPT ![t] = no[h]]
    /\ handle' = handle \cup {t}
    /\ Enqueue(h, t)
    /\ UNCHANGED <<exec, waker, weak, waking, call, freed, fault, history>>

\* run() takes a task of the run queues and polls it.
StartPoll(h, t) ==
    /\ Idle(h) /\ ~Polling(h) /\ st[t] = "run" /\ at[t] = h
    /\ st' = [st EXCEPT ![t] = "poll"] /\ owed' = owed \ {t}
    /\ UNCHANGED <<exec, wr, at, refs, waking, call, freed, fault, reused>>

\* The end of run_task.
EndPoll(h, t, ready) ==
    /\ Idle(h) /\ st[t] \in {"poll", "again"} /\ at[t] = h
    /\ st' = [st EXCEPT ![t] = IF ready THEN "done"
                               ELSE IF @ = "again" THEN "run" ELSE "sleep"]
    /\ UNCHANGED <<exec, wr, at, refs, waking, call, fault, history>>
    /\ Release(h)

DropHandle(h, t) ==
    /\ InCode(h) /\ Home[t] = h /\ t \in handle
    /\ handle' = handle \ {t}
    /\ UNCHANGED <<exec, wr, st, at, waker, weak, waking, call, fault, history>>
    /\ Release(h)

DropWaker(h, t) ==
    /\ InCode(h) /\ h \in waker[t]
    /\ waker' = [waker EXCEPT ![t] = @ \ {h}]
    /\ weak' = [weak EXCEPT ![t] = @ - 1]
    /\ UNCHANGED <<exec, wr, st, at, handle, waking, call, freed, fault, history>>
-----------------------------------------------------------------------------
\* upgrade() in clone(), of a waker that h has or of that of the task it polls.
\* When it fails the clone is the noop waker, and nothing changes.
CloneUpgrade(h, t) ==
    /\ Idle(h) /\ freed[t] = None /\ weak[t] < MaxWeak
    /\ h \in waker[t] \/ (at[t] = h /\ st[t] \in {"poll", "again"})
    /\ waking' = [waking EXCEPT ![h] = t] /\ call' = [call EXCEPT ![h] = "clone"]
    /\ UNCHANGED <<exec, wr, st, at, refs, freed, fault, history>>

\* The clone, which h keeps or gives to another thread.  Bound: a thread has
\* one waker of a task, another is dropped.
CloneDone(h, g) ==
    LET t == waking[h] IN
    /\ t # None /\ call[h] = "clone"
    /\ waking' = [waking EXCEPT ![h] = None] /\ call' = [call EXCEPT ![h] = "none"]
    /\ waker' = [waker EXCEPT ![t] = @ \cup {g}]
    /\ weak' = [weak EXCEPT ![t] = IF g \in waker[t] THEN @ ELSE @ + 1]
    /\ UNCHANGED <<exec, wr, st, at, handle, fault, history>>
    /\ Release(h)

\* upgrade() in wake(); when it fails nothing is woken.
WakeUpgrade(h, t) ==
    /\ Idle(h) /\ h \in waker[t] /\ freed[t] = None /\ weak[t] < MaxWeak
    /\ waking' = [waking EXCEPT ![h] = t] /\ call' = [call EXCEPT ![h] = "wake"]
    /\ UNCHANGED <<exec, wr, st, at, refs, freed, fault, history>>

Waking(h) == waking[h] # None /\ call[h] = "wake"

\* wake() on the task's own thread.  The epoll_wait of a task that wakes
\* itself is ReadPipe, which the thread may take before this step.
WakeHere(h) ==
    /\ Waking(h) /\ no[h] = wr[waking[h]]
    /\ call' = [call EXCEPT ![h] = "sent"] /\ Enqueue(h, waking[h])
    /\ owed' = IF st[waking[h]] = "done" THEN owed ELSE owed \cup {waking[h]}
    /\ UNCHANGED <<exec, wr, refs, waking, freed, fault, reused>>

\* Mutant of WakeWrite: the weak pointer itself is sent, not a clone.
WriteWithoutClone(h) ==
    LET t == waking[h] IN
    /\ Waking(h) /\ no[h] # wr[t] /\ end[wr[t]] = "open" /\ Len(data[wr[t]]) < PipeCap
    /\ call' = [call EXCEPT ![h] = "sent"]
    /\ data' = [data EXCEPT ![wr[t]] = Append(@, t)] /\ owed' = owed \cup {t}
    /\ UNCHANGED <<no, old, end, wr, st, at, refs, waking, freed, fault, reused>>

\* Mutant of WakeWrite: the pipe is not used, whatever the thread.
EnqueueAnywhere(h) ==
    LET t == waking[h] IN
    /\ Waking(h) /\ no[h] # wr[t]
    /\ call' = [call EXCEPT ![h] = "sent"] /\ Enqueue(h, t) /\ owed' = owed \cup {t}
    /\ UNCHANGED <<exec, wr, refs, waking, freed, fault, reused>>

\* Mutant of WakeWrite: a task that is being polled is not woken.
WriteUnlessPolled(h) ==
    LET t == waking[h] IN
    /\ Waking(h) /\ no[h] # wr[t] /\ end[wr[t]] = "open" /\ Len(data[wr[t]]) < PipeCap
    /\ call' = [call EXCEPT ![h] = "sent"] /\ owed' = owed \cup {t}
    /\ IF st[t] = "poll" THEN UNCHANGED <<data, weak>>
       ELSE /\ data' = [data EXCEPT ![wr[t]] = Append(@, t)]
            /\ weak' = [weak EXCEPT ![t] = @ + 1]
    /\ UNCHANGED <<no, old, end, wr, st, at, handle, waker, waking, freed, fault, reused>>

\* wake() on another thread, when the pipe takes the pointer.
WakeWrite(h) ==
    LET t == waking[h] IN
    /\ Waking(h) /\ no[h] # wr[t] /\ end[wr[t]] = "open" /\ Len(data[wr[t]]) < PipeCap
    /\ call' = [call EXCEPT ![h] = "sent"]
    /\ data' = [data EXCEPT ![wr[t]] = Append(@, t)]
    /\ weak' = [weak EXCEPT ![t] = @ + 1]
    /\ owed' = IF st[t] \in {"done", "out"} THEN owed ELSE owed \cup {t}
    /\ UNCHANGED <<no, old, end, wr, st, at, handle, waker, waking, freed, fault, reused>>

\* Mutant of WakeFails: the clone is dropped when it was not written.
FailsWithoutLeak(h) ==
    LET t == waking[h] IN
    /\ Waking(h) /\ no[h] # wr[t]
    /\ end[wr[t]] # "open" \/ Len(data[wr[t]]) = PipeCap
    /\ call' = [call EXCEPT ![h] = "sent"]
    /\ fault' = [fault EXCEPT ![h] = CASE end[wr[t]] = "closed" -> None
                                       [] end[wr[t]] = "half" -> "EPIPE"
                                       [] OTHER -> "EAGAIN"]
    /\ UNCHANGED <<exec, wr, st, at, refs, waking, freed, history>>

\* The same when write fails: EBADF is ignored, EPIPE and EAGAIN are not.
\* The weak pointer, cloned before, is not dropped.
WakeFails(h) ==
    LET t == waking[h] IN
    /\ Waking(h) /\ no[h] # wr[t]
    /\ end[wr[t]] # "open" \/ Len(data[wr[t]]) = PipeCap
    /\ call' = [call EXCEPT ![h] = "sent"] /\ weak' = [weak EXCEPT ![t] = @ + 1]
    /\ fault' = [fault EXCEPT ![h] = CASE end[wr[t]] = "closed" -> None
                                       [] end[wr[t]] = "half" -> "EPIPE"
                                       [] OTHER -> "EAGAIN"]
    /\ UNCHANGED <<exec, wr, st, at, handle, waker, waking, freed, history>>

\* The strong pointer is dropped, and so is the weak pointer made from the
\* waker, unless wake_by_ref gets to its end and puts it back.  Unwinding, it
\* does not: the count goes down, and the caller still has the waker.
WakeDone(h, byVal) ==
    LET t == waking[h] IN
    /\ t # None /\ call[h] = "sent"
    /\ waking' = [waking EXCEPT ![h] = None] /\ call' = [call EXCEPT ![h] = "none"]
    /\ waker' = [waker EXCEPT ![t] = IF byVal THEN @ \ {h} ELSE @]
    /\ weak' = [weak EXCEPT ![t] = IF byVal \/ fault[h] # None THEN @ - 1 ELSE @]
    /\ UNCHANGED <<exec, wr, st, at, handle, fault, history>>
    /\ Release(h)

\* epoll_wait finds the pipe ready: wake_from_pipe, whose strong pointer
\* goes to the queue or is dropped.
ReadPipe(h) ==
    /\ Idle(h) /\ data[no[h]] # <<>>
    /\ LET t == Head(data[no[h]]) IN
       /\ data' = [data EXCEPT ![no[h]] = Tail(@)]
       /\ weak' = [weak EXCEPT ![t] = @ - 1]
       /\ IF freed[t] = None THEN Enqueue(h, t) ELSE UNCHANGED <<st, at>>
    /\ UNCHANGED <<no, old, end, wr, handle, waker, waking, call, freed, fault, history>>
-----------------------------------------------------------------------------
\* Bound: one number is given out again.
FreeNumber(n) == end[n] = "fresh" \/ (end[n] = "closed" /\ ~reused)

\* Executor's drop, up to the queues: tasks that are queued leave them.
DropQueues(h) ==
    /\ old' = [old EXCEPT ![h] = no[h]]
    /\ st' = [t \in Task |->
                IF at[t] = h /\ st[t] \in Queued THEN "out" ELSE st[t]]
    /\ owed' = {t \in owed : st'[t] # "out"}
    /\ UNCHANGED <<data, wr, at, refs, waking, call, fault>>
    /\ Release(h)

\* The end of run(): Executor::new, then the drop of the old executor begins.
Stop(h, n) ==
    /\ Idle(h) /\ ~Polling(h) /\ FreeNumber(n)
    /\ no' = [no EXCEPT ![h] = n] /\ end' = [end EXCEPT ![n] = "open"]
    /\ reused' = (reused \/ end[n] = "closed")
    /\ DropQueues(h)

\* The end of the thread, also by a panic.
ThreadExit(h) ==
    /\ InCode(h)
    /\ Polling(h) => fault[h] # None
    /\ no' = [no EXCEPT ![h] = 0]
    /\ DropQueues(h) /\ UNCHANGED <<end, reused>>

\* pipe_rd is dropped: what the pipe holds is lost.
CloseReader(h) ==
    /\ old[h] # 0 /\ end[old[h]] = "open"
    /\ end' = [end EXCEPT ![old[h]] = "half"]
    /\ data' = [data EXCEPT ![old[h]] = <<>>]
    /\ UNCHANGED <<no, old, wr, st, at, refs, waking, call, freed, fault, history>>

\* pipe_wr is dropped.
CloseWriter(h) ==
    /\ old[h] # 0 /\ end[old[h]] = "half"
    /\ end' = [end EXCEPT ![old[h]] = "closed"] /\ old' = [old EXCEPT ![h] = 0]
    /\ UNCHANGED <<no, data, wr, st, at, refs, waking, call, freed, fault, history>>
-----------------------------------------------------------------------------
Step(h) ==
    \/ \E t \in Task : \/ Spawn(h, t) \/ StartPoll(h, t)
                       \/ DropHandle(h, t) \/ DropWaker(h, t)
                       \/ WakeUpgrade(h, t) \/ CloneUpgrade(h, t)
                       \/ \E ready \in BOOLEAN : EndPoll(h, t, ready)
    \/ WakeHere(h) \/ WakeWrite(h) \/ WakeFails(h)
    \/ \E byVal \in BOOLEAN : WakeDone(h, byVal)
    \/ \E g \in Thread : CloneDone(h, g)
    \/ ReadPipe(h) \/ CloseReader(h) \/ CloseWriter(h)
    \/ ThreadExit(h) \/ \E n \in Number : Stop(h, n)

Next == \E h \in Thread : Step(h)

Spec == Init /\ [][Next]_vars

\* A task's poll and a call of wake() or clone() end, and run() reads the pipe and polls
\* what is in the run queues again and again.
Fairness ==
    \A h \in Thread :
        /\ WF_vars(WakeHere(h) \/ WakeWrite(h) \/ WakeFails(h))
        /\ WF_vars(\E byVal \in BOOLEAN : WakeDone(h, byVal))
        /\ WF_vars(\E g \in Thread : CloneDone(h, g))
        /\ SF_vars(ReadPipe(h))
        /\ WF_vars(CloseReader(h)) /\ WF_vars(CloseWriter(h))
        /\ \A t \in Task : SF_vars(StartPoll(h, t))
        /\ \A t \in Task : SF_vars(\E ready \in BOOLEAN : EndPoll(h, t, ready))

FairSpec == Spec /\ Fairness
-----------------------------------------------------------------------------
(* The values of the variables.                                            *)
TypeOK ==
    /\ no \in [Thread -> 0..MaxNo] /\ old \in [Thread -> 0..MaxNo]
    /\ end \in [Number -> {"fresh", "open", "half", "closed"}]
    /\ data \in [Number -> Seq(Task)] /\ wr \in [Task -> 0..MaxNo]
    /\ st \in [Task -> Queued \cup {"new", "done", "out"}]
    /\ at \in [Task -> Thread] /\ handle \subseteq Task
    /\ waker \in [Task -> SUBSET Thread] /\ weak \in [Task -> Nat]
    /\ waking \in [Thread -> Task \cup {None}]
    /\ call \in [Thread -> {"none", "clone", "wake", "sent"}]
    /\ freed \in [Task -> Thread \cup {None}]
    /\ fault \in [Thread -> {None, "EPIPE", "EAGAIN"}]
    /\ owed \subseteq Task /\ reused \in BOOLEAN

Pointers(t) == {p \in Number \X (1..PipeCap) :
                    p[2] <= Len(data[p[1]]) /\ data[p[1]][p[2]] = t}

(* executor.rs:386 and 325: the allocation a pointer in a pipe, or a waker *)
(* on any thread, refers to is kept, whichever of the wakes, reads and     *)
(* drops of the threads comes first, and though wake_by_ref does not put   *)
(* its pointer back when the write panics: each has a count of its own.    *)
PointersKept ==
    \A t \in Task : weak[t] >= Cardinality(waker[t]) + Cardinality(Pointers(t))

(* README.md:24, "Tasks do not move between threads.": while the numbers   *)
(* in wakers are not those of newer pipes, a task is queued and polled on  *)
(* the thread that spawned it.                                             *)
TasksStay == \A t \in Task : ~reused /\ st[t] \in Queued => at[t] = Home[t]

(* executor.rs:371-374: a task that was woken, from whichever thread, is   *)
(* polled afterwards, unless its executor stops.                           *)
WakesServed ==
    \A t \in Task : t \in owed ~>
        (t \notin owed \/ st[t] = "done" \/ fault[Home[t]] # None \/ reused)
=============================================================================
