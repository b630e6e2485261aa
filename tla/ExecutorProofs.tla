--------------------------- MODULE ExecutorProofs ---------------------------
(***************************************************************************)
(* Proofs about Executor.tla, and YieldOrder.tla on top of it, for any set *)
(* of tasks and fds, any priorities, any depth of the call stack and any   *)
(* capacity of the wake pipe.                                              *)
(***************************************************************************)
EXTENDS YieldOrder, QueueLemmas

Frame == Task \cup {"run", "block"}

LEMMA MarkFacts ==
    /\ NoTask \notin Task /\ "main" \notin Task /\ "run" \notin Task
    /\ "block" \notin Task /\ "null" \notin Task /\ "pipe" \notin Task
    /\ "pipe" \notin Fd /\ NoTask \notin Fd
BY TasksAreNotMarks DEF Marks, NoTask
-----------------------------------------------------------------------------
(* The call stack. *)

(* The innermost frame and the tasks being polled, read off the stack.     *)
LEMMA StackFacts ==
    ASSUME TypeOK
    PROVE  /\ frames \in Seq(Frame) /\ Len(frames) \in Nat
           /\ Me \in Frame \cup {"main"}
           /\ Me # "main" => /\ frames # <<>> /\ Len(frames) \in Nat \ {0}
                             /\ Me = frames[Len(frames)]
           /\ Me = "main" <=> frames = <<>>
           /\ \A t : t \in Polling <=> t \in Task /\ \E i \in 1..Len(frames) : frames[i] = t
           /\ Me \in Task => Me \in Polling
<1>1. frames \in Seq(Frame)
    BY DEF TypeOK, Frame
<1>2. Len(frames) \in Nat
    BY <1>1, LenProperties
<1>3. \A t : t \in Polling <=> t \in Task /\ \E i \in 1..Len(frames) : frames[i] = t
    BY <1>1, RangeIndex DEF Polling
<1>4. CASE frames = <<>>
    <2>1. Me = "main" /\ Me \notin Task
        BY <1>4, MarkFacts DEF Me
    <2> QED  BY <2>1, <1>1, <1>2, <1>3, <1>4
<1>5. CASE frames # <<>>
    <2>1. Len(frames) \in Nat \ {0}
        BY <1>1, <1>5, EmptySeq
    <2>2. Me = frames[Len(frames)] /\ Len(frames) \in 1..Len(frames)
        BY <1>5, <2>1 DEF Me, Last
    <2>3. Me \in Frame
        BY <1>1, <2>2, ElementOfSeq
    <2>4. Me # "main"
        BY <2>3, MarkFacts DEF Frame
    <2> QED  BY <1>1, <1>2, <1>3, <1>5, <2>1, <2>2, <2>3, <2>4
<1> QED  BY <1>4, <1>5

(* A loop or a task is entered. *)
LEMMA PushFacts ==
    ASSUME TypeOK, NEW x \in Frame, frames' = Append(frames, x)
    PROVE  /\ frames' \in Seq(Frame)
           /\ Len(frames') = Len(frames) + 1
           /\ \A i \in 1..Len(frames) : frames'[i] = frames[i]
           /\ frames'[Len(frames')] = x
           /\ Me' = x
           /\ Polling' = Polling \cup ({x} \cap Task)
<1>1. frames \in Seq(Frame) /\ Len(frames) \in Nat
    BY StackFacts
<1>2. /\ frames' \in Seq(Frame)
      /\ Len(frames') = Len(frames) + 1
      /\ \A i \in 1..Len(frames) : frames'[i] = frames[i]
      /\ frames'[Len(frames) + 1] = x
    BY <1>1, AppendProperties
<1>3. Range(frames') = Range(frames) \cup {x}
    BY <1>1, AppendFacts
<1>4. frames' # <<>>
    BY <1>1, <1>2, EmptySeq
<1>5. Me' = x
    BY <1>2, <1>4 DEF Me, Last
<1> QED  BY <1>1, <1>2, <1>3, <1>5 DEF Polling

(* A poll or a block_on call returns. *)
LEMMA PopFacts ==
    ASSUME TypeOK, CallStack, Me # "main", frames' = Front(frames)
    PROVE  /\ frames' \in Seq(Frame)
           /\ Len(frames') = Len(frames) - 1
           /\ \A i \in 1..Len(frames') : i \in 1..Len(frames) /\ frames'[i] = frames[i]
           /\ Polling' = Polling \ {Me}
           /\ Me \in Task => Me' \in {"run", "block"}
           /\ Me = "block" => Me' # "run"
<1>1. /\ frames \in Seq(Frame) /\ frames # <<>> /\ Len(frames) \in Nat \ {0}
      /\ Me = frames[Len(frames)]
    BY StackFacts
<1>2. /\ frames' \in Seq(Frame)
      /\ Len(frames') = Len(frames) - 1
      /\ \A i \in 1..Len(frames') : frames'[i] = frames[i]
    BY <1>1, FrontFacts
<1>3. \A i \in 1..Len(frames') : i \in 1..Len(frames) /\ i # Len(frames) /\ frames'[i] = frames[i]
    BY <1>1, <1>2
<1>4. \A t : t \in Polling <=> t \in Task /\ \E i \in 1..Len(frames) : frames[i] = t
    BY StackFacts
<1>5. \A t : t \in Polling' <=> t \in Task /\ \E i \in 1..Len(frames') : frames'[i] = t
    BY <1>2, RangeIndex DEF Polling
<1>6. \A i \in 1..Len(frames) : i = Len(frames) \/ i \in 1..Len(frames')
    BY <1>1, <1>2
<1>7. Len(frames) \in 1..Len(frames)
    BY <1>1
<1>8. Polling' = Polling \ {Me}
    <2>1. ASSUME NEW t \in Polling'  PROVE t \in Polling \ {Me}
        <3>1. PICK i \in 1..Len(frames') : frames'[i] = t
            BY <1>5
        <3>2. t \in Polling
            BY <1>3, <1>4, <1>5, <3>1
        <3>3. t # Me
            BY <1>1, <1>3, <1>5, <1>7, <3>1 DEF CallStack, StackShape
        <3> QED  BY <3>2, <3>3
    <2>2. ASSUME NEW t \in Polling, t # Me  PROVE t \in Polling'
        <3>1. PICK i \in 1..Len(frames) : frames[i] = t
            BY <1>4
        <3>2. i \in 1..Len(frames') /\ frames'[i] = t
            BY <1>1, <1>3, <1>6, <2>2, <3>1
        <3> QED  BY <1>4, <1>5, <3>2
    <2> QED  BY <2>1, <2>2
<1>9. ASSUME Me \in Task  PROVE Me' \in {"run", "block"}
    <2>1. Len(frames) > 1 /\ frames[Len(frames) - 1] \in {"run", "block"}
        BY <1>1, <1>7, <1>9 DEF CallStack, StackShape
    <2>2. Len(frames') \in 1..Len(frames') /\ Len(frames') # 0
        BY <1>1, <1>2, <2>1
    <2>3. frames' # <<>>
        BY <1>2, <2>2, EmptySeq
    <2>4. Me' = frames'[Len(frames')]
        BY <2>3 DEF Me, Last
    <2> QED  BY <1>2, <1>3, <2>1, <2>2, <2>4
<1>10. ASSUME Me = "block"  PROVE Me' # "run"
    <2>1. CASE frames' = <<>>
        BY <2>1 DEF Me
    <2>2. CASE frames' # <<>>
        <3>1. Me' = frames'[Len(frames')] /\ Len(frames') \in Nat \ {0}
            BY <2>2, <1>2, EmptySeq DEF Me, Last
        <3>2. Len(frames') \in 1..Len(frames') /\ Len(frames) > 1
            BY <1>1, <1>2, <3>1
        <3>3. frames[Len(frames) - 1] # "run"
            BY <1>1, <1>7, <1>10, <3>2 DEF CallStack, StackShape
        <3> QED  BY <1>2, <1>3, <3>1, <3>2, <3>3
    <2> QED  BY <2>1, <2>2
<1> QED  BY <1>2, <1>3, <1>8, <1>9, <1>10
-----------------------------------------------------------------------------
(* The run queues and the sleep queue. *)

(* Executor::enqueue puts one task on its run queue and leaves the others  *)
(* where they are.                                                         *)
LEMMA EnqueueFacts ==
    ASSUME TypeOK, RunQueues, NEW t \in Task, Enqueue(t)
    PROVE  /\ runq' \in [Priority -> Seq(Task)]
           /\ sleepq' = IF status[t] = "done" THEN sleepq ELSE sleepq \ {t}
           /\ RunQueues'
           /\ \A u \in Task :
                InRunq(u)' <=> InRunq(u) \/ (u = t /\ status[t] # "done")
<1>1. CASE status[t] = "done"
    <2>1. runq' = runq /\ sleepq' = sleepq
        BY <1>1 DEF Enqueue, queues
    <2> QED  BY <1>1, <2>1 DEF TypeOK, RunQueues, InRunq
<1>2. CASE status[t] # "done"
    <2> DEFINE q == PrioOf[t]
               r == RemoveFirst(runq[q], t)
    <2>1. /\ runq' = [runq EXCEPT ![q] = Append(r, t)]
          /\ sleepq' = sleepq \ {t}
        BY <1>2 DEF Enqueue
    <2>2. /\ q \in Priority /\ runq \in [Priority -> Seq(Task)]
          /\ runq[q] \in Seq(Task) /\ IsInjective(runq[q])
        BY PrioOfType DEF TypeOK, RunQueues
    <2>3. /\ r \in Seq(Task) /\ IsInjective(r)
          /\ Range(r) = Range(runq[q]) \ {t}
        BY <2>2, RemoveFirstFacts
    <2>4. /\ Append(r, t) \in Seq(Task)
          /\ Range(Append(r, t)) = Range(runq[q]) \cup {t}
          /\ IsInjective(Append(r, t))
        <3> HIDE DEF r, q
        <3>1. /\ Append(r, t) \in Seq(Task)
              /\ Range(Append(r, t)) = Range(r) \cup {t}
              /\ IsInjective(r) /\ t \notin Range(r) => IsInjective(Append(r, t))
            BY <2>3, AppendFacts
        <3> QED  BY <2>3, <3>1
    <2>5. /\ runq'[q] = Append(r, t)
          /\ \A p \in Priority : p # q => runq'[p] = runq[p]
          /\ runq' \in [Priority -> Seq(Task)]
        <3> HIDE DEF r, q
        <3> QED  BY <2>1, <2>2, <2>4
    <2>6. \A p \in Priority : Range(runq'[p]) = IF p = q THEN Range(runq[p]) \cup {t} ELSE Range(runq[p])
        BY <2>4, <2>5
    <2> HIDE DEF r
    <2>7. RunQueues'
        BY <2>1, <2>4, <2>5, <2>6 DEF RunQueues
    <2>8. \A u \in Task : InRunq(u)' <=> InRunq(u) \/ u = t
        <3> SUFFICES ASSUME NEW u \in Task
                     PROVE  InRunq(u)' <=> InRunq(u) \/ u = t
            OBVIOUS
        <3>1. PrioOf[u] \in Priority
            BY PrioOfType
        <3> QED  BY <2>6, <3>1 DEF InRunq
    <2> QED  BY <1>2, <2>1, <2>5, <2>7, <2>8
<1> QED  BY <1>1, <1>2

(* Queue::release, called by Executor::abort, takes one task off whichever *)
(* queue holds it.                                                         *)
LEMMA ReleaseFacts ==
    ASSUME TypeOK, RunQueues, NEW t \in Task, Release(t)
    PROVE  /\ runq' \in [Priority -> Seq(Task)]
           /\ sleepq' = sleepq \ {t}
           /\ RunQueues'
           /\ \A u \in Task : InRunq(u)' <=> InRunq(u) /\ u # t
<1> DEFINE q == PrioOf[t]
           r == RemoveFirst(runq[q], t)
<1>1. runq' = [runq EXCEPT ![q] = r] /\ sleepq' = sleepq \ {t}
    BY DEF Release
<1>2. /\ q \in Priority /\ runq \in [Priority -> Seq(Task)]
      /\ runq[q] \in Seq(Task) /\ IsInjective(runq[q])
    BY PrioOfType DEF TypeOK, RunQueues
<1>3. /\ r \in Seq(Task) /\ IsInjective(r)
      /\ Range(r) = Range(runq[q]) \ {t}
    BY <1>2, RemoveFirstFacts
<1>4. /\ runq'[q] = r
      /\ \A p \in Priority : p # q => runq'[p] = runq[p]
      /\ runq' \in [Priority -> Seq(Task)]
    <2> HIDE DEF r, q
    <2> QED  BY <1>1, <1>2, <1>3
<1>5. \A p \in Priority : Range(runq'[p]) = IF p = q THEN Range(runq[p]) \ {t} ELSE Range(runq[p])
    BY <1>3, <1>4
<1> HIDE DEF r
<1>6. RunQueues'
    BY <1>1, <1>3, <1>4, <1>5 DEF RunQueues
<1>7. \A u \in Task : InRunq(u)' <=> InRunq(u) /\ u # t
    <2> SUFFICES ASSUME NEW u \in Task
                 PROVE  InRunq(u)' <=> InRunq(u) /\ u # t
        OBVIOUS
    <2>1. PrioOf[u] \in Priority /\ (u = t => PrioOf[u] = q)
        BY PrioOfType
    <2>2. u # t /\ PrioOf[u] # q => Range(runq'[PrioOf[u]]) = Range(runq[PrioOf[u]])
        BY <1>5, <2>1
    <2> QED  BY <1>5, <2>1 DEF InRunq
<1> QED  BY <1>1, <1>4, <1>6, <1>7

(* The loops take the first task of the highest queue that is not empty.   *)
LEMMA HighestFacts ==
    ASSUME Runnable # {}
    PROVE  Highest \in Runnable /\ \A p \in Runnable : Highest <= p
<1>1. \E p \in Runnable : \A r \in Runnable : p <= r
    <2>1. Runnable \subseteq {1, 2, 3}
        BY DEF Runnable, Priority
    <2>2. CASE 1 \in Runnable
        BY <2>1, <2>2
    <2>3. CASE 1 \notin Runnable /\ 2 \in Runnable
        BY <2>1, <2>3
    <2>4. CASE 1 \notin Runnable /\ 2 \notin Runnable
        <3>1. Runnable = {3}
            BY <2>1, <2>4
        <3> QED  BY <3>1
    <2> QED  BY <2>2, <2>3, <2>4
<1> QED  BY <1>1 DEF Highest

LEMMA NextTaskFacts ==
    ASSUME TypeOK, RunQueues, Runnable # {}
    PROVE  /\ Highest \in Priority /\ runq[Highest] # <<>>
           /\ NextTask \in Task /\ InRunq(NextTask) /\ PrioOf[NextTask] = Highest
           /\ NextTask = Head(runq[Highest])
<1>1. Highest \in Runnable
    BY HighestFacts
<1>2. Highest \in Priority /\ runq[Highest] # <<>>
    BY <1>1 DEF Runnable
<1>3. runq[Highest] \in Seq(Task)
    BY <1>2 DEF TypeOK
<1>4. NextTask \in Task /\ NextTask \in Range(runq[Highest])
    BY <1>2, <1>3, TailFacts DEF NextTask
<1>5. PrioOf[NextTask] = Highest
    BY <1>2, <1>4 DEF RunQueues
<1> QED  BY <1>2, <1>4, <1>5 DEF InRunq, NextTask

LEMMA PopTaskFacts ==
    ASSUME TypeOK, RunQueues, Runnable # {}, sleepq' = sleepq,
           runq' = [runq EXCEPT ![Highest] = Tail(@)]
    PROVE  /\ runq' \in [Priority -> Seq(Task)]
           /\ RunQueues'
           /\ \A u \in Task : InRunq(u)' <=> InRunq(u) /\ u # NextTask
<1>1. /\ Highest \in Priority /\ runq[Highest] # <<>>
      /\ NextTask \in Task /\ PrioOf[NextTask] = Highest
      /\ NextTask = Head(runq[Highest])
    BY NextTaskFacts
<1>2. /\ runq \in [Priority -> Seq(Task)] /\ runq[Highest] \in Seq(Task)
      /\ IsInjective(runq[Highest])
    BY <1>1 DEF TypeOK, RunQueues
<1> DEFINE q == Highest
           r == Tail(runq[q])
<1>3. /\ r \in Seq(Task) /\ IsInjective(r)
      /\ Range(r) = Range(runq[q]) \ {NextTask}
    <2>1. /\ r \in Seq(Task)
          /\ Range(runq[q]) = Range(r) \cup {NextTask}
          /\ IsInjective(r) /\ NextTask \notin Range(r)
        BY <1>1, <1>2, TailFacts
    <2> QED  BY <2>1
<1>4. /\ runq'[q] = r
      /\ \A p \in Priority : p # q => runq'[p] = runq[p]
      /\ runq' \in [Priority -> Seq(Task)]
    <2>1. runq' = [runq EXCEPT ![q] = r]
        OBVIOUS
    <2> HIDE DEF r, q
    <2> QED  BY <1>1, <1>2, <1>3, <2>1 DEF q
<1>5. \A p \in Priority : Range(runq'[p]) = IF p = q THEN Range(runq[p]) \ {NextTask} ELSE Range(runq[p])
    BY <1>3, <1>4
<1> HIDE DEF r
<1>6. RunQueues'
    BY <1>3, <1>4, <1>5 DEF RunQueues
<1>7. \A u \in Task : InRunq(u)' <=> InRunq(u) /\ u # NextTask
    <2> SUFFICES ASSUME NEW u \in Task
                 PROVE  InRunq(u)' <=> InRunq(u) /\ u # NextTask
        OBVIOUS
    <2>1. PrioOf[u] \in Priority /\ (u = NextTask => PrioOf[u] = q)
        BY <1>1, PrioOfType
    <2>2. CASE PrioOf[u] = q
        <3>1. Range(runq'[PrioOf[u]]) = Range(runq[PrioOf[u]]) \ {NextTask}
            BY <1>5, <2>1, <2>2
        <3> QED  BY <3>1, Zenon DEF InRunq
    <2>3. CASE PrioOf[u] # q
        BY <1>5, <2>1, <2>3 DEF InRunq
    <2> QED  BY <2>2, <2>3
<1> QED  BY <1>4, <1>6, <1>7
-----------------------------------------------------------------------------
(* Every step moves the queues in one of six ways. *)

QueueMove ==
    \/ UNCHANGED queues
    \/ \E t \in Task : Enqueue(t) \/ Release(t)
    \/ Runnable # {} /\ sleepq' = sleepq /\ runq' = [runq EXCEPT ![Highest] = Tail(@)]
    \/ Me \in Task /\ ~Queued(Me) /\ runq' = runq /\ sleepq' = sleepq \cup {Me}
    \/ runq' = [p \in Priority |-> <<>>] /\ sleepq' = {}

LEMMA StepMovesQueues ==
    ASSUME TypeOK, EventLoop, Next
    PROVE  QueueMove
<1> USE DEF queues
<1>1. CASE UserStep
    <2>1. ASSUME NEW t \in Task, Spawn(t) \/ DropHandle(t) \/ Abort(t)
          PROVE  QueueMove
        BY <2>1 DEF Spawn, DropHandle, Abort, QueueMove
    <2>2. ASSUME NEW t \in Task, TakeOutput(t) \/ AwaitHandle(t) \/ HandlePanics(t)
          PROVE  QueueMove
        BY <2>2 DEF TakeOutput, AwaitHandle, HandlePanics, QueueMove
    <2>3. ASSUME NEW t \in Task, WakeLocal(t) \/ WakeRunning(t)
          PROVE  QueueMove
        BY <2>3 DEF WakeLocal, WakeIdle, WakeRunning, QueueMove
    <2>4. CASE \/ \E i \in DOMAIN frames : WakeBlock(i)
               \/ \E f \in Fd : ParkOnFd(f)
               \/ RequestShutdown \/ Run \/ BlockOn
        BY <2>4 DEF WakeBlock, ParkOnFd, RequestShutdown, Run, BlockOn, QueueMove
    <2> QED  BY <1>1, <2>1, <2>2, <2>3, <2>4 DEF UserStep
<1>2. CASE PollEnds
    <2>1. CASE TaskPending
        BY <2>1 DEF TaskPending, QueueMove
    <2>2. CASE TaskReady \/ BlockPending \/ BlockReady
        BY <2>2 DEF TaskReady, BlockPending, BlockReady, QueueMove
    <2> QED  BY <1>2, <2>1, <2>2 DEF PollEnds
<1>3. CASE LoopStep
    <2>1. CASE Finish
        BY <2>1 DEF Finish, WakeIdle, QueueMove
    <2>2. CASE \/ FinishWakesRunning \/ CheckEvents \/ Sleep \/ WakeUp \/ Interrupted
               \/ RunFails
        BY <2>2 DEF FinishWakesRunning, CheckEvents, Sleep, WakeUp, Interrupted, RunFails,
                    QueueMove
    <2>3. CASE PollTask \/ PollPanics
        BY <2>3 DEF PollTask, PollPanics, QueueMove
    <2>4. CASE ShutDown \/ AllDone
        BY <2>4 DEF ShutDown, AllDone, Replace, QueueMove
    <2>5. ASSUME NEW f \in Fd, HandleFd(f)
          PROVE  QueueMove
        BY <2>5 DEF HandleFd, QueueMove
    <2>6. CASE WakeFromPipe
        BY <2>6 DEF WakeFromPipe, QueueMove
    <2>7. CASE EventsHandled
        BY <2>7 DEF EventsHandled, QueueMove
    <2> QED  BY <1>3, <2>1, <2>2, <2>3, <2>4, <2>5, <2>6, <2>7 DEF LoopStep
<1>4. CASE Outside
    BY <1>4 DEF Outside, KernelEdge, WakeRemote, WakeBlockRemote, QueueMove
<1> QED  BY <1>1, <1>2, <1>3, <1>4 DEF Next

LEMMA QueuesTyped ==
    ASSUME TypeOK, RunQueues, QueueMove
    PROVE  runq' \in [Priority -> Seq(Task)] /\ sleepq' \subseteq Task /\ RunQueues'
<1>1. runq \in [Priority -> Seq(Task)] /\ sleepq \subseteq Task
    BY DEF TypeOK
<1>2. CASE UNCHANGED queues
    BY <1>1, <1>2 DEF queues, RunQueues
<1>3. ASSUME NEW t \in Task, Enqueue(t)
      PROVE  runq' \in [Priority -> Seq(Task)] /\ sleepq' \subseteq Task /\ RunQueues'
    BY <1>1, <1>3, EnqueueFacts
<1>4. ASSUME NEW t \in Task, Release(t)
      PROVE  runq' \in [Priority -> Seq(Task)] /\ sleepq' \subseteq Task /\ RunQueues'
    BY <1>1, <1>4, ReleaseFacts
<1>5. CASE Runnable # {} /\ sleepq' = sleepq /\ runq' = [runq EXCEPT ![Highest] = Tail(@)]
    BY <1>1, <1>5, PopTaskFacts
<1>6. CASE Me \in Task /\ ~Queued(Me) /\ runq' = runq /\ sleepq' = sleepq \cup {Me}
    <2>1. \A p \in Priority : Me \notin Range(runq[p])
        BY <1>6 DEF Queued, InRunq, RunQueues
    <2> QED  BY <1>1, <1>6, <2>1 DEF RunQueues
<1>7. CASE runq' = [p \in Priority |-> <<>>] /\ sleepq' = {}
    <2>1. <<>> \in Seq(Task) /\ Range(<<>>) = {} /\ IsInjective(<<>>)
        BY EmptyFacts
    <2>2. runq' \in [Priority -> Seq(Task)] /\ \A p \in Priority : runq'[p] = <<>>
        BY <1>7, <2>1
    <2> QED  BY <1>7, <2>1, <2>2 DEF RunQueues
<1> QED  BY <1>2, <1>3, <1>4, <1>5, <1>6, <1>7 DEF QueueMove
-----------------------------------------------------------------------------
(* Type correctness. *)

LEMMA InitType == Init => TypeOK
<1> SUFFICES ASSUME Init  PROVE TypeOK
    OBVIOUS
<1>1. <<>> \in Seq(Task) /\ <<>> \in Seq(Frame) /\ <<>> \in Seq(Task \cup {"null"})
    BY EmptyFacts
<1> QED  BY <1>1 DEF Init, TypeOK, Frame

LEMMA TypeStep ==
    ASSUME TypeOK, CallStack, EventLoop, RunQueues, [Next]_vars
    PROVE  TypeOK'
<1>1. CASE UNCHANGED vars
    BY <1>1 DEF vars, control, queues, tasks, fds, chan, history, TypeOK
<1>2. CASE Next
    <2>1. runq' \in [Priority -> Seq(Task)] /\ sleepq' \subseteq Task
        BY <1>2, StepMovesQueues, QueuesTyped
    <2>2. /\ frames \in Seq(Frame) /\ Len(frames) \in Nat
          /\ Me \in Frame \cup {"main"} /\ (Me # "main" => frames # <<>>)
        BY StackFacts
    <2>3. <<>> \in Seq(Frame) /\ <<>> \in Seq(Task \cup {"null"})
        BY EmptyFacts
    <2>4. ASSUME NEW x \in Task \cup {"null"}
          PROVE  Append(pipe, x) \in Seq(Task \cup {"null"})
        BY AppendFacts DEF TypeOK
    <2>5. InFuture => Me \in Task \cup {"block"}
        BY DEF InFuture
    <2> USE <2>1, MarkFacts DEF TypeOK, Frame
    <2> USE DEF control, queues, tasks, fds, chan, history
    <2>6. CASE UserStep
        <3>1. ASSUME NEW t \in Task, Spawn(t)  PROVE TypeOK'
            BY <3>1 DEF Spawn
        <3>2. ASSUME NEW t \in Task, DropHandle(t) \/ Abort(t)  PROVE TypeOK'
            <4>1. CASE DropHandle(t)
                BY <4>1 DEF DropHandle
            <4>2. CASE Abort(t)
                <5>1. aborted' \subseteq Task /\ woken' \in [Task -> BOOLEAN]
                    BY <4>2 DEF Abort
                <5> QED  BY <4>2, <5>1 DEF Abort
            <4> QED  BY <3>2, <4>1, <4>2
        <3>3. ASSUME NEW t \in Task, TakeOutput(t) \/ HandlePanics(t)  PROVE TypeOK'
            <4>1. CASE TakeOutput(t)
                BY <4>1 DEF TakeOutput
            <4>2. CASE HandlePanics(t)
                BY <4>2 DEF HandlePanics
            <4> QED  BY <3>3, <4>1, <4>2
        <3>4. ASSUME NEW t \in Task, AwaitHandle(t)  PROVE TypeOK'
            BY <3>4, <2>5 DEF AwaitHandle
        <3>5. ASSUME NEW t \in Task, WakeLocal(t)  PROVE TypeOK'
            BY <3>5 DEF WakeLocal, WakeIdle
        <3>6. ASSUME NEW t \in Task, WakeRunning(t)  PROVE TypeOK'
            BY <3>6 DEF WakeRunning, Harvest, Sources
        <3>7. ASSUME NEW i \in DOMAIN frames, WakeBlock(i)  PROVE TypeOK'
            <4>1. i \in Nat
                BY <2>2, LenProperties
            <4> QED  BY <3>7, <4>1 DEF WakeBlock, RecordBlockWake
        <3>8. ASSUME NEW f \in Fd, ParkOnFd(f)  PROVE TypeOK'
            BY <3>8, <2>5 DEF ParkOnFd
        <3>9. CASE RequestShutdown
            BY <3>9 DEF RequestShutdown
        <3>10. CASE Run
            <4>1. <<"run">> \in Seq(Frame)
                OBVIOUS
            <4> QED  BY <3>10, <4>1 DEF Run
        <3>11. CASE BlockOn
            <4>1. frames' \in Seq(Frame)
                BY <3>11, PushFacts DEF BlockOn
            <4> QED  BY <3>11, <4>1 DEF BlockOn
        <3> QED  BY <2>6, <3>1, <3>2, <3>3, <3>4, <3>5, <3>6, <3>7, <3>8, <3>9,
                    <3>10, <3>11 DEF UserStep
    <2>7. CASE PollEnds
        <3>1. CASE TaskPending
            <4>1. frames' \in Seq(Frame)
                BY <3>1, PopFacts DEF TaskPending
            <4> QED  BY <3>1, <4>1 DEF TaskPending
        <3>2. CASE TaskReady \/ BlockPending
            BY <3>2 DEF TaskReady, BlockPending
        <3>3. CASE BlockReady
            <4>1. frames' \in Seq(Frame)
                BY <3>3, PopFacts DEF BlockReady
            <4> QED  BY <3>3, <4>1 DEF BlockReady
        <3> QED  BY <2>7, <3>1, <3>2, <3>3 DEF PollEnds
    <2>8. CASE LoopStep
        <3>1. CASE Finish
            <4>1. frames' \in Seq(Frame)
                BY <3>1, PopFacts DEF Finish, CallStack
            <4> QED  BY <3>1, <4>1 DEF Finish, WakeIdle
        <3>2. CASE FinishWakesRunning
            <4>1. waiter[Me] \in Task
                BY <3>2 DEF FinishWakesRunning, Polling
            <4> QED  BY <3>2, <4>1 DEF FinishWakesRunning, Harvest, Sources
        <3>3. CASE PollTask
            <4>1. NextTask \in Task
                BY <3>3, NextTaskFacts DEF PollTask
            <4>2. frames' \in Seq(Frame)
                BY <3>3, <4>1, PushFacts DEF PollTask
            <4> QED  BY <3>3, <4>1, <4>2 DEF PollTask
        <3>4. CASE PollPanics
            BY <3>4 DEF PollPanics
        <3>5. CASE ShutDown \/ AllDone
            <4>1. Replace
                BY <3>5 DEF ShutDown, AllDone
            <4>2. /\ ready' \in [Fd -> BOOLEAN] /\ edge' \in [Fd -> BOOLEAN]
                  /\ parked' \in [Fd -> Task \cup {NoTask, "block"}]
                  /\ gen' \in Nat /\ pipeNo' \in PipeNo
                BY <4>1 DEF Replace
            <4>3. /\ frames' \in Seq(Frame) /\ pipe' \in Seq(Task \cup {"null"})
                  /\ pc' = "user" /\ shutdown' = FALSE
                BY <4>1, <2>3 DEF Replace
            <4>4. UNCHANGED <<batch, after, resume, tasks, born, aborted, woken, bwoken>>
                BY <4>1 DEF Replace
            <4> QED  BY <4>2, <4>3, <4>4
        <3>6. CASE CheckEvents \/ WakeUp
            BY <3>6 DEF CheckEvents, WakeUp, Harvest, Sources, LoopTop
        <3>7. CASE Sleep \/ Interrupted
            BY <3>7 DEF Sleep, Interrupted, LoopTop
        <3>8. ASSUME NEW f \in Fd, HandleFd(f)  PROVE TypeOK'
            BY <3>8 DEF HandleFd
        <3>9. CASE WakeFromPipe
            <4>1. pipe # <<>>
                BY <3>9 DEF WakeFromPipe, EventLoop
            <4>2. pipe' \in Seq(Task \cup {"null"})
                BY <3>9, <4>1, TailFacts DEF WakeFromPipe
            <4> QED  BY <3>9, <4>2 DEF WakeFromPipe
        <3>10. CASE EventsHandled
            BY <3>10 DEF EventsHandled
        <3>11. CASE RunFails
            BY <3>11, <2>3 DEF RunFails
        <3> QED  BY <2>8, <3>1, <3>2, <3>3, <3>4, <3>5, <3>6, <3>7, <3>8, <3>9,
                    <3>10, <3>11 DEF LoopStep
    <2>9. CASE Outside
        <3>1. ASSUME NEW f \in Fd, KernelEdge(f)  PROVE TypeOK'
            BY <3>1 DEF KernelEdge
        <3>2. ASSUME NEW t \in Task, WakeRemote(t)  PROVE TypeOK'
            BY <3>2, <2>4 DEF WakeRemote
        <3>3. ASSUME NEW i \in DOMAIN frames, WakeBlockRemote(i)  PROVE TypeOK'
            <4>1. i \in Nat
                BY <2>2, LenProperties
            <4> QED  BY <3>3, <4>1, <2>4 DEF WakeBlockRemote, RecordBlockWake
        <3> QED  BY <2>9, <3>1, <3>2, <3>3 DEF Outside
    <2> QED  BY <1>2, <2>6, <2>7, <2>8, <2>9 DEF Next
<1> QED  BY <1>1, <1>2
-----------------------------------------------------------------------------
(* The call stack keeps its shape. *)

LEMMA SameShape ==
    ASSUME frames' = frames
    PROVE  Me' = Me /\ Polling' = Polling /\ (StackShape => StackShape')
BY DEF Me, Polling, StackShape

LEMMA PushShape ==
    ASSUME TypeOK, StackShape, NEW x \in Frame, frames' = Append(frames, x),
           x \in Task => Me \in {"run", "block"} /\ x \notin Polling,
           x = "run" => frames = <<>>, x = "block" => Me # "run"
    PROVE  StackShape'
<1> DEFINE n == Len(frames)
<1>1. /\ n \in Nat /\ Len(frames') = n + 1
      /\ \A i \in 1..n : frames'[i] = frames[i]
      /\ frames'[n + 1] = x
    BY PushFacts, StackFacts
<1>2. \A t : t \in Polling <=> t \in Task /\ \E i \in 1..n : frames[i] = t
    BY StackFacts
<1>3. x \in Task => n > 0 /\ frames[n] \in {"run", "block"}
    BY StackFacts
<1>4. /\ x = "run" => n = 0
      /\ x = "block" /\ n > 0 => frames[n] # "run"
    <2>1. n > 0 => Me = frames[n]
        BY StackFacts, EmptyFacts
    <2> QED  BY <2>1, EmptyFacts
<1> HIDE DEF n
<1>5. \A i \in 1..n + 1 : i \in 1..n \/ i = n + 1
    BY <1>1
<1>6. ASSUME NEW i \in 1..n + 1
      PROVE  /\ frames'[i] \in Task => i > 1 /\ frames'[i - 1] \in {"run", "block"}
             /\ frames'[i] = "block" /\ i > 1 => frames'[i - 1] # "run"
             /\ frames'[i] = "run" => i = 1
    <2>1. CASE i \in 1..n
        <3>1. i > 1 => i - 1 \in 1..n
            BY <1>1, <2>1
        <3> QED  BY <1>1, <2>1, <3>1 DEF StackShape, n
    <2>2. CASE i = n + 1
        <3>1. /\ x \in Task => n \in 1..n /\ i > 1 /\ i - 1 = n
              /\ i > 1 => n \in 1..n /\ i - 1 = n
            BY <1>1, <1>3, <2>2
        <3> QED  BY <1>1, <1>3, <1>4, <2>2, <3>1
    <2> QED  BY <1>5, <2>1, <2>2
<1>7. ASSUME NEW i \in 1..n + 1, NEW j \in 1..n + 1,
             frames'[i] \in Task, frames'[i] = frames'[j]
      PROVE  i = j
    <2>1. CASE i \in 1..n /\ j \in 1..n
        BY <1>1, <1>7, <2>1 DEF StackShape, n
    <2>2. CASE i \in 1..n /\ j = n + 1
        BY <1>1, <1>2, <1>7, <2>2
    <2>3. CASE i = n + 1 /\ j \in 1..n
        BY <1>1, <1>2, <1>7, <2>3
    <2> QED  BY <1>5, <2>1, <2>2, <2>3
<1> QED  BY <1>1, <1>6, <1>7 DEF StackShape

LEMMA PopShape ==
    ASSUME TypeOK, CallStack, Me # "main", frames' = Front(frames)
    PROVE  StackShape'
<1>1. /\ Len(frames') \in Nat
      /\ \A i \in 1..Len(frames') : i \in 1..Len(frames) /\ frames'[i] = frames[i]
    <2>1. /\ frames' \in Seq(Frame)
          /\ \A i \in 1..Len(frames') : i \in 1..Len(frames) /\ frames'[i] = frames[i]
        BY PopFacts
    <2> QED  BY <2>1, LenProperties
<1>2. \A i \in 1..Len(frames') : i > 1 => i - 1 \in 1..Len(frames')
    BY <1>1
<1> QED  BY <1>1, <1>2 DEF CallStack, StackShape

(* A step that enters and leaves no frame and takes none of the polled     *)
(* tasks out of "started" keeps CallStack if the new pc suits the frame.   *)
LEMMA SameCallStack ==
    ASSUME CallStack, frames' = frames,
           \A t \in Polling : status'[t] = "started",
           pc' \in {"pick", "wait", "ran"} => Me \in {"run", "block"},
           pc' = "finish" => Me \in Task,
           pc' = "user" => Me # "run"
    PROVE  CallStack'
BY SameShape DEF CallStack

LEMMA SamePlace ==
    ASSUME CallStack, frames' = frames, pc' = pc,
           \A t \in Polling : status'[t] = "started"
    PROVE  CallStack'
BY SameShape DEF CallStack

LEMMA SameEventLoop ==
    ASSUME EventLoop, UNCHANGED <<pc, control>>, pipe' = pipe \/ pipe' # <<>>,
           \A t \in Task : born'[t] <= gen'
    PROVE  EventLoop'
BY SameShape DEF EventLoop, control

\* Harvest reports the pipe only when there is something in it.
LEMMA HarvestFacts ==
    ASSUME NEW t, NEW next, Harvest(t, next), UNCHANGED <<frames, chan, history>>, EventLoop,
           \/ next = "pick" /\ Me = "run"
           \/ next = "user" /\ Me \in Task \cup {"block"}
           \/ next = "finish" /\ Me \in Task
    PROVE  EventLoop' /\ pc' = "events" /\ frames' = frames
<1>1. frames' = frames /\ pipe' = pipe /\ gen' = gen /\ born' = born
    BY DEF chan, history
<1>2. Me' = Me
    BY <1>1, SameShape
<1>3. "pipe" \in batch' => pipe # <<>>
    BY MarkFacts DEF Harvest, Sources
<1> QED  BY <1>1, <1>2, <1>3 DEF EventLoop, Harvest

(* When run() is on top of the stack it is the whole stack. *)
LEMMA RunIsBottom ==
    ASSUME TypeOK, CallStack, Me = "run"
    PROVE  Polling = {}
<1>1. /\ Len(frames) \in Nat \ {0} /\ frames[Len(frames)] = "run"
      /\ \A t : t \in Polling <=> t \in Task /\ \E i \in 1..Len(frames) : frames[i] = t
    BY StackFacts
<1>2. Len(frames) \in 1..Len(frames)
    BY <1>1
<1>3. Len(frames) = 1
    BY <1>1, <1>2 DEF CallStack, StackShape
<1>4. \A i \in 1..Len(frames) : frames[i] = "run"
    BY <1>1, <1>3
<1> QED  BY <1>1, <1>4, MarkFacts

(* An epoll_wait that fails leaves run(), and with it the stack.            *)
LEMMA RunFailsFacts ==
    ASSUME TypeOK, CallStack, RunFails
    PROVE  Polling = {} /\ Polling' = {} /\ Me' = "main" /\ StackShape'
<1>1. frames' = <<>> /\ Me = "run"
    BY DEF RunFails
<1>2. Len(frames') = 0 /\ Range(frames') = {}
    BY <1>1, EmptyFacts
<1> QED  BY <1>1, <1>2, RunIsBottom DEF Me, Polling, StackShape

LEMMA StackStep ==
    ASSUME TypeOK, CallStack, EventLoop, RunQueues, [Next]_vars
    PROVE  CallStack' /\ EventLoop'
<1>1. CASE UNCHANGED vars
    BY <1>1, SamePlace, SameEventLoop
    DEF vars, tasks, chan, history, control, CallStack, EventLoop
<1>2. CASE Next
    <2>1. /\ frames \in Seq(Frame) /\ Len(frames) \in Nat
          /\ Me \in Frame \cup {"main"} /\ (Me # "main" => frames # <<>>)
          /\ (Me \in Task => Me \in Polling)
        BY StackFacts
    <2>2. \A t \in Polling : t \in Task /\ status[t] = "started"
        BY DEF CallStack, Polling
    <2>3. \A t \in Task : born[t] <= gen
        BY DEF EventLoop
    <2>4. gen \in Nat /\ born \in [Task -> Nat] /\ status \in [Task -> {"unborn", "fresh", "started", "done"}]
        BY DEF TypeOK
    <2>5. LoopTop = IF Me = "run" THEN "pick" ELSE "user"
        BY DEF LoopTop
    <2> USE DEF control, queues, tasks, fds, chan, history
    <2>6. CASE UserStep
        <3>1. ASSUME NEW t \in Task, Spawn(t)  PROVE CallStack' /\ EventLoop'
            <4>1. CallStack'
                <5>1. \A u \in Polling : status'[u] = "started"
                    BY <3>1, <2>2, <2>4 DEF Spawn
                <5> QED  BY <3>1, <5>1, SamePlace DEF Spawn
            <4>2. \A u \in Task : born'[u] <= gen'
                BY <3>1, <2>3, <2>4 DEF Spawn
            <4> QED  BY <3>1, <4>1, <4>2, SameEventLoop DEF Spawn
        <3>2. ASSUME NEW t \in Task, DropHandle(t) \/ Abort(t) \/ TakeOutput(t) \/ AwaitHandle(t)
              PROVE  CallStack' /\ EventLoop'
            <4>1. UNCHANGED <<pc, frames, batch, after, resume, status, pipe, gen, born>>
                BY <3>2 DEF DropHandle, Abort, TakeOutput, AwaitHandle
            <4> QED  BY <4>1, <2>2, <2>3, SamePlace, SameEventLoop
        <3>3. ASSUME NEW t \in Task, HandlePanics(t)  PROVE CallStack' /\ EventLoop'
            <4>1. CallStack'
                BY <3>3, <2>2, SameCallStack DEF HandlePanics
            <4> QED  BY <3>3, <4>1, SameShape DEF HandlePanics, EventLoop
        <3>4. ASSUME NEW t \in Task, WakeLocal(t)  PROVE CallStack' /\ EventLoop'
            <4>1. UNCHANGED <<pc, frames, batch, after, resume, status, pipe, gen, born>>
                BY <3>4 DEF WakeLocal
            <4> QED  BY <4>1, <2>2, <2>3, SamePlace, SameEventLoop
        <3>5. ASSUME NEW t \in Task, WakeRunning(t)  PROVE CallStack' /\ EventLoop'
            <4>1. Me # "main" /\ Me # "run"
                <5>1. PICK i \in 1..Len(frames) : frames[i] = t
                    BY <3>5, StackFacts DEF WakeRunning
                <5>2. frames # <<>>
                    BY <5>1, <2>1, EmptyFacts
                <5> QED  BY <5>2, <3>5, StackFacts DEF WakeRunning, CallStack
            <4>2. EventLoop' /\ pc' = "events" /\ frames' = frames
                BY <3>5, <4>1, <2>1, HarvestFacts DEF WakeRunning, Frame
            <4> QED  BY <3>5, <4>2, <2>2, SameCallStack DEF WakeRunning
        <3>6. ASSUME NEW i \in DOMAIN frames, WakeBlock(i)
              PROVE  CallStack' /\ EventLoop'
            <4>1. UNCHANGED <<pc, frames, batch, after, resume, status, pipe, gen, born>>
                BY <3>6 DEF WakeBlock
            <4> QED  BY <4>1, <2>2, <2>3, SamePlace, SameEventLoop
        <3>7. ASSUME NEW f \in Fd, ParkOnFd(f)
              PROVE  CallStack' /\ EventLoop'
            <4>1. UNCHANGED <<pc, frames, batch, after, resume, status, pipe, gen, born>>
                BY <3>7 DEF ParkOnFd
            <4> QED  BY <4>1, <2>2, <2>3, SamePlace, SameEventLoop
        <3>8. CASE RequestShutdown
            <4>1. UNCHANGED <<pc, frames, batch, after, resume, status, pipe, gen, born>>
                BY <3>8 DEF RequestShutdown
            <4> QED  BY <4>1, <2>2, <2>3, SamePlace, SameEventLoop
        <3>9. CASE Run
            <4>1. /\ frames' = Append(frames, "run") /\ pc' = "pick" /\ frames = <<>>
                  /\ UNCHANGED <<batch, after, resume, status, pipe, gen, born>>
                BY <3>9 DEF Run
            <4>2. StackShape' /\ Me' = "run" /\ Polling' = Polling
                <5>1. "run" \in Frame /\ "run" \notin Task /\ StackShape
                    BY MarkFacts DEF Frame, CallStack
                <5>2. Me' = "run" /\ Polling' = Polling \cup ({"run"} \cap Task)
                    BY <4>1, <5>1, PushFacts
                <5>3. StackShape'
                    BY <4>1, <5>1, PushShape
                <5> QED  BY <5>1, <5>2, <5>3
            <4>3. after = NoTask /\ batch = {}
                BY <3>9 DEF Run, EventLoop
            <4> QED  BY <4>1, <4>2, <4>3, <2>2, <2>3 DEF CallStack, EventLoop
        <3>10. CASE BlockOn
            <4>1. /\ frames' = Append(frames, "block") /\ pc' = "user" /\ Me # "run"
                  /\ UNCHANGED <<batch, after, resume, status, pipe, gen, born>>
                BY <3>10 DEF BlockOn, CallStack
            <4>2. StackShape' /\ Me' = "block" /\ Polling' = Polling
                <5>1. "block" \in Frame /\ "block" \notin Task /\ StackShape
                    BY MarkFacts DEF Frame, CallStack
                <5>2. Me' = "block" /\ Polling' = Polling \cup ({"block"} \cap Task)
                    BY <4>1, <5>1, PushFacts
                <5>3. StackShape'
                    BY <4>1, <5>1, PushShape
                <5> QED  BY <5>1, <5>2, <5>3
            <4>3. after = NoTask /\ batch = {}
                BY <3>10 DEF BlockOn, EventLoop
            <4> QED  BY <4>1, <4>2, <4>3, <2>2, <2>3 DEF CallStack, EventLoop
        <3> QED  BY <2>6, <3>1, <3>2, <3>3, <3>4, <3>5, <3>6, <3>7, <3>8, <3>9,
                    <3>10 DEF UserStep
    <2>7. CASE PollEnds
        <3>1. CASE TaskPending
            <4>1. /\ frames' = Front(frames) /\ pc' = "ran" /\ Me \in Task
                  /\ UNCHANGED <<batch, after, resume, status, pipe, gen, born>>
                BY <3>1 DEF TaskPending
            <4>2. StackShape' /\ Me' \in {"run", "block"} /\ Polling' = Polling \ {Me}
                BY <4>1, PopShape, PopFacts, MarkFacts
            <4>3. after = NoTask /\ batch = {}
                BY <3>1 DEF TaskPending, EventLoop
            <4> QED  BY <4>1, <4>2, <4>3, <2>2, <2>3 DEF CallStack, EventLoop
        <3>2. CASE TaskReady
            <4>1. CallStack'
                BY <3>2, <2>2, SameCallStack DEF TaskReady
            <4> QED  BY <3>2, <4>1, <2>3 DEF TaskReady, EventLoop
        <3>3. CASE BlockPending
            <4>1. CallStack'
                BY <3>3, <2>2, SameCallStack DEF BlockPending
            <4> QED  BY <3>3, <4>1, <2>3 DEF BlockPending, EventLoop
        <3>4. CASE BlockReady
            <4>1. /\ frames' = Front(frames) /\ pc' = "user" /\ Me = "block"
                  /\ UNCHANGED <<batch, after, resume, status, pipe, gen, born>>
                BY <3>4 DEF BlockReady
            <4>2. StackShape' /\ Me' # "run" /\ Polling' \subseteq Polling
                BY <4>1, PopShape, PopFacts
            <4>3. after = NoTask /\ batch = {}
                BY <3>4 DEF BlockReady, EventLoop
            <4> QED  BY <4>1, <4>2, <4>3, <2>2, <2>3 DEF CallStack, EventLoop
        <3> QED  BY <2>7, <3>1, <3>2, <3>3, <3>4 DEF PollEnds
    <2>8. CASE LoopStep
        <3>1. CASE Finish
            <4>1. Me \in Task /\ Me \in Polling
                BY <3>1, <2>1 DEF Finish, CallStack
            <4>2. /\ frames' = Front(frames) /\ pc' = "ran"
                  /\ status' = [status EXCEPT ![Me] = "done"]
                  /\ UNCHANGED <<batch, after, resume, pipe, gen, born>>
                BY <3>1 DEF Finish
            <4>3. StackShape' /\ Me' \in {"run", "block"} /\ Polling' = Polling \ {Me}
                BY <4>1, <4>2, PopShape, PopFacts, MarkFacts
            <4>4. after = NoTask /\ batch = {}
                BY <3>1 DEF Finish, EventLoop
            <4>5. \A t \in Polling' : status'[t] = "started"
                BY <4>1, <4>2, <4>3, <2>2, <2>4
            <4> QED  BY <4>1, <4>2, <4>3, <4>4, <4>5, <2>3 DEF CallStack, EventLoop
        <3>2. CASE FinishWakesRunning
            <4>1. Me \in Task
                BY <3>2 DEF FinishWakesRunning, CallStack
            <4>2. EventLoop' /\ pc' = "events" /\ frames' = frames
                BY <3>2, <4>1, HarvestFacts DEF FinishWakesRunning
            <4> QED  BY <3>2, <4>2, <2>2, SameCallStack DEF FinishWakesRunning
        <3>3. CASE PollTask
            <4>1. /\ NextTask \in Task /\ NextTask \notin Polling
                  /\ Me \in {"run", "block"}
                BY <3>3, NextTaskFacts DEF PollTask, MayPoll, CallStack
            <4> DEFINE n == NextTask
            <4>2. /\ frames' = Append(frames, n) /\ pc' = "user"
                  /\ status' = [status EXCEPT ![n] = "started"]
                  /\ UNCHANGED <<batch, after, resume, pipe, gen, born>>
                BY <3>3 DEF PollTask
            <4>3. n \in Task /\ n \notin Polling
                BY <4>1
            <4> HIDE DEF n
            <4>4. StackShape' /\ Me' = n /\ Polling' = Polling \cup {n}
                BY <4>1, <4>2, <4>3, PushShape, PushFacts, MarkFacts DEF Frame, CallStack
            <4>5. after = NoTask /\ batch = {}
                BY <3>3 DEF PollTask, EventLoop
            <4>6. \A t \in Polling' : status'[t] = "started"
                BY <4>2, <4>3, <4>4, <2>2, <2>4
            <4> QED  BY <4>2, <4>3, <4>4, <4>5, <4>6, <2>3, MarkFacts DEF CallStack, EventLoop
        <3>4. CASE PollPanics
            <4>1. CallStack'
                BY <3>4, <2>2, SameCallStack DEF PollPanics
            <4> QED  BY <3>4, <4>1, <2>3 DEF PollPanics, EventLoop
        <3>5. CASE ShutDown \/ AllDone
            <4>1. Replace
                BY <3>5 DEF ShutDown, AllDone
            <4>2. after = NoTask /\ batch = {}
                BY <3>5 DEF ShutDown, AllDone, EventLoop
            <4>3. frames' = <<>> /\ pc' = "user" /\ after' = NoTask /\ batch' = {}
                BY <4>1, <4>2 DEF Replace
            <4>4. Me' = "main" /\ Polling' = {} /\ StackShape'
                <5>1. Len(frames') = 0 /\ Range(frames') = {}
                    BY <4>3, EmptyFacts
                <5> QED  BY <4>3, <5>1 DEF Me, Polling, StackShape
            <4>5. \A t \in Task : born'[t] <= gen'
                BY <4>1, <2>3, <2>4 DEF Replace
            <4> QED  BY <4>3, <4>4, <4>5 DEF CallStack, EventLoop
        <3>6. CASE CheckEvents
            <4>1. Me \in {"run", "block"}
                BY <3>6 DEF CheckEvents, CallStack
            <4>2. EventLoop' /\ pc' = "events" /\ frames' = frames
                BY <3>6, <4>1, <2>5, HarvestFacts DEF CheckEvents
            <4> QED  BY <3>6, <4>2, <2>2, SameCallStack DEF CheckEvents
        <3>7. CASE WakeUp
            <4>1. Me \in {"run", "block"}
                BY <3>7 DEF WakeUp, CallStack
            <4>2. EventLoop' /\ pc' = "events" /\ frames' = frames
                BY <3>7, <4>1, <2>5, HarvestFacts DEF WakeUp
            <4> QED  BY <3>7, <4>2, <2>2, SameCallStack DEF WakeUp
        <3>8. CASE Sleep
            <4>1. Me \in {"run", "block"}
                BY <3>8 DEF Sleep, CallStack
            <4>2. CallStack'
                BY <3>8, <4>1, <2>2, SameCallStack DEF Sleep
            <4> QED  BY <3>8, <4>2, <2>3 DEF Sleep, EventLoop
        <3>9. CASE Interrupted
            <4>1. Me \in {"run", "block"}
                BY <3>9 DEF Interrupted, CallStack
            <4>2. CallStack'
                BY <3>9, <2>2, SameCallStack DEF Interrupted
            <4>3. batch = {} /\ Me' = Me
                BY <3>9, SameShape DEF Interrupted, EventLoop
            <4> QED  BY <3>9, <4>1, <4>2, <4>3, <2>3, <2>5, MarkFacts DEF Interrupted, EventLoop
        <3>10. ASSUME NEW f \in Fd, HandleFd(f)  PROVE CallStack' /\ EventLoop'
            <4>1. CallStack'
                BY <3>10, <2>2, SamePlace DEF HandleFd
            <4> QED  BY <3>10, <4>1, <2>3, SameShape DEF HandleFd, EventLoop
        <3>11. CASE WakeFromPipe
            <4>1. CallStack'
                BY <3>11, <2>2, SamePlace DEF WakeFromPipe
            <4> QED  BY <3>11, <4>1, <2>3, SameShape DEF WakeFromPipe, EventLoop
        <3>12. CASE EventsHandled
            <4>1. frames' = frames /\ status' = status /\ pc' = resume
                BY <3>12 DEF EventsHandled
            <4>2. \/ resume = "pick" /\ Me = "run"
                  \/ resume = "user" /\ Me \in Task \cup {"block"}
                  \/ resume = "finish" /\ Me \in Task
                BY <3>12 DEF EventsHandled, EventLoop
            <4>3. CallStack'
                BY <4>1, <4>2, <2>2, SameCallStack, MarkFacts
            <4>4. pc' # "events" /\ after' = NoTask /\ batch' = {}
                BY <3>12, <4>2 DEF EventsHandled
            <4> QED  BY <3>12, <4>3, <4>4, <2>3 DEF EventsHandled, EventLoop
        <3>13. CASE RunFails
            <4>1. /\ pc' = "user" /\ UNCHANGED <<batch, after, resume, pipe, gen, born>>
                  /\ after = NoTask /\ batch = {}
                BY <3>13 DEF RunFails, EventLoop
            <4> QED  BY <3>13, <4>1, <2>3, RunFailsFacts DEF CallStack, EventLoop
        <3> QED  BY <2>8, <3>1, <3>2, <3>3, <3>4, <3>5, <3>6, <3>7, <3>8, <3>9,
                    <3>10, <3>11, <3>12, <3>13 DEF LoopStep
    <2>9. CASE Outside
        <3>1. ASSUME NEW f \in Fd, KernelEdge(f)  PROVE CallStack' /\ EventLoop'
            <4>1. UNCHANGED <<pc, frames, batch, after, resume, status, pipe, gen, born>>
                BY <3>1 DEF KernelEdge
            <4> QED  BY <4>1, <2>2, <2>3, SamePlace, SameEventLoop
        <3>2. ASSUME NEW x \in Task \cup {"null"}, pipe' = Append(pipe, x)
              PROVE  pipe' # <<>>
            <4>1. Len(pipe') = Len(pipe) + 1 /\ Len(pipe) \in Nat
                BY <3>2, AppendProperties, LenProperties DEF TypeOK
            <4> QED  BY <4>1, EmptyFacts
        <3>3. ASSUME NEW t \in Task, WakeRemote(t)  PROVE CallStack' /\ EventLoop'
            <4>1. UNCHANGED <<pc, frames, batch, after, resume, status, gen, born>> /\ pipe' # <<>>
                BY <3>2, <3>3 DEF WakeRemote
            <4> QED  BY <4>1, <2>2, <2>3, SamePlace, SameEventLoop
        <3>4. ASSUME NEW i \in DOMAIN frames, WakeBlockRemote(i)  PROVE CallStack' /\ EventLoop'
            <4>1. UNCHANGED <<pc, frames, batch, after, resume, status, gen, born>> /\ pipe' # <<>>
                BY <3>2, <3>4 DEF WakeBlockRemote
            <4> QED  BY <4>1, <2>2, <2>3, SamePlace, SameEventLoop
        <3> QED  BY <2>9, <3>1, <3>3, <3>4 DEF Outside
    <2> QED  BY <1>2, <2>6, <2>7, <2>8, <2>9 DEF Next
<1> QED  BY <1>1, <1>2
-----------------------------------------------------------------------------
(* No task and no wake-up is lost. *)

Safe == Placement /\ TaskConservation /\ NoLostWake /\ AwaiterNotStranded

\* What NoLostWake asks of one task.
Accounted(u) == InRunq(u) \/ u \in Range(pipe) \/ after = u

(* A step that starts and ends no poll and spawns nothing keeps the        *)
(* invariant if every queued task stays queued and every woken task, the   *)
(* newly woken ones included, stays on its way to a poll.                  *)
LEMMA KeepSafe ==
    ASSUME Safe, pc # "panic", RunQueues',
           Polling' = Polling, UNCHANGED <<status, gen, born>>,
           aborted \subseteq aborted', sleepq' \subseteq sleepq,
           \A u \in Task : u \notin aborted' /\ Unfinished(u) /\ Queued(u)
                               => Queued(u)' \/ u \in Polling,
           pc' = "panic" \/
             \A u \in Task : /\ woken'[u] /\ Unfinished(u) /\ Current(u)
                             /\ u \notin aborted'
                             /\ woken[u] => Accounted(u)
                             => Accounted(u)',
           \A u \in Task : status[u] = "done" /\ output'[u] /\ waiter'[u] # NoTask
                               => output[u] /\ waiter[u] # NoTask
    PROVE  Safe'
<1>1. \A u \in Task : Unfinished(u)' = Unfinished(u) /\ Current(u)' = Current(u)
    BY DEF Unfinished, Current
<1>2. Placement'
    BY DEF Safe, Placement
<1>3. TaskConservation'
    BY <1>1 DEF Safe, TaskConservation
<1>4. NoLostWake'
    BY <1>1 DEF Safe, NoLostWake, Accounted
<1>5. AwaiterNotStranded'
    BY DEF Safe, AwaiterNotStranded
<1> QED  BY <1>2, <1>3, <1>4, <1>5 DEF Safe

(* In particular one that moves no task and wakes none. *)
LEMMA QuietSafe ==
    ASSUME Safe, pc # "panic", Polling' = Polling, UNCHANGED queues,
           UNCHANGED <<status, gen, born, aborted, woken>>, pipe' = pipe,
           after' = after \/ after \notin Task,
           \A u \in Task : output'[u] /\ waiter'[u] # NoTask
                               => output[u] /\ waiter[u] # NoTask
    PROVE  Safe'
<1>1. runq' = runq /\ sleepq' = sleepq
    BY DEF queues
<1>2. RunQueues'
    BY <1>1 DEF RunQueues, Safe, Placement
<1>3. \A u \in Task : InRunq(u)' = InRunq(u) /\ Queued(u)' = Queued(u)
    BY <1>1 DEF InRunq, Queued
<1>4. \A u \in Task : Accounted(u) => Accounted(u)'
    BY <1>3 DEF Accounted
<1> QED  BY <1>1, <1>2, <1>3, <1>4, KeepSafe

(* A wake-up of t: it is enqueued, others are not touched. *)
LEMMA EnqueueSafe ==
    ASSUME TypeOK, Safe, pc # "panic", Polling' = Polling, NEW t \in Task, Enqueue(t),
           UNCHANGED <<status, gen, born, aborted, waiter, output>>,
           \A u \in Task : u # t => woken'[u] = woken[u],
           \A u \in Task : u # t /\ u \in Range(pipe) => u \in Range(pipe'),
           \A u \in Task : u # t /\ after = u => after' = u
    PROVE  Safe'
<1>1. RunQueues
    BY DEF Safe, Placement
<1>2. /\ sleepq' = IF status[t] = "done" THEN sleepq ELSE sleepq \ {t}
      /\ RunQueues'
      /\ \A u \in Task : InRunq(u)' <=> InRunq(u) \/ (u = t /\ status[t] # "done")
    BY <1>1, EnqueueFacts
<1>3. \A u \in Task : Queued(u) => Queued(u)'
    BY <1>2 DEF Queued
<1>4. \A u \in Task : Unfinished(u) => (u = t => InRunq(u)') /\ (InRunq(u) => InRunq(u)')
    BY <1>2 DEF Unfinished
<1>5. \A u \in Task : Unfinished(u) /\ (u = t \/ Accounted(u)) => Accounted(u)'
    BY <1>4 DEF Accounted
<1>6. \A u \in Task : u # t => woken'[u] = woken[u]
    OBVIOUS
<1>7. sleepq' \subseteq sleepq
    BY <1>2
<1> QED  BY <1>2, <1>3, <1>5, <1>6, <1>7, KeepSafe

(* The operations of user code. *)
LEMMA UserSafe ==
    ASSUME TypeOK, CallStack, EventLoop, Safe, UserStep
    PROVE  Safe'
<1>1. /\ RunQueues
      /\ \A u \in sleepq : u \in Task /\ status[u] = "started" /\ u \notin Polling
    BY DEF Safe, Placement, TypeOK
<1>2. /\ status \in [Task -> {"unborn", "fresh", "started", "done"}]
      /\ born \in [Task -> Nat] /\ woken \in [Task -> BOOLEAN]
      /\ output \in [Task -> BOOLEAN]
      /\ waiter \in [Task -> Task \cup {NoTask, "block"}]
    BY DEF TypeOK
<1>3. pc = "user" => after = NoTask /\ NoTask \notin Task
    BY MarkFacts DEF EventLoop
<1> USE DEF control, tasks, fds, chan, history
<1>4. ASSUME NEW t \in Task, Spawn(t)
      PROVE  Safe'
    <2>1. /\ pc = "user" /\ pc' = "user" /\ status[t] = "unborn" /\ Enqueue(t)
          /\ frames' = frames
          /\ \A u \in Task : u # t => status'[u] = status[u] /\ born'[u] = born[u]
          /\ status'[t] = "fresh"
          /\ UNCHANGED <<output, waiter, pipe, after, gen, aborted, woken>>
        BY <1>2, <1>4 DEF Spawn
    <2>2. /\ sleepq' = sleepq \ {t} /\ RunQueues'
          /\ \A u \in Task : InRunq(u)' <=> InRunq(u) \/ u = t
        BY <1>1, <2>1, EnqueueFacts
    <2>3. Polling' = Polling
        BY <2>1, SameShape
    <2>4. \A u \in Task : u # t => Unfinished(u)' = Unfinished(u) /\ Current(u)' = Current(u)
        BY <2>1 DEF Unfinished, Current
    <2>5. Placement'
        BY <1>1, <2>1, <2>2, <2>3 DEF Placement
    <2>6. TaskConservation'
        BY <2>1, <2>2, <2>3, <2>4 DEF Safe, TaskConservation, Queued
    <2>7. NoLostWake'
        BY <2>1, <2>2, <2>4 DEF Safe, NoLostWake
    <2>8. AwaiterNotStranded'
        BY <2>1 DEF Safe, AwaiterNotStranded
    <2> QED  BY <2>5, <2>6, <2>7, <2>8 DEF Safe
<1>5. ASSUME NEW t \in Task, Abort(t)
      PROVE  Safe'
    <2>1. /\ pc = "user" /\ Release(t) /\ frames' = frames
          /\ aborted' = IF Unfinished(t) /\ t \notin Polling THEN aborted \cup {t} ELSE aborted
          /\ woken'[t] = FALSE /\ \A u \in Task : u # t => woken'[u] = woken[u]
          /\ UNCHANGED <<status, output, waiter, pipe, after, gen, born>>
        BY <1>2, <1>5 DEF Abort
    <2>2. /\ sleepq' = sleepq \ {t} /\ RunQueues'
          /\ \A u \in Task : InRunq(u)' <=> InRunq(u) /\ u # t
        BY <1>1, <2>1, ReleaseFacts
    <2>3. Polling' = Polling
        BY <2>1, SameShape
    <2>4. \A u \in Task : u \notin aborted' /\ Unfinished(u) /\ Queued(u)
                              => Queued(u)' \/ u \in Polling
        BY <2>1, <2>2 DEF Queued
    <2>5. \A u \in Task : u # t /\ Accounted(u) => Accounted(u)'
        BY <2>1, <2>2 DEF Accounted
    <2>6. aborted \subseteq aborted' /\ sleepq' \subseteq sleepq /\ pc # "panic"
        BY <2>1, <2>2
    <2>7. \A u \in Task : woken'[u] => u # t /\ woken[u]
        BY <2>1
    <2> QED  BY <2>1, <2>2, <2>3, <2>4, <2>5, <2>6, <2>7, KeepSafe
<1>6. ASSUME NEW t \in Task, TakeOutput(t) \/ AwaitHandle(t)
      PROVE  Safe'
    <2>1. /\ pc # "panic" /\ frames' = frames /\ UNCHANGED queues
          /\ UNCHANGED <<status, gen, born, aborted, woken, pipe, after>>
        BY <1>6 DEF TakeOutput, AwaitHandle
    <2>2. \A u \in Task : output'[u] /\ waiter'[u] # NoTask => output[u] /\ waiter[u] # NoTask
        BY <1>2, <1>6 DEF TakeOutput, AwaitHandle
    <2> QED  BY <2>1, <2>2, SameShape, QuietSafe
<1>7. ASSUME NEW t \in Task, DropHandle(t) \/ HandlePanics(t)
      PROVE  Safe'
    <2>1. /\ pc # "panic" /\ frames' = frames /\ UNCHANGED queues
          /\ UNCHANGED <<status, gen, born, aborted, woken, pipe, after, output, waiter>>
        BY <1>7 DEF DropHandle, HandlePanics
    <2> QED  BY <2>1, SameShape, QuietSafe
<1>8. ASSUME NEW t \in Task, WakeLocal(t)
      PROVE  Safe'
    <2>1. /\ pc # "panic" /\ frames' = frames
          /\ UNCHANGED <<status, gen, born, aborted, pipe, after, output, waiter>>
        BY <1>8 DEF WakeLocal
    <2>2. CASE Enqueue(t) /\ woken' = [woken EXCEPT ![t] = TRUE]
        <3>1. \A u \in Task : u # t => woken'[u] = woken[u]
            BY <1>2, <2>2
        <3> QED  BY <2>1, <2>2, <3>1, SameShape, EnqueueSafe
    <2>3. CASE UNCHANGED <<queues, woken>>
        BY <2>1, <2>3, SameShape, QuietSafe
    <2> QED  BY <1>8, <2>2, <2>3 DEF WakeLocal, WakeIdle
<1>9. ASSUME NEW t \in Task, WakeRunning(t)
      PROVE  Safe'
    <2>1. /\ pc = "user" /\ frames' = frames /\ UNCHANGED queues
          /\ UNCHANGED <<status, gen, born, aborted, woken, pipe, output, waiter>>
        BY <1>9 DEF WakeRunning
    <2> QED  BY <1>3, <2>1, SameShape, QuietSafe
<1>10. CASE \/ \E i \in DOMAIN frames : WakeBlock(i)
            \/ \E f \in Fd : ParkOnFd(f)
            \/ RequestShutdown
    <2>1. /\ pc # "panic" /\ frames' = frames /\ UNCHANGED queues
          /\ UNCHANGED <<status, gen, born, aborted, woken, pipe, after, output, waiter>>
        BY <1>10 DEF WakeBlock, ParkOnFd, RequestShutdown
    <2> QED  BY <2>1, SameShape, QuietSafe
<1>11. CASE Run \/ BlockOn
    <2>1. /\ pc # "panic" /\ UNCHANGED queues
          /\ UNCHANGED <<status, gen, born, aborted, woken, pipe, after, output, waiter>>
        BY <1>11 DEF Run, BlockOn
    <2>2. Polling' = Polling
        <3>1. Run => frames' = Append(frames, "run")
            BY DEF Run
        <3>2. BlockOn => frames' = Append(frames, "block")
            BY DEF BlockOn
        <3> QED  BY <1>11, <3>1, <3>2, PushFacts, MarkFacts DEF Frame
    <2> QED  BY <2>1, <2>2, QuietSafe
<1> QED  BY <1>4, <1>5, <1>6, <1>7, <1>8, <1>9, <1>10, <1>11 DEF UserStep

(* How polls end. *)
LEMMA PollEndsSafe ==
    ASSUME TypeOK, CallStack, EventLoop, Safe, PollEnds
    PROVE  Safe'
<1>1. /\ RunQueues /\ sleepq \subseteq Task
      /\ \A u \in sleepq : status[u] = "started" /\ u \notin Polling
    BY DEF Safe, Placement, TypeOK
<1>2. \A u \in Polling : u \in Task /\ status[u] = "started"
    BY DEF CallStack, Polling
<1>3. Me \in Task => Me # "main" /\ Me \in Polling
    BY StackFacts, MarkFacts
<1> USE DEF control, queues, tasks, fds, chan, history
<1>4. CASE TaskPending
    <2>1. /\ pc = "user" /\ pc' = "ran" /\ Me \in Task /\ frames' = Front(frames)
          /\ sleepq' = IF Queued(Me) THEN sleepq ELSE sleepq \cup {Me}
          /\ UNCHANGED <<runq, status, output, waiter, pipe, after, gen, born, aborted, woken>>
        BY <1>4 DEF TaskPending
    <2>2. Polling' = Polling \ {Me}
        BY <1>3, <2>1, PopFacts
    <2>3. /\ \A u \in Task : InRunq(u)' = InRunq(u)
          /\ \A u \in Task : Unfinished(u)' = Unfinished(u) /\ Current(u)' = Current(u)
        BY <2>1 DEF InRunq, Unfinished, Current
    <2>4. \A u \in Task : Queued(u) \/ u = Me => Queued(u)'
        BY <2>1, <2>3 DEF Queued
    <2>5. RunQueues'
        <3>1. QueueMove
            BY <2>1 DEF QueueMove, queues
        <3> QED  BY <1>1, <3>1, QueuesTyped
    <2>6. Placement'
        BY <1>1, <1>2, <1>3, <2>1, <2>2, <2>5 DEF Placement
    <2>7. TaskConservation'
        BY <2>1, <2>2, <2>3, <2>4 DEF Safe, TaskConservation
    <2>8. NoLostWake'
        BY <2>1, <2>3 DEF Safe, NoLostWake
    <2>9. AwaiterNotStranded'
        BY <2>1 DEF Safe, AwaiterNotStranded
    <2> QED  BY <2>6, <2>7, <2>8, <2>9 DEF Safe
<1>5. CASE TaskReady
    <2>1. /\ pc = "user" /\ Me \in Task /\ frames' = frames
          /\ \A u \in Task : u # Me => output'[u] = output[u]
          /\ UNCHANGED <<runq, sleepq, status, waiter, pipe, after, gen, born, aborted, woken>>
        BY <1>5 DEF TaskReady, TypeOK
    <2>2. status[Me] # "done"
        BY <1>2, <1>3, <2>1
    <2>3. RunQueues' /\ \A u \in Task : InRunq(u)' = InRunq(u)
        BY <1>1, <2>1 DEF RunQueues, InRunq
    <2>4. \A u \in Task : Queued(u) => Queued(u)'
        BY <2>1, <2>3 DEF Queued
    <2>5. \A u \in Task : Accounted(u) => Accounted(u)'
        BY <2>1, <2>3 DEF Accounted
    <2>6. Polling' = Polling
        BY <2>1, SameShape
    <2> QED  BY <2>1, <2>2, <2>3, <2>4, <2>5, <2>6, KeepSafe
<1>6. CASE BlockPending
    <2>1. /\ pc = "user" /\ frames' = frames
          /\ UNCHANGED <<queues, status, output, waiter, pipe, after, gen, born, aborted, woken>>
        BY <1>6 DEF BlockPending
    <2> QED  BY <2>1, SameShape, QuietSafe
<1>7. CASE BlockReady
    <2>1. /\ pc = "user" /\ Me = "block" /\ frames' = Front(frames)
          /\ UNCHANGED <<queues, status, output, waiter, pipe, after, gen, born, aborted, woken>>
        BY <1>7 DEF BlockReady
    <2>2. Polling' = Polling
        <3>1. Me \notin Polling
            BY <2>1, MarkFacts DEF Polling
        <3> QED  BY <2>1, <3>1, PopFacts
    <2> QED  BY <2>1, <2>2, QuietSafe
<1> QED  BY <1>4, <1>5, <1>6, <1>7 DEF PollEnds

(* The event loops. *)
LEMMA EventsSafe ==
    ASSUME TypeOK, CallStack, EventLoop, Safe,
           \/ FinishWakesRunning \/ CheckEvents \/ WakeUp \/ Sleep \/ Interrupted \/ RunFails
           \/ \E f \in Fd : HandleFd(f)
           \/ WakeFromPipe \/ EventsHandled
    PROVE  Safe'
<1>1. RunQueues /\ sleepq \subseteq Task
    BY DEF Safe, Placement, TypeOK
<1>2. NoTask \notin Task /\ (pc # "events" => after = NoTask)
    BY MarkFacts DEF EventLoop
<1>3. woken \in [Task -> BOOLEAN] /\ waiter \in [Task -> Task \cup {NoTask, "block"}]
    BY DEF TypeOK
<1> USE DEF control, tasks, fds, chan, history
<1>4. CASE FinishWakesRunning
    <2>1. /\ pc = "finish" /\ frames' = frames /\ UNCHANGED queues
          /\ waiter' = [waiter EXCEPT ![Me] = NoTask]
          /\ UNCHANGED <<status, output, pipe, gen, born, aborted, woken>>
        BY <1>4 DEF FinishWakesRunning
    <2>2. after \notin Task
        BY <1>2, <2>1
    <2>3. \A u \in Task : waiter'[u] # NoTask => waiter'[u] = waiter[u]
        BY <1>3, <2>1
    <2>4. \A u \in Task : ~(woken[u] /\ Unfinished(u) /\ Current(u) /\ u \notin aborted
                                /\ after = u)
        BY <2>2
    <2>5. /\ RunQueues' /\ sleepq' = sleepq
          /\ \A u \in Task : InRunq(u)' = InRunq(u) /\ Queued(u)' = Queued(u)
        BY <1>1, <2>1 DEF queues, InRunq, Queued, RunQueues
    <2>6. \A u \in Task : Accounted(u) => Accounted(u)'
        BY <2>1, <2>2, <2>5 DEF Accounted
    <2> QED  BY <2>1, <2>3, <2>5, <2>6, SameShape, KeepSafe
<1>5. CASE CheckEvents \/ WakeUp \/ Sleep \/ Interrupted
    <2>1. /\ pc # "panic" /\ pc # "events" /\ frames' = frames /\ UNCHANGED queues
          /\ UNCHANGED <<status, output, waiter, pipe, gen, born, aborted, woken>>
          /\ after' = after \/ after' = NoTask
        BY <1>5 DEF CheckEvents, WakeUp, Sleep, Interrupted, Harvest
    <2> QED  BY <1>2, <2>1, SameShape, QuietSafe
<1>6. ASSUME NEW f \in Fd, HandleFd(f)
      PROVE  Safe'
    <2> DEFINE t == parked[f]
    <2>1. /\ pc # "panic" /\ frames' = frames
          /\ UNCHANGED <<status, output, waiter, pipe, after, gen, born, aborted>>
        BY <1>6 DEF HandleFd
    <2>2. ASSUME t \in Task, Enqueue(t), woken' = [woken EXCEPT ![t] = TRUE]
          PROVE  Safe'
        <3> HIDE DEF t
        <3>1. \A u \in Task : u # t => woken'[u] = woken[u]
            BY <1>3, <2>2
        <3> QED  BY <2>1, <2>2, <3>1, SameShape, EnqueueSafe
    <2>3. ASSUME UNCHANGED <<queues, woken>>
          PROVE  Safe'
        BY <2>1, <2>3, SameShape, QuietSafe
    <2> QED  BY <1>6, <2>2, <2>3 DEF HandleFd
<1>7. CASE WakeFromPipe
    <2> DEFINE h == Head(pipe)
    <2>1. /\ pc # "panic" /\ frames' = frames /\ pipe # <<>> /\ pipe' = Tail(pipe)
          /\ UNCHANGED <<status, output, waiter, after, gen, born, aborted, woken>>
        BY <1>7 DEF WakeFromPipe, EventLoop
    <2>2. \A u : u \in Range(pipe) => u = h \/ u \in Range(pipe')
        BY <2>1, TailFacts DEF TypeOK
    <2>3. Polling' = Polling
        BY <2>1, SameShape
    <2>4. CASE h \in Task /\ Enqueue(h)
        <3> HIDE DEF h
        <3> QED  BY <2>1, <2>2, <2>3, <2>4, EnqueueSafe
    <2>5. CASE ~(h \in Task /\ Alive(h)) /\ UNCHANGED queues
        <3>1. /\ RunQueues' /\ sleepq' = sleepq
              /\ \A u \in Task : InRunq(u)' = InRunq(u) /\ Queued(u)' = Queued(u)
            BY <1>1, <2>5 DEF queues, InRunq, Queued, RunQueues
        <3>2. \A u \in Task : /\ Unfinished(u) /\ Current(u) /\ u \notin aborted
                              /\ Accounted(u)
                              => Accounted(u)'
            BY <2>1, <2>2, <2>5, <3>1 DEF Safe, TaskConservation, Alive, Accounted
        <3> HIDE DEF h
        <3>3. \A u \in Task : /\ woken'[u] /\ Unfinished(u) /\ Current(u) /\ u \notin aborted'
                              /\ woken[u] => Accounted(u)
                              => Accounted(u)'
            BY <2>1, <3>2
        <3> QED  BY <2>1, <2>3, <3>1, <3>3, KeepSafe
    <2> QED  BY <1>7, <2>4, <2>5 DEF WakeFromPipe
<1>8. CASE EventsHandled
    <2>1. /\ pc # "panic" /\ frames' = frames /\ after' = NoTask
          /\ UNCHANGED <<status, output, waiter, pipe, gen, born, aborted>>
        BY <1>8 DEF EventsHandled
    <2>2. CASE after \in Task
        <3>1. Enqueue(after) /\ \A u \in Task : u # after => woken'[u] = woken[u]
            BY <1>3, <1>8, <2>2 DEF EventsHandled
        <3> QED  BY <2>1, <2>2, <3>1, SameShape, EnqueueSafe
    <2>3. CASE after \notin Task
        <3>1. UNCHANGED <<queues, woken>>
            BY <1>8, <2>3 DEF EventsHandled
        <3> QED  BY <2>1, <2>3, <3>1, SameShape, QuietSafe
    <2> QED  BY <2>2, <2>3
<1>9. CASE RunFails
    <2>1. /\ pc # "panic" /\ UNCHANGED queues
          /\ UNCHANGED <<status, output, waiter, pipe, gen, born, aborted, woken>>
          /\ after' = after
        BY <1>9 DEF RunFails
    <2> QED  BY <1>9, <2>1, RunFailsFacts, QuietSafe
<1> QED  BY <1>4, <1>5, <1>6, <1>7, <1>8, <1>9

(* run_task, and the end of run(). *)
LEMMA RunSafe ==
    ASSUME TypeOK, CallStack, EventLoop, Safe,
           Finish \/ PollTask \/ PollPanics \/ ShutDown \/ AllDone
    PROVE  Safe'
<1>1. /\ RunQueues /\ sleepq \subseteq Task
      /\ \A u \in sleepq : status[u] = "started" /\ u \notin Polling
    BY DEF Safe, Placement, TypeOK
<1>2. \A u \in Polling : u \in Task /\ status[u] = "started"
    BY DEF CallStack, Polling
<1>3. /\ status \in [Task -> {"unborn", "fresh", "started", "done"}]
      /\ woken \in [Task -> BOOLEAN]
      /\ waiter \in [Task -> Task \cup {NoTask, "block"}]
      /\ gen \in Nat /\ born \in [Task -> Nat]
    BY DEF TypeOK
<1> USE DEF control, tasks, fds, chan, history
<1>4. CASE Finish
    <2>1. Me \in Task /\ Me \in Polling /\ Me # "main"
        BY <1>4, StackFacts, MarkFacts DEF Finish, CallStack
    <2>2. PICK m \in Task : m = Me
        BY <2>1
    <2>3. /\ pc = "finish" /\ pc' = "ran" /\ frames' = Front(frames)
          /\ waiter' = [waiter EXCEPT ![m] = NoTask]
          /\ status' = [status EXCEPT ![m] = "done"]
          /\ waiter[m] \notin Polling
          /\ UNCHANGED <<output, pipe, after, gen, born, aborted>>
        BY <1>4, <2>2 DEF Finish
    <2>4. Polling' = Polling \ {m}
        BY <2>1, <2>2, <2>3, PopFacts
    <2>5. \/ UNCHANGED <<queues, woken>>
          \/ \E w \in Task \ {m} : Enqueue(w) /\ woken' = [woken EXCEPT ![w] = TRUE]
        BY <1>4, <2>1, <2>2, <2>3 DEF Finish, WakeIdle
    <2>6. /\ RunQueues' /\ sleepq' \subseteq sleepq
          /\ \A u \in Task : u # m /\ Unfinished(u) /\ Queued(u) => Queued(u)'
          /\ \A u \in Task : /\ u # m /\ Unfinished(u)
                             => /\ InRunq(u) => InRunq(u)'
                                /\ woken'[u] => woken[u] \/ InRunq(u)'
        <3>1. CASE UNCHANGED <<queues, woken>>
            BY <1>1, <3>1 DEF queues, RunQueues, InRunq, Queued
        <3>2. ASSUME NEW w \in Task \ {m}, Enqueue(w), woken' = [woken EXCEPT ![w] = TRUE]
              PROVE  <2>6!:
            <4>1. /\ sleepq' = IF status[w] = "done" THEN sleepq ELSE sleepq \ {w}
                  /\ RunQueues'
                  /\ \A u \in Task : InRunq(u)' <=> InRunq(u) \/ (u = w /\ status[w] # "done")
                BY <1>1, <3>2, EnqueueFacts
            <4>2. \A u \in Task : u # w => woken'[u] = woken[u]
                BY <1>3, <3>2
            <4> QED  BY <4>1, <4>2 DEF Queued, Unfinished
        <3> QED  BY <2>5, <3>1, <3>2
    <2>7. /\ \A u \in Task : u # m => Unfinished(u)' = Unfinished(u) /\ Current(u)' = Current(u)
          /\ ~Unfinished(m)'
        BY <1>3, <2>3 DEF Unfinished, Current
    <2>8. Placement'
        BY <1>1, <1>3, <2>1, <2>2, <2>3, <2>4, <2>6 DEF Placement
    <2>9. TaskConservation'
        BY <2>3, <2>4, <2>6, <2>7 DEF Safe, TaskConservation
    <2>10. NoLostWake'
        BY <2>3, <2>6, <2>7 DEF Safe, NoLostWake
    <2>11. AwaiterNotStranded'
        BY <1>3, <2>3 DEF Safe, AwaiterNotStranded
    <2> QED  BY <2>8, <2>9, <2>10, <2>11 DEF Safe
<1>5. CASE PollTask
    <2>1. NextTask \in Task /\ NextTask \notin sleepq
        BY <1>1, <1>5, NextTaskFacts DEF PollTask, InRunq, RunQueues
    <2>2. PICK n \in Task : n = NextTask
        BY <2>1
    <2>3. /\ pc = "pick" /\ pc' = "user" /\ frames' = Append(frames, n) /\ sleepq' = sleepq
          /\ status' = [status EXCEPT ![n] = "started"]
          /\ woken' = [woken EXCEPT ![n] = FALSE]
          /\ status[n] # "done" /\ n \notin sleepq
          /\ UNCHANGED <<output, waiter, pipe, after, gen, born, aborted>>
        BY <1>5, <2>1, <2>2 DEF PollTask, MayPoll
    <2>4. Polling' = Polling \cup {n}
        BY <2>3, PushFacts DEF Frame
    <2>5. RunQueues' /\ \A u \in Task : InRunq(u)' <=> InRunq(u) /\ u # n
        BY <1>1, <1>5, <2>2, PopTaskFacts DEF PollTask
    <2>6. \A u \in Task : u # n => /\ Unfinished(u)' = Unfinished(u) /\ Current(u)' = Current(u)
                                   /\ Queued(u)' = Queued(u) /\ woken'[u] = woken[u]
        BY <1>3, <2>3, <2>5 DEF Unfinished, Current, Queued
    <2>7. Placement'
        BY <1>1, <1>3, <2>3, <2>4, <2>5 DEF Placement
    <2>8. TaskConservation'
        BY <2>3, <2>4, <2>6 DEF Safe, TaskConservation
    <2>9. NoLostWake'
        <3>1. woken'[n] = FALSE
            BY <1>3, <2>3
        <3> QED  BY <2>3, <2>5, <2>6, <3>1 DEF Safe, NoLostWake
    <2>10. AwaiterNotStranded'
        BY <1>3, <2>3 DEF Safe, AwaiterNotStranded
    <2> QED  BY <2>7, <2>8, <2>9, <2>10 DEF Safe
<1>6. CASE PollPanics
    <2>1. /\ pc = "pick" /\ pc' = "panic" /\ frames' = frames /\ sleepq' = sleepq
          /\ NextTask \in Polling \/ status[NextTask] = "done"
          /\ UNCHANGED <<status, output, waiter, pipe, after, gen, born, aborted, woken>>
        BY <1>6 DEF PollPanics, MayPoll
    <2>2. RunQueues' /\ \A u \in Task : InRunq(u)' <=> InRunq(u) /\ u # NextTask
        BY <1>1, <1>6, PopTaskFacts DEF PollPanics
    <2>3. \A u \in Task : u \notin aborted' /\ Unfinished(u) /\ Queued(u) => Queued(u)' \/ u \in Polling
        BY <2>1, <2>2 DEF Queued, Unfinished
    <2> QED  BY <2>1, <2>2, <2>3, SameShape, KeepSafe
<1>7. CASE ShutDown \/ AllDone
    <2>1. Replace
        BY <1>7 DEF ShutDown, AllDone
    <2>2. /\ runq' = [p \in Priority |-> <<>>] /\ sleepq' = {}
          /\ gen' = gen + 1 /\ UNCHANGED <<status, output, waiter, born>>
        BY <2>1 DEF Replace
    <2>3. \A u \in Task : ~Current(u)'
        BY <1>3, <2>2 DEF Current, EventLoop
    <2>4. Placement'
        <3>1. Range(<<>>) = {} /\ IsInjective(<<>>)
            BY EmptyFacts
        <3>2. \A p \in Priority : runq'[p] = <<>>
            BY <2>2
        <3> QED  BY <2>2, <3>1, <3>2 DEF Placement, RunQueues
    <2>5. TaskConservation' /\ NoLostWake'
        BY <2>3 DEF TaskConservation, NoLostWake
    <2>6. AwaiterNotStranded'
        BY <2>2 DEF Safe, AwaiterNotStranded
    <2> QED  BY <2>4, <2>5, <2>6 DEF Safe
<1> QED  BY <1>4, <1>5, <1>6, <1>7

(* The kernel and the other threads. *)
LEMMA OutsideSafe ==
    ASSUME TypeOK, CallStack, EventLoop, Safe, Outside
    PROVE  Safe'
<1>1. RunQueues
    BY DEF Safe, Placement
<1> USE DEF control, tasks, fds, chan, history
<1>2. ASSUME NEW f \in Fd, KernelEdge(f)
      PROVE  Safe'
    <2>1. /\ pc # "panic" /\ frames' = frames /\ UNCHANGED queues
          /\ UNCHANGED <<status, gen, born, aborted, woken, pipe, after, output, waiter>>
        BY <1>2 DEF KernelEdge
    <2> QED  BY <2>1, SameShape, QuietSafe
<1>3. ASSUME NEW x \in Task \cup {"null"}, pipe' = Append(pipe, x), pc # "panic",
             UNCHANGED <<frames, queues, status, gen, born, aborted, after, output, waiter>>,
             \A u \in Task : u # x => woken'[u] = woken[u]
      PROVE  Safe'
    <2>1. \A u : u \in Range(pipe') <=> u \in Range(pipe) \/ u = x
        <3>1. pipe \in Seq(Task \cup {"null"})
            BY DEF TypeOK
        <3>2. Range(pipe') = Range(pipe) \cup {x}
            BY <1>3, <3>1, AppendFacts
        <3> QED  BY <3>2
    <2>2. /\ RunQueues' /\ sleepq' = sleepq
          /\ \A u \in Task : InRunq(u)' = InRunq(u) /\ Queued(u)' = Queued(u)
        BY <1>1, <1>3 DEF queues, InRunq, Queued, RunQueues
    <2>3. \A u \in Task : u = x \/ Accounted(u) => Accounted(u)'
        BY <1>3, <2>1, <2>2 DEF Accounted
    <2>4. \A u \in Task : woken'[u] => u = x \/ woken[u]
        BY <1>3
    <2> QED  BY <1>3, <2>2, <2>3, <2>4, SameShape, KeepSafe
<1>4. ASSUME NEW t \in Task, WakeRemote(t)
      PROVE  Safe'
    <2>1. \A u \in Task : u # t => woken'[u] = woken[u]
        BY <1>4 DEF WakeRemote, TypeOK
    <2>2. /\ pipe' = Append(pipe, t) /\ pc # "panic"
          /\ UNCHANGED <<frames, queues, status, gen, born, aborted, after, output, waiter>>
        BY <1>4 DEF WakeRemote
    <2> QED  BY <1>3, <2>1, <2>2
<1>5. ASSUME NEW i \in DOMAIN frames, WakeBlockRemote(i)
      PROVE  Safe'
    <2>1. /\ pipe' = Append(pipe, "null") /\ pc # "panic" /\ woken' = woken
          /\ UNCHANGED <<frames, queues, status, gen, born, aborted, after, output, waiter>>
        BY <1>5 DEF WakeBlockRemote
    <2> QED  BY <1>3, <2>1
<1> QED  BY <1>2, <1>4, <1>5 DEF Outside

LEMMA SafeStep ==
    ASSUME TypeOK, CallStack, EventLoop, Safe, [Next]_vars
    PROVE  Safe'
<1>1. CASE UNCHANGED vars
    BY <1>1 DEF vars, control, queues, tasks, fds, chan, history, Safe, Placement,
                RunQueues, TaskConservation, NoLostWake, AwaiterNotStranded, Polling,
                Unfinished, Current, Queued, InRunq
<1>2. CASE LoopStep
    BY <1>2, RunSafe, EventsSafe DEF LoopStep
<1> QED  BY <1>1, <1>2, UserSafe, PollEndsSafe, OutsideSafe DEF Next
-----------------------------------------------------------------------------
(* The theorems. *)

LEMMA IInvSplit == IInv <=> TypeOK /\ CallStack /\ EventLoop /\ Safe
BY DEF IInv, Safe

LEMMA InitInvariant == Init => IInv
<1> SUFFICES ASSUME Init
             PROVE  IInv
    OBVIOUS
<1>1. TypeOK
    BY InitType
<1>2. /\ Range(<<>>) = {} /\ Len(<<>>) = 0 /\ IsInjective(<<>>)
    BY EmptyFacts
<1>3. Me = "main" /\ Polling = {}
    BY <1>2 DEF Init, Me, Polling
<1>4. CallStack
    BY <1>2, <1>3 DEF Init, CallStack, StackShape
<1>5. EventLoop
    BY DEF Init, EventLoop
<1>6. Placement
    <2>1. \A p \in Priority : runq[p] = <<>>
        BY DEF Init
    <2> QED  BY <1>2, <2>1 DEF Init, Placement, RunQueues
<1>7. TaskConservation /\ NoLostWake /\ AwaiterNotStranded
    BY DEF Init, TaskConservation, NoLostWake, AwaiterNotStranded, Unfinished
<1> QED  BY <1>1, <1>4, <1>5, <1>6, <1>7 DEF IInv

LEMMA NextInvariant == IInv /\ [Next]_vars => IInv'
<1> SUFFICES ASSUME IInv, [Next]_vars
             PROVE  IInv'
    OBVIOUS
<1>1. TypeOK /\ CallStack /\ EventLoop /\ Safe /\ RunQueues
    BY DEF IInv, Safe, Placement
<1>2. TypeOK'
    BY <1>1, TypeStep
<1>3. CallStack' /\ EventLoop'
    BY <1>1, StackStep
<1>4. Safe'
    BY <1>1, SafeStep
<1> QED  BY <1>2, <1>3, <1>4 DEF IInv, Safe

(* What the loops rely on at each of their steps holds in every state:     *)
(* the types, the shape of the call stack (run, block_on, run_task), what  *)
(* epoll_wait has left to do, and the four safety properties together.     *)
THEOREM Invariant == Spec => []IInv
<1> QED  BY InitInvariant, NextInvariant, PTL DEF Spec

(* Every variable keeps its type: in particular only tasks are queued, and *)
(* only tasks, block_on and nobody are parked on a handle or an fd.        *)
THEOREM TypeCorrect == Spec => []TypeOK
<1>1. IInv => TypeOK
    BY DEF IInv
<1> QED  BY <1>1, Invariant, PTL

(* Executor queues and enqueue: a task is queued at most once, on the run  *)
(* queue of its priority or asleep, and no completed or running task sleeps.*)
THEOREM PlacementHolds == Spec => []Placement
<1>1. IInv => Placement
    BY DEF IInv
<1> QED  BY <1>1, Invariant, PTL

(* run_task and enqueue: however polls, wakes, aborts and nested block_on  *)
(* loops interleave, an executor never loses an unfinished task.           *)
THEOREM NoTaskLost == Spec => []TaskConservation
<1>1. IInv => TaskConservation
    BY DEF IInv
<1> QED  BY <1>1, Invariant, PTL

(* task_waker::wake, epoll_wait, wake_from_pipe and run_task: a task woken *)
(* from anywhere since its last poll began is still on its way to another. *)
THEOREM NoWakeLost == Spec => []NoLostWake
<1>1. IInv => NoLostWake
    BY DEF IInv
<1> QED  BY <1>1, Invariant, PTL

(* Handle::poll and run_task: no waker stays on the handle of a task whose *)
(* output is there to be taken.                                            *)
THEOREM NoAwaiterStranded == Spec => []AwaiterNotStranded
<1>1. IInv => AwaiterNotStranded
    BY DEF IInv
<1> QED  BY <1>1, Invariant, PTL
-----------------------------------------------------------------------------
(* The end of run(). *)

LEMMA RunEnds ==
    ASSUME IInv, Next, gen' # gen
    PROVE  shutdown \/ AllDone
<1>1. ~UserStep
    BY DEF UserStep, history, Spawn, DropHandle, Abort, TakeOutput, AwaitHandle, HandlePanics,
           WakeLocal, WakeRunning, WakeBlock, ParkOnFd, RequestShutdown, Run, BlockOn
<1>2. ~PollEnds
    BY DEF PollEnds, history, TaskPending, TaskReady, BlockPending, BlockReady
<1>3. ~Outside
    BY DEF Outside, history, KernelEdge, WakeRemote, WakeBlockRemote
<1>4. LoopStep => AllDone \/ ShutDown
    BY DEF LoopStep, history, Finish, FinishWakesRunning, PollTask, PollPanics, CheckEvents,
           Sleep, WakeUp, Interrupted, RunFails, HandleFd, WakeFromPipe, EventsHandled
<1>5. LoopStep => AllDone \/ shutdown
    BY <1>4 DEF ShutDown
<1> QED  BY <1>1, <1>2, <1>3, <1>5 DEF Next

(* run(): "until no futures are pending" (executor.rs:677): without a      *)
(* shutdown request it returns only once every task spawned on its         *)
(* executor has completed or been aborted.                                 *)
THEOREM RunCompletes == Spec => RunsToCompletion
<1>1. IInv /\ [Next]_vars =>
          [gen' # gen /\ ~shutdown =>
              \A t \in Task : Unfinished(t) /\ Current(t) => t \in aborted]_vars
    <2> SUFFICES ASSUME IInv, Next, gen' # gen, ~shutdown,
                        NEW t \in Task, Unfinished(t), Current(t), t \notin aborted
                 PROVE  FALSE
        BY DEF vars, history
    <2>1. Runnable = {} /\ sleepq = {} /\ Me = "run"
        BY RunEnds DEF AllDone
    <2>2. Polling = {}
        BY <2>1, RunIsBottom DEF IInv
    <2>3. ~InRunq(t)
        <3>1. PrioOf[t] \in Priority
            BY PrioOfType
        <3>2. runq[PrioOf[t]] = <<>>
            BY <2>1, <3>1 DEF Runnable
        <3> QED  BY <3>2, EmptyFacts DEF InRunq
    <2> QED  BY <2>1, <2>2, <2>3 DEF IInv, TaskConservation, Queued
<1> QED  BY <1>1, Invariant, PTL DEF Spec, RunsToCompletion
-----------------------------------------------------------------------------
(* A replaced executor's tasks.                                            *)

\* Where the executor can still find t when it next wakes or polls a task.
Linked(t) ==
    \/ Queued(t) \/ t \in Polling \/ t \in Range(pipe) \/ after = t
    \/ \E f \in Fd : parked[f] = t

\* A task the executor can reach has the number of its pipe, which no task
\* of the executor it replaced has.
Mine(t) == status[t] # "unborn" /\ home[t] = pipeNo

Homes ==
    \A t \in Task :
        /\ Linked(t) => Mine(t)
        /\ handle[t] => status[t] # "unborn"
        /\ status[t] # "unborn" /\ born[t] + 1 = gen => home[t] # pipeNo
        /\ status[t] # "unborn" /\ born[t] = gen => home[t] = pipeNo

(* A step that links only tasks that were linked or are the executor's own *)
(* keeps Homes, if it spawns nothing and replaces no executor.             *)
LEMMA HomesKept ==
    ASSUME Homes, UNCHANGED <<gen, pipeNo, born, home>>,
           \A u \in Task : status'[u] = "unborn" <=> status[u] = "unborn",
           \A u \in Task : handle'[u] => handle[u],
           \A u \in Task : Linked(u)' => Linked(u) \/ Mine(u)
    PROVE  Homes'
BY DEF Homes, Mine

LEMMA SameLinks ==
    ASSUME UNCHANGED <<runq, sleepq, parked>>, Polling' \subseteq Polling,
           \A u \in Task : u \in Range(pipe') => u \in Range(pipe) \/ Mine(u),
           after' = after \/ (after' \in Task => Linked(after'))
    PROVE  \A u \in Task : Linked(u)' => Linked(u) \/ Mine(u)
BY DEF Linked, Queued, InRunq

LEMMA EnqueueLinks ==
    ASSUME TypeOK, RunQueues, NEW t \in Task, Enqueue(t), Linked(t) \/ Mine(t),
           parked' = parked, Polling' \subseteq Polling,
           \A u \in Task : u \in Range(pipe') => u \in Range(pipe),
           after' = after \/ after' \notin Task
    PROVE  \A u \in Task : Linked(u)' => Linked(u) \/ Mine(u)
<1>1. \A u \in Task : Queued(u)' => Queued(u) \/ u = t
    BY EnqueueFacts DEF Queued
<1> QED  BY <1>1 DEF Linked

LEMMA UserHomes ==
    ASSUME IInv, Homes, UserStep
    PROVE  Homes'
<1>1. TypeOK /\ RunQueues /\ CallStack /\ EventLoop
    BY DEF IInv, Placement
<1>2. /\ status \in [Task -> {"unborn", "fresh", "started", "done"}]
      /\ born \in [Task -> Nat] /\ home \in [Task -> PipeNo] /\ gen \in Nat
      /\ handle \in [Task -> BOOLEAN]
      /\ parked \in [Fd -> Task \cup {NoTask, "block"}]
    BY <1>1 DEF TypeOK
<1> USE DEF control, queues, tasks, fds, chan, history
<1>3. ASSUME NEW t \in Task, Spawn(t)
      PROVE  Homes'
    <2>1. /\ Enqueue(t) /\ UNCHANGED <<frames, pipe, pipeNo, after, parked, gen>>
          /\ status'[t] = "fresh" /\ home'[t] = pipeNo /\ born'[t] = gen
          /\ \A u \in Task : u # t => /\ status'[u] = status[u] /\ home'[u] = home[u]
                                      /\ born'[u] = born[u] /\ handle'[u] = handle[u]
        BY <1>2, <1>3 DEF Spawn
    <2>2. \A u \in Task : Queued(u)' => Queued(u) \/ u = t
        BY <1>1, <2>1, EnqueueFacts DEF Queued
    <2>3. \A u \in Task : u # t /\ Linked(u)' => Linked(u)
        BY <2>1, <2>2, SameShape DEF Linked
    <2> QED  BY <1>2, <2>1, <2>3 DEF Homes, Mine
<1>4. ASSUME NEW t \in Task, Abort(t)
      PROVE  Homes'
    <2>1. /\ Release(t)
          /\ UNCHANGED <<frames, pipe, pipeNo, after, parked, gen, born, home, status, handle>>
        BY <1>4 DEF Abort
    <2>2. \A u \in Task : Queued(u)' => Queued(u)
        BY <1>1, <2>1, ReleaseFacts DEF Queued
    <2>3. \A u \in Task : Linked(u)' => Linked(u)
        BY <2>1, <2>2, SameShape DEF Linked
    <2> QED  BY <2>1, <2>3, HomesKept
<1>5. ASSUME NEW t \in Task,
             DropHandle(t) \/ TakeOutput(t) \/ AwaitHandle(t) \/ HandlePanics(t)
      PROVE  Homes'
    <2>1. /\ UNCHANGED <<runq, sleepq, frames, pipe, pipeNo, after, parked,
                         gen, born, home, status>>
          /\ \A u \in Task : handle'[u] => handle[u]
        BY <1>2, <1>5 DEF DropHandle, TakeOutput, AwaitHandle, HandlePanics
    <2> QED  BY <2>1, SameShape, SameLinks, HomesKept
<1>6. ASSUME NEW t \in Task, WakeLocal(t)
      PROVE  Homes'
    <2>1. UNCHANGED <<frames, pipe, pipeNo, after, parked, gen, born, home, status, handle>>
        BY <1>6 DEF WakeLocal
    <2>2. CASE home[t] = pipeNo /\ Enqueue(t)
        <3>1. Mine(t)
            BY <1>6, <2>2 DEF WakeLocal, HasWaker, Mine
        <3> QED  BY <1>1, <2>1, <2>2, <3>1, SameShape, EnqueueLinks, HomesKept
    <2>3. CASE UNCHANGED queues
        BY <2>1, <2>3, SameShape, SameLinks, HomesKept
    <2> QED  BY <1>6, <2>2, <2>3 DEF WakeLocal, WakeIdle
<1>7. ASSUME NEW t \in Task, WakeRunning(t)
      PROVE  Homes'
    <2>1. /\ UNCHANGED <<runq, sleepq, frames, pipe, pipeNo, parked, gen, born,
                         home, status, handle>>
          /\ after' = t /\ Linked(t)
        BY <1>7 DEF WakeRunning, Harvest, Linked
    <2> QED  BY <2>1, SameShape, SameLinks, HomesKept
<1>8. CASE (\E i \in DOMAIN frames : WakeBlock(i)) \/ RequestShutdown
    <2>1. UNCHANGED <<runq, sleepq, frames, pipe, pipeNo, after, parked, gen, born,
                      home, status, handle>>
        BY <1>8 DEF WakeBlock, RequestShutdown
    <2> QED  BY <2>1, SameShape, SameLinks, HomesKept
<1>9. ASSUME NEW f \in Fd, ParkOnFd(f)
      PROVE  Homes'
    <2>1. /\ UNCHANGED <<runq, sleepq, frames, pipe, pipeNo, after, gen, born,
                         home, status, handle>>
          /\ \E k \in {NoTask, Me} : parked' = [parked EXCEPT ![f] = k]
        BY <1>9 DEF ParkOnFd
    <2>2. Me \in Task => Linked(Me)
        BY <1>1, StackFacts DEF Linked
    <2>3. \A u \in Task : Linked(u)' => Linked(u)
        <3>1. \A u \in Task, g \in Fd : parked'[g] = u => parked[g] = u \/ u = Me
            BY <1>2, <2>1, MarkFacts
        <3>2. \A u \in Task : Queued(u)' = Queued(u)
            BY <2>1 DEF Queued, InRunq
        <3> QED  BY <2>1, <2>2, <3>1, <3>2, SameShape DEF Linked
    <2> QED  BY <2>1, <2>3, HomesKept
<1>10. CASE Run \/ BlockOn
    <2>1. UNCHANGED <<runq, sleepq, pipe, pipeNo, after, parked, gen, born,
                      home, status, handle>>
        BY <1>10 DEF Run, BlockOn
    <2>2. Polling' = Polling
        <3>1. Run => frames' = Append(frames, "run")
            BY DEF Run
        <3>2. BlockOn => frames' = Append(frames, "block")
            BY DEF BlockOn
        <3> QED  BY <1>1, <1>10, <3>1, <3>2, PushFacts, MarkFacts DEF Frame
    <2> QED  BY <2>1, <2>2, SameLinks, HomesKept
<1> QED  BY <1>3, <1>4, <1>5, <1>6, <1>7, <1>8, <1>9, <1>10 DEF UserStep

LEMMA PollEndsHomes ==
    ASSUME IInv, Homes, PollEnds
    PROVE  Homes'
<1>1. TypeOK /\ CallStack
    BY DEF IInv
<1>2. UNCHANGED <<runq, pipe, pipeNo, after, parked, gen, born, home, status, handle>>
    BY DEF PollEnds, TaskPending, TaskReady, BlockPending, BlockReady,
           control, queues, tasks, fds, chan, history
<1>3. Polling' \subseteq Polling
    <2>1. CASE frames' = frames
        BY <2>1, SameShape
    <2>2. CASE Me # "main" /\ frames' = Front(frames)
        BY <1>1, <2>2, PopFacts
    <2> QED  BY <2>1, <2>2, MarkFacts DEF PollEnds, TaskPending, TaskReady, BlockPending,
                BlockReady, control
<1>4. \A u \in Task : Queued(u)' => Queued(u) \/ u \in Polling
    <2>1. \A u \in Task : u \in sleepq' => u \in sleepq \/ u = Me
        BY DEF PollEnds, TaskPending, TaskReady, BlockPending, BlockReady, queues
    <2> QED  BY <1>1, <1>2, <2>1, StackFacts DEF Queued, InRunq
<1>5. \A u \in Task : Linked(u)' => Linked(u)
    BY <1>2, <1>3, <1>4 DEF Linked
<1> QED  BY <1>2, <1>5, HomesKept

LEMMA LoopHomes ==
    ASSUME IInv, Homes, LoopStep
    PROVE  Homes'
<1>1. TypeOK /\ RunQueues /\ CallStack /\ EventLoop
    BY DEF IInv, Placement
<1>2. /\ status \in [Task -> {"unborn", "fresh", "started", "done"}]
      /\ gen \in Nat /\ born \in [Task -> Nat] /\ home \in [Task -> PipeNo]
    BY <1>1 DEF TypeOK
<1>3. NoTask \notin Task
    BY MarkFacts
<1> USE DEF control, queues, tasks, fds, chan, history
<1>4. CASE Finish
    <2>1. /\ frames' = Front(frames) /\ Me \in Task /\ Me # "main" /\ Me \in Polling
          /\ status' = [status EXCEPT ![Me] = "done"]
          /\ UNCHANGED <<pipe, pipeNo, after, parked, gen, born, home, handle>>
        BY <1>1, <1>4, StackFacts, MarkFacts DEF Finish, CallStack
    <2>2. Polling' \subseteq Polling
        BY <1>1, <2>1, PopFacts
    <2>3. \A u \in Task : status'[u] = "unborn" <=> status[u] = "unborn"
        BY <1>1, <1>2, <2>1 DEF CallStack
    <2>4. ASSUME NEW w \in Task, Alive(w), home[w] = pipeNo, Enqueue(w)
          PROVE  Homes'
        <3>1. Linked(w) \/ Mine(w)
            BY <2>4 DEF Alive, Linked, Mine, Homes
        <3> QED  BY <1>1, <2>1, <2>2, <2>3, <2>4, <3>1, EnqueueLinks, HomesKept
    <2>5. CASE UNCHANGED queues
        BY <2>1, <2>2, <2>3, <2>5, SameLinks, HomesKept
    <2> QED  BY <1>4, <2>4, <2>5 DEF Finish, WakeIdle
<1>5. CASE FinishWakesRunning
    <2>1. /\ UNCHANGED <<runq, sleepq, frames, pipe, pipeNo, parked, gen, born,
                         home, status, handle>>
          /\ after' \in Polling
        BY <1>5 DEF FinishWakesRunning, Harvest
    <2>2. after' \in Task => Linked(after')
        BY <2>1 DEF Linked
    <2> QED  BY <2>1, <2>2, SameShape, SameLinks, HomesKept
<1>6. CASE CheckEvents \/ WakeUp \/ Sleep \/ Interrupted
    <2>1. /\ UNCHANGED <<runq, sleepq, frames, pipe, pipeNo, parked, gen, born,
                         home, status, handle>>
          /\ after' = after \/ after' = NoTask
        BY <1>6 DEF CheckEvents, WakeUp, Sleep, Interrupted, Harvest
    <2> QED  BY <1>3, <2>1, SameShape, SameLinks, HomesKept
<1>7. CASE PollTask
    <2>1. NextTask \in Task /\ Linked(NextTask)
        BY <1>1, <1>7, NextTaskFacts DEF PollTask, Linked, Queued
    <2>2. PICK n \in Task : n = NextTask
        BY <2>1
    <2>3. /\ frames' = Append(frames, n) /\ sleepq' = sleepq /\ status[n] # "unborn"
          /\ status' = [status EXCEPT ![n] = "started"]
          /\ UNCHANGED <<pipe, pipeNo, after, parked, gen, born, home, handle>>
        BY <1>7, <2>1, <2>2 DEF PollTask, Homes, Mine
    <2>4. Polling' = Polling \cup {n}
        BY <1>1, <2>3, PushFacts DEF Frame
    <2>5. \A u \in Task : Queued(u)' => Queued(u)
        BY <1>1, <1>7, <2>3, PopTaskFacts DEF PollTask, Queued
    <2>6. \A u \in Task : Linked(u)' => Linked(u)
        BY <2>1, <2>2, <2>3, <2>4, <2>5 DEF Linked
    <2>7. \A u \in Task : status'[u] = "unborn" <=> status[u] = "unborn"
        BY <1>2, <2>3
    <2> QED  BY <2>3, <2>6, <2>7, HomesKept
<1>8. CASE PollPanics
    <2>1. UNCHANGED <<sleepq, frames, pipe, pipeNo, after, parked, gen, born,
                      home, status, handle>>
        BY <1>8 DEF PollPanics
    <2>2. \A u \in Task : Queued(u)' => Queued(u)
        BY <1>1, <1>8, PopTaskFacts DEF PollPanics, Queued
    <2>3. \A u \in Task : Linked(u)' => Linked(u)
        BY <2>1, <2>2, SameShape DEF Linked
    <2> QED  BY <2>1, <2>3, HomesKept
<1>9. CASE ShutDown \/ AllDone
    <2>1. Replace /\ after = NoTask
        BY <1>1, <1>9 DEF ShutDown, AllDone, EventLoop
    <2>2. /\ frames' = <<>> /\ pipe' = <<>> /\ runq' = [p \in Priority |-> <<>>]
          /\ sleepq' = {} /\ parked' = [f \in Fd |-> NoTask] /\ after' = NoTask
          /\ gen' = gen + 1 /\ pipeNo' # pipeNo
          /\ UNCHANGED <<status, handle, home, born>>
        BY <2>1 DEF Replace
    <2>3. \A u \in Task : ~Linked(u)'
        <3>1. Range(<<>>) = {}
            BY EmptyFacts
        <3>2. \A u \in Task : runq'[PrioOf[u]] = <<>>
            BY <2>2, PrioOfType
        <3> QED  BY <1>3, <2>2, <3>1, <3>2 DEF Linked, Queued, InRunq, Polling
    <2>4. \A u \in Task : born'[u] # gen' /\ (born'[u] + 1 = gen' => born[u] = gen)
        BY <1>1, <1>2, <2>2 DEF EventLoop
    <2> QED  BY <2>2, <2>3, <2>4 DEF Homes
<1>10. ASSUME NEW f \in Fd, HandleFd(f)
       PROVE  Homes'
    <2>1. UNCHANGED <<frames, pipe, pipeNo, after, parked, gen, born, home, status, handle>>
        BY <1>10 DEF HandleFd
    <2>2. ASSUME NEW t \in Task, parked[f] = t, Enqueue(t)
          PROVE  Homes'
        <3>1. Linked(t)
            BY <2>2 DEF Linked
        <3> QED  BY <1>1, <2>1, <2>2, <3>1, SameShape, EnqueueLinks, HomesKept
    <2>3. CASE UNCHANGED queues
        BY <2>1, <2>3, SameShape, SameLinks, HomesKept
    <2> QED  BY <1>10, <2>2, <2>3 DEF HandleFd
<1>11. CASE WakeFromPipe
    <2>1. /\ UNCHANGED <<frames, pipeNo, after, parked, gen, born, home, status, handle>>
          /\ pipe # <<>> /\ pipe' = Tail(pipe)
        BY <1>1, <1>11 DEF WakeFromPipe, EventLoop
    <2>2. Head(pipe) \in Range(pipe) /\ \A u : u \in Range(pipe') => u \in Range(pipe)
        BY <1>1, <2>1, TailFacts DEF TypeOK
    <2>3. ASSUME NEW t \in Task, Head(pipe) = t, Enqueue(t)
          PROVE  Homes'
        <3>1. Linked(t)
            BY <2>2, <2>3 DEF Linked
        <3> QED  BY <1>1, <2>1, <2>2, <2>3, <3>1, SameShape, EnqueueLinks, HomesKept
    <2>4. CASE UNCHANGED queues
        BY <2>1, <2>2, <2>4, SameShape, SameLinks, HomesKept
    <2> QED  BY <1>11, <2>3, <2>4 DEF WakeFromPipe
<1>12. CASE EventsHandled
    <2>1. UNCHANGED <<frames, pipe, pipeNo, parked, gen, born, home, status, handle>>
        BY <1>12 DEF EventsHandled
    <2>2. after' = NoTask
        BY <1>12 DEF EventsHandled
    <2>3. ASSUME NEW t \in Task, after = t, Enqueue(t)
          PROVE  Homes'
        <3>1. Linked(t)
            BY <2>3 DEF Linked
        <3> QED  BY <1>1, <1>3, <2>1, <2>2, <2>3, <3>1, SameShape, EnqueueLinks, HomesKept
    <2>4. CASE UNCHANGED queues
        BY <1>3, <2>1, <2>2, <2>4, SameShape, SameLinks, HomesKept
    <2> QED  BY <1>12, <2>3, <2>4 DEF EventsHandled
<1>13. CASE RunFails
    <2>1. UNCHANGED <<runq, sleepq, pipe, pipeNo, after, parked, gen, born, home, status, handle>>
        BY <1>13 DEF RunFails
    <2>2. Polling' \subseteq Polling
        BY <1>1, <1>13, RunFailsFacts
    <2> QED  BY <2>1, <2>2, SameLinks, HomesKept
<1> QED  BY <1>4, <1>5, <1>6, <1>7, <1>8, <1>9, <1>10, <1>11, <1>12, <1>13 DEF LoopStep

LEMMA OutsideHomes ==
    ASSUME IInv, Homes, Outside
    PROVE  Homes'
<1>1. UNCHANGED <<runq, sleepq, frames, pipeNo, after, parked, gen, born,
                  home, status, handle>>
    BY DEF Outside, KernelEdge, WakeRemote, WakeBlockRemote,
           control, queues, tasks, fds, chan, history
<1>2. pipe \in Seq(Task \cup {"null"}) /\ "null" \notin Task
    BY MarkFacts DEF IInv, TypeOK
<1>3. \/ pipe' = pipe \/ pipe' = Append(pipe, "null")
      \/ \E t \in Task : Mine(t) /\ pipe' = Append(pipe, t)
    BY DEF Outside, KernelEdge, WakeRemote, WakeBlockRemote, HasWaker, Mine, chan
<1>4. \A u \in Task : u \in Range(pipe') => u \in Range(pipe) \/ Mine(u)
    <2>1. \A x \in Task \cup {"null"} : Range(Append(pipe, x)) = Range(pipe) \cup {x}
        BY <1>2, AppendFacts
    <2> QED  BY <1>2, <1>3, <2>1
<1> QED  BY <1>1, <1>4, SameShape, SameLinks, HomesKept

(* Only run_task starts to poll a task. *)
LEMMA PollStarts ==
    ASSUME TypeOK, CallStack, EventLoop, [Next]_vars, NEW t, t \in Polling', t \notin Polling
    PROVE  PollTask
<1>1. frames' # frames
    BY SameShape
<1>2. frames' # <<>>
    BY EmptyFacts DEF Polling
<1>3. frames' # Append(frames, "run") /\ frames' # Append(frames, "block")
    BY PushFacts, MarkFacts DEF Frame
<1>4. Me # "main" => frames' # Front(frames)
    BY PopFacts
<1> USE <1>1, <1>2, <1>3, <1>4 DEF control, queues, tasks, fds, chan, history
<1>5. ~UNCHANGED vars
    BY DEF vars
<1>6. ~UserStep
    <2>1. Run => frames' = Append(frames, "run")
        BY DEF Run
    <2> QED  BY <2>1 DEF UserStep, Spawn, DropHandle, Abort, TakeOutput, AwaitHandle,
                HandlePanics, WakeLocal, WakeRunning, WakeBlock, ParkOnFd, RequestShutdown,
                BlockOn
<1>7. ~PollEnds
    BY MarkFacts DEF PollEnds, TaskPending, TaskReady, BlockPending, BlockReady
<1>8. ~Outside
    BY DEF Outside, KernelEdge, WakeRemote, WakeBlockRemote
<1>9. ~Finish
    BY MarkFacts DEF Finish, CallStack
<1>10. LoopStep => PollTask
    BY <1>9 DEF LoopStep, FinishWakesRunning, PollPanics, CheckEvents, Sleep, WakeUp,
                Interrupted, RunFails, HandleFd, WakeFromPipe, EventsHandled, ShutDown,
                AllDone, Replace
<1> QED  BY <1>5, <1>6, <1>7, <1>8, <1>10 DEF Next

(* run() (executor.rs:701-703): the new executor's pipe is opened before   *)
(* the old one's is closed, so no waker of a task of the replaced executor *)
(* reaches the new one, which never polls such a task.                     *)
THEOREM ForgottenByNext == Spec => NextExecutorForgets
<1>1. Init => Homes
    <2> SUFFICES ASSUME Init
                 PROVE  Homes
        OBVIOUS
    <2>1. /\ \A u \in Task : runq[PrioOf[u]] = <<>>
          /\ NoTask \notin Task /\ Range(<<>>) = {}
        BY PrioOfType, MarkFacts, EmptyFacts DEF Init
    <2> QED  BY <2>1 DEF Init, Homes, Linked, Queued, InRunq, Polling
<1>2. IInv /\ Homes /\ [Next]_vars => Homes'
    <2>1. ASSUME IInv, Homes, UNCHANGED vars
          PROVE  Homes'
        BY <2>1 DEF vars, control, queues, tasks, fds, chan, history, Homes, Linked, Mine,
                    Queued, InRunq, Polling
    <2> QED  BY <2>1, UserHomes, PollEndsHomes, LoopHomes, OutsideHomes DEF Next
<1>3. IInv /\ Homes /\ [Next]_vars => [\A t \in Starts : gen # born[t] + 1]_vars
    <2> SUFFICES ASSUME IInv, Homes, [Next]_vars, NEW t \in Starts
                 PROVE  gen # born[t] + 1
        OBVIOUS
    <2>1. t \in Polling' /\ t \notin Polling /\ t \in Task
        BY DEF Starts, Polling
    <2>2. status[t] # "unborn" /\ home[t] = pipeNo
        <3>1. TypeOK /\ RunQueues /\ CallStack /\ EventLoop
            BY DEF IInv, Placement
        <3>2. PollTask
            BY <2>1, <3>1, PollStarts
        <3>3. t = NextTask
            BY <2>1, <3>1, <3>2, NextTaskFacts, PushFacts DEF PollTask, Frame
        <3> QED  BY <2>1, <3>1, <3>2, <3>3, NextTaskFacts DEF PollTask, Homes, Linked, Queued, Mine
    <2> QED  BY <2>1, <2>2 DEF Homes
<1> QED  BY <1>1, <1>2, <1>3, Invariant, PTL DEF Spec, NextExecutorForgets
-----------------------------------------------------------------------------
(* Wakes of the futures that block_on polls.                               *)

\* A frame that was woken is a block_on loop that is not polling its future;
\* the innermost one has epoll_wait before it or something in the pipe.
Blocks ==
    \A i \in bwoken :
        /\ i \in 1..Len(frames) /\ frames[i] = "block"
        /\ i < Len(frames) => frames[i + 1] \in Task
        /\ i = Len(frames) =>
              /\ pc # "user" /\ after = NoTask
              /\ pc \in {"pick", "wait"} => pipe # <<>>

(* A step that enters and leaves no frame.                                 *)
LEMMA SameBlocks ==
    ASSUME Blocks, frames' = frames, bwoken' \subseteq bwoken,
           Len(frames) \in bwoken' =>
               /\ pc' # "user" /\ after' = NoTask
               /\ pc' \in {"pick", "wait"} => pipe' # <<>>
    PROVE  Blocks'
BY DEF Blocks

(* run() is not entered under a block_on, nor block_on under a run().      *)
LEMMA NoBlockInRun ==
    ASSUME TypeOK, CallStack, Blocks, Me \in {"run", "main"}
    PROVE  bwoken = {}
<1>1. CASE Me = "main"
    <2>1. Len(frames) = 0
        BY <1>1, StackFacts, EmptyFacts
    <2> QED  BY <2>1 DEF Blocks
<1>2. CASE Me = "run"
    <2>1. /\ Len(frames) \in Nat \ {0} /\ frames[Len(frames)] = "run"
          /\ Len(frames) \in 1..Len(frames)
        BY <1>2, StackFacts
    <2>2. Len(frames) = 1
        BY <2>1 DEF CallStack, StackShape
    <2>3. \A i \in 1..Len(frames) : frames[i] # "block"
        BY <2>1, <2>2
    <2> QED  BY <2>3 DEF Blocks
<1> QED  BY <1>1, <1>2

LEMMA UserBlocks ==
    ASSUME IInv, Blocks, UserStep
    PROVE  Blocks'
<1> USE DEF control, queues, tasks, fds, chan, history
<1>0. TypeOK /\ CallStack /\ EventLoop
    BY DEF IInv
<1>1. pc = "user" /\ Len(frames) \notin bwoken
    BY DEF UserStep, Spawn, DropHandle, Abort, TakeOutput, AwaitHandle, HandlePanics, WakeLocal,
           WakeRunning, WakeBlock, ParkOnFd, RequestShutdown, Run, BlockOn, Blocks
<1>2. CASE frames' = frames /\ bwoken' = bwoken
    BY <1>1, <1>2, SameBlocks
<1>3. ASSUME NEW i \in DOMAIN frames, WakeBlock(i), bwoken' # bwoken
      PROVE  Blocks'
    <2>1. /\ frames[i] = "block" /\ i # Len(frames) /\ frames[i + 1] # "block"
          /\ bwoken' = bwoken \cup {i} /\ UNCHANGED <<pc, frames, after, pipe>>
        BY <1>1, <1>3 DEF WakeBlock, RecordBlockWake, InOwnPoll
    <2>2. frames \in Seq(Frame) /\ Len(frames) \in Nat /\ DOMAIN frames = 1..Len(frames)
        BY <1>0, StackFacts, LenProperties
    <2>3. i + 1 \in 1..Len(frames) /\ i + 1 # 1
        BY <2>1, <2>2
    <2>4. frames[i + 1] \in Frame /\ frames[i + 1] # "run"
        BY <1>0, <2>2, <2>3, ElementOfSeq DEF CallStack, StackShape
    <2>5. frames[i + 1] \in Task
        BY <2>1, <2>4 DEF Frame
    <2> QED  BY <1>1, <2>1, <2>2, <2>3, <2>5 DEF Blocks
<1>4. CASE Run
    <2>1. Me = "main" /\ bwoken' = bwoken
        BY <1>0, <1>4, StackFacts DEF Run
    <2> QED  BY <1>0, <2>1, NoBlockInRun DEF Blocks
<1>5. CASE BlockOn
    <2>1. frames' = Append(frames, "block") /\ bwoken' = bwoken
        BY <1>5 DEF BlockOn
    <2>2. /\ Len(frames) \in Nat /\ Len(frames') = Len(frames) + 1
          /\ \A i \in 1..Len(frames) : frames'[i] = frames[i]
        BY <1>0, <2>1, PushFacts, StackFacts DEF Frame
    <2>3. \A i \in bwoken : i \in 1..Len(frames) /\ i < Len(frames)
        BY <1>1, <2>2 DEF Blocks
    <2> QED  BY <1>1, <2>1, <2>2, <2>3 DEF Blocks
<1>6. \/ frames' = frames /\ bwoken' = bwoken
      \/ \E i \in DOMAIN frames : WakeBlock(i) /\ bwoken' # bwoken
      \/ Run \/ BlockOn
    BY DEF UserStep, Spawn, DropHandle, Abort, TakeOutput, AwaitHandle, HandlePanics, WakeLocal,
           WakeIdle, WakeRunning, Harvest, WakeBlock, ParkOnFd, RequestShutdown
<1> QED  BY <1>2, <1>3, <1>4, <1>5, <1>6

(* A frame that was left is not woken, and the loop below it goes on.      *)
LEMMA PopBlocks ==
    ASSUME TypeOK, CallStack, EventLoop, Blocks, frames' = Front(frames),
           \/ Me \in Task /\ pc' = "ran" /\ bwoken' = bwoken
           \/ Me = "block" /\ bwoken' = bwoken \ {Len(frames)},
           after' = NoTask
    PROVE  Blocks'
<1>1. Me # "main" /\ Len(frames) \in Nat \ {0} /\ Me = frames[Len(frames)]
    BY MarkFacts, StackFacts
<1>2. /\ Len(frames') = Len(frames) - 1
      /\ \A i \in 1..Len(frames') : i \in 1..Len(frames) /\ frames'[i] = frames[i]
    BY <1>1, PopFacts
<1>3. ASSUME NEW i \in bwoken'
      PROVE  /\ i \in 1..Len(frames') /\ frames'[i] = "block"
             /\ i < Len(frames') => frames'[i + 1] \in Task
             /\ i = Len(frames') => pc' = "ran"
    <2>1. i \in bwoken /\ i \in 1..Len(frames) /\ frames[i] = "block"
        BY <1>3 DEF Blocks
    <2>2. i # Len(frames)
        BY <1>1, <1>3, <2>1, MarkFacts
    <2>3. i \in 1..Len(frames') /\ i < Len(frames) /\ frames'[i] = "block"
        BY <1>1, <1>2, <2>1, <2>2
    <2>4. frames[i + 1] \in Task
        BY <2>1, <2>3 DEF Blocks
    <2>5. i < Len(frames') => i + 1 \in 1..Len(frames') /\ frames'[i + 1] = frames[i + 1]
        BY <1>1, <1>2, <2>3
    <2>6. i = Len(frames') => i + 1 = Len(frames)
        BY <1>1, <1>2, <2>3
    <2> QED  BY <1>1, <2>3, <2>4, <2>5, <2>6, MarkFacts
<1> QED  BY <1>3 DEF Blocks

LEMMA PollEndsBlocks ==
    ASSUME IInv, Blocks, PollEnds
    PROVE  Blocks'
<1> USE DEF control, queues, tasks, fds, chan, history
<1>0. TypeOK /\ CallStack /\ EventLoop
    BY DEF IInv
<1>1. pc = "user" /\ Len(frames) \notin bwoken /\ after = NoTask
    BY <1>0 DEF PollEnds, TaskPending, TaskReady, BlockPending, BlockReady, Blocks, EventLoop
<1>2. CASE TaskPending \/ BlockReady
    BY <1>0, <1>1, <1>2, PopBlocks DEF TaskPending, BlockReady
<1>3. CASE TaskReady \/ BlockPending
    BY <1>1, <1>3, SameBlocks DEF TaskReady, BlockPending
<1> QED  BY <1>2, <1>3 DEF PollEnds

LEMMA LoopBlocks ==
    ASSUME IInv, Blocks, LoopStep
    PROVE  Blocks'
<1> USE DEF control, queues, tasks, fds, chan, history
<1>0. TypeOK /\ CallStack /\ EventLoop
    BY DEF IInv
<1>1. CASE Finish
    <2>1. /\ Me \in Task /\ frames' = Front(frames) /\ pc' = "ran"
          /\ bwoken' = bwoken /\ after' = NoTask
        BY <1>0, <1>1 DEF Finish, CallStack, EventLoop
    <2> QED  BY <1>0, <2>1, PopBlocks
<1>2. CASE FinishWakesRunning
    <2>1. Me \in Task
        BY <1>0, <1>2 DEF FinishWakesRunning, CallStack
    <2>2. Len(frames) \notin bwoken
        BY <1>0, <2>1, StackFacts, MarkFacts DEF Blocks
    <2> QED  BY <1>2, <2>2, SameBlocks DEF FinishWakesRunning
<1>3. CASE PollTask
    <2>1. frames' = Append(frames, NextTask) /\ NextTask \in Task /\ bwoken' = bwoken
        BY <1>0, <1>3, NextTaskFacts DEF PollTask, IInv, Placement
    <2>2. /\ Len(frames) \in Nat /\ Len(frames') = Len(frames) + 1
          /\ \A i \in 1..Len(frames) : frames'[i] = frames[i]
          /\ frames'[Len(frames) + 1] = NextTask
        BY <1>0, <2>1, PushFacts, StackFacts DEF Frame
    <2>3. ASSUME NEW i \in bwoken
          PROVE  /\ i \in 1..Len(frames') /\ frames'[i] = "block" /\ i < Len(frames')
                 /\ frames'[i + 1] \in Task
        <3>1. i \in 1..Len(frames) /\ frames[i] = "block"
              /\ (i < Len(frames) => frames[i + 1] \in Task)
            BY DEF Blocks
        <3>2. CASE i = Len(frames)
            BY <2>1, <2>2, <3>1, <3>2
        <3>3. CASE i < Len(frames)
            <4>1. i + 1 \in 1..Len(frames)
                BY <2>2, <3>1, <3>3
            <4> QED  BY <2>2, <3>1, <3>3, <4>1
        <3> QED  BY <2>2, <3>1, <3>2, <3>3
    <2> QED  BY <2>1, <2>2, <2>3 DEF Blocks
<1>4. CASE PollPanics \/ Sleep
    BY <1>4, SameBlocks DEF PollPanics, Sleep, Blocks
<1>5. CASE CheckEvents \/ WakeUp
    BY <1>5, SameBlocks DEF CheckEvents, WakeUp, Harvest
<1>6. CASE Interrupted
    BY <1>6, SameBlocks DEF Interrupted
<1>7. CASE RunFails \/ ShutDown \/ AllDone
    <2>1. Me = "run" /\ bwoken' = bwoken
        BY <1>7 DEF RunFails, ShutDown, AllDone, Replace
    <2> QED  BY <1>0, <2>1, NoBlockInRun DEF Blocks
<1>8. CASE (\E f \in Fd : HandleFd(f)) \/ WakeFromPipe
    <2>1. pc = "events" /\ pc' = "events" /\ UNCHANGED <<frames, after, bwoken>>
        BY <1>8 DEF HandleFd, WakeFromPipe
    <2> QED  BY <2>1, SameBlocks DEF Blocks
<1>9. CASE EventsHandled
    <2>1. CASE after \in Task
        <3>1. Len(frames) \notin bwoken
            BY <2>1, MarkFacts DEF Blocks
        <3> QED  BY <1>9, <2>1, <3>1, SameBlocks DEF EventsHandled
    <2>2. CASE after \notin Task
        BY <1>9, <2>2, SameBlocks DEF EventsHandled
    <2> QED  BY <2>1, <2>2
<1> QED  BY <1>1, <1>2, <1>3, <1>4, <1>5, <1>6, <1>7, <1>8, <1>9 DEF LoopStep

LEMMA OutsideBlocks ==
    ASSUME IInv, Blocks, Outside
    PROVE  Blocks'
<1> USE DEF control, queues, tasks, fds, chan, history
<1>0. TypeOK /\ CallStack /\ EventLoop
    BY DEF IInv
<1>1. ASSUME NEW f \in Fd, KernelEdge(f)
      PROVE  Blocks'
    BY <1>1, SameBlocks DEF KernelEdge, Blocks
<1>2. ASSUME NEW x \in Task \cup {"null"}, pipe' = Append(pipe, x)
      PROVE  pipe' # <<>>
    <2>1. pipe \in Seq(Task \cup {"null"})
        BY <1>0 DEF TypeOK
    <2>2. Len(pipe') = Len(pipe) + 1 /\ Len(pipe) \in Nat
        BY <1>2, <2>1, AppendProperties, LenProperties
    <2> QED  BY <2>2, EmptyFacts
<1>3. ASSUME NEW t \in Task, WakeRemote(t)
      PROVE  Blocks'
    BY <1>2, <1>3, SameBlocks DEF WakeRemote, Blocks
<1>4. ASSUME NEW i \in DOMAIN frames, WakeBlockRemote(i)
      PROVE  Blocks'
    <2>1. /\ frames[i] = "block" /\ pipe' = Append(pipe, "null")
          /\ UNCHANGED <<pc, frames, after>>
        BY <1>4 DEF WakeBlockRemote
    <2>2. pipe' # <<>>
        BY <1>2, <2>1
    <2>3. CASE bwoken' = bwoken
        BY <2>1, <2>2, <2>3, SameBlocks DEF Blocks
    <2>4. CASE bwoken' # bwoken
        <3>1. /\ bwoken' = bwoken \cup {i}
              /\ i = Len(frames) => pc # "user" /\ after = NoTask
              /\ i # Len(frames) => frames[i + 1] # "block"
            BY <1>4, <2>4 DEF WakeBlockRemote, RecordBlockWake, InOwnPoll
        <3>2. frames \in Seq(Frame) /\ Len(frames) \in Nat /\ DOMAIN frames = 1..Len(frames)
            BY <1>0, StackFacts, LenProperties
        <3>3. ASSUME i < Len(frames)
              PROVE  frames[i + 1] \in Task
            <4>1. i + 1 \in 1..Len(frames) /\ i + 1 # 1 /\ i # Len(frames)
                BY <3>2, <3>3
            <4>2. frames[i + 1] \in Frame /\ frames[i + 1] # "run"
                BY <1>0, <3>2, <4>1, ElementOfSeq DEF CallStack, StackShape
            <4> QED  BY <3>1, <4>1, <4>2 DEF Frame
        <3> QED  BY <2>1, <2>2, <3>1, <3>2, <3>3 DEF Blocks
    <2> QED  BY <2>3, <2>4
<1> QED  BY <1>1, <1>3, <1>4 DEF Outside

(* block_on (executor.rs:763-800): a wake of its future that arrives       *)
(* outside of the future's own poll is not slept through, at any depth of  *)
(* nested block_on calls.                                                  *)
THEOREM BlockWakesKept == Spec => []BlockWakeKept
<1>1. Init => Blocks
    BY DEF Init, Blocks
<1>2. IInv /\ Blocks /\ [Next]_vars => Blocks'
    <2>1. ASSUME Blocks, UNCHANGED vars
          PROVE  Blocks'
        BY <2>1 DEF vars, control, chan, history, Blocks
    <2> QED  BY <2>1, UserBlocks, PollEndsBlocks, LoopBlocks, OutsideBlocks DEF Next
<1>3. Blocks => BlockWakeKept
    BY DEF Blocks, BlockWakeKept
<1> QED  BY <1>1, <1>2, <1>3, Invariant, PTL DEF Spec
-----------------------------------------------------------------------------
(* Shutdown.                                                               *)

NoBlock == "block" \notin Range(frames)

\* Without block_on, a shutdown is requested by a task, and before the run()
\* that polls it looks for another task it looks at the flag.
Heeded ==
    shutdown => /\ Me # "main" /\ pc \notin {"pick", "wait"}
                /\ pc = "events" => resume # "pick"

LEMMA NotInBlock ==
    ASSUME TypeOK, NoBlock
    PROVE  Me # "block"
<1>1. frames \in Seq(Frame) /\ (Me # "main" => Me = frames[Len(frames)] /\ Len(frames) \in Nat \ {0})
    BY StackFacts
<1>2. \A i \in 1..Len(frames) : frames[i] # "block"
    BY <1>1, RangeIndex DEF NoBlock
<1> QED  BY <1>1, <1>2

LEMMA NextHeeded ==
    ASSUME IInv, NoBlock, NoBlock', Heeded, [Next]_vars
    PROVE  Heeded'
<1> USE DEF control, queues, tasks, fds, chan, history
<1>0. TypeOK /\ CallStack /\ EventLoop /\ Me # "block"
    BY NotInBlock DEF IInv
<1>1. Me \in Task \cup {"run", "main"} /\ (frames = <<>> <=> Me = "main")
    BY <1>0, StackFacts DEF Frame
<1>2. CASE shutdown' # shutdown \/ ~shutdown
    <2>1. ASSUME shutdown'
          PROVE  RequestShutdown
        <3>1. shutdown' # shutdown
            BY <1>0, <1>2, <2>1 DEF TypeOK
        <3>2. ~UNCHANGED vars
            BY <3>1 DEF vars
        <3>3. ~PollEnds /\ ~Outside
            BY <3>1 DEF PollEnds, TaskPending, TaskReady, BlockPending, BlockReady, Outside,
                        KernelEdge, WakeRemote, WakeBlockRemote
        <3>4. ~LoopStep
            BY <2>1, <3>1 DEF LoopStep, Finish, FinishWakesRunning, PollTask, PollPanics, ShutDown,
                CheckEvents, AllDone, Replace, Sleep, WakeUp, Interrupted, RunFails, HandleFd,
                WakeFromPipe, EventsHandled
        <3>5. UserStep => RequestShutdown
            BY <3>1 DEF UserStep, Spawn, DropHandle, Abort, TakeOutput, AwaitHandle, HandlePanics,
                WakeLocal, WakeRunning, WakeBlock, ParkOnFd, Run, BlockOn
        <3> QED  BY <3>2, <3>3, <3>4, <3>5 DEF Next
    <2>2. RequestShutdown => Me' = Me /\ Me \in Task /\ pc' = "user"
        BY <1>0, <1>1, SameShape, MarkFacts DEF RequestShutdown, InFuture
    <2> QED  BY <2>1, <2>2, MarkFacts DEF Heeded
<1>3. CASE shutdown /\ shutdown' = shutdown
    <2>1. Me \in Task \cup {"run"} /\ pc \notin {"pick", "wait"}
          /\ (pc = "events" => resume # "pick")
        BY <1>1, <1>3 DEF Heeded
    <2>2. pc = "ran" => Me = "run"
        BY <1>0, <2>1, MarkFacts DEF CallStack
    <2>3. CASE UNCHANGED vars
        BY <1>3, <2>3, SameShape DEF vars, Heeded
    <2>4. CASE UserStep
        <3>1. ~Run /\ ~BlockOn
            <4>1. ~Run
                BY <1>1, <2>1, MarkFacts DEF Run
            <4>2. BlockOn => "block" \in Range(frames')
                BY <1>0, StackFacts, AppendFacts DEF BlockOn, Frame
            <4> QED  BY <4>1, <4>2 DEF NoBlock
        <3>2. /\ frames' = frames /\ pc = "user"
              /\ pc' \in {"user", "panic"} \/ (pc' = "events" /\ resume' = "user")
            BY <2>4, <3>1 DEF UserStep, Spawn, DropHandle, Abort, TakeOutput, AwaitHandle,
                HandlePanics, WakeLocal, WakeRunning, WakeBlock, ParkOnFd, RequestShutdown, Harvest
        <3>3. Me' = Me
            BY <3>2, SameShape
        <3> QED  BY <2>1, <3>2, <3>3, MarkFacts DEF Heeded
    <2>5. CASE PollEnds
        <3>1. CASE TaskPending
            <4>1. Me \in Task /\ frames' = Front(frames) /\ pc' = "ran"
                BY <3>1 DEF TaskPending
            <4>2. Me' \in {"run", "block"}
                BY <1>0, <4>1, PopFacts, MarkFacts
            <4> QED  BY <4>1, <4>2 DEF Heeded
        <3>2. CASE TaskReady
            <4>1. Me \in Task /\ Me' = Me /\ pc' = "finish"
                BY <3>2, SameShape DEF TaskReady
            <4> QED  BY <4>1, MarkFacts DEF Heeded
        <3> QED  BY <1>0, <2>5, <3>1, <3>2 DEF PollEnds, BlockPending, BlockReady
    <2>6. CASE LoopStep
        <3>1. CASE Finish
            <4>1. Me \in Task /\ frames' = Front(frames) /\ pc' = "ran"
                BY <1>0, <3>1 DEF Finish, CallStack
            <4>2. Me' \in {"run", "block"}
                BY <1>0, <4>1, PopFacts, MarkFacts
            <4> QED  BY <4>1, <4>2 DEF Heeded
        <3>2. CASE FinishWakesRunning
            <4>1. Me' = Me /\ pc' = "events" /\ resume' = "finish"
                BY <3>2, SameShape DEF FinishWakesRunning, Harvest
            <4> QED  BY <2>1, <4>1, MarkFacts DEF Heeded
        <3>3. CASE (\E f \in Fd : HandleFd(f)) \/ WakeFromPipe
            <4>1. Me' = Me /\ pc' = pc /\ resume' = resume
                BY <3>3, SameShape DEF HandleFd, WakeFromPipe
            <4> QED  BY <1>3, <4>1 DEF Heeded
        <3>4. CASE EventsHandled
            <4>1. Me' = Me /\ pc' = resume /\ resume # "pick" /\ resume \in {"pick", "user", "finish"}
                BY <1>0, <2>1, <3>4, SameShape DEF EventsHandled, TypeOK
            <4> QED  BY <2>1, <4>1, MarkFacts DEF Heeded
        <3>5. ~ShutDown /\ ~AllDone
            BY <1>3 DEF ShutDown, AllDone, Replace
        <3>6. ~PollTask /\ ~PollPanics /\ ~Sleep /\ ~WakeUp /\ ~Interrupted
            BY <2>1 DEF PollTask, PollPanics, Sleep, WakeUp, Interrupted
        <3>7. ~CheckEvents /\ ~RunFails
            BY <1>3, <2>1, <2>2 DEF CheckEvents, RunFails
        <3> QED  BY <2>6, <3>1, <3>2, <3>3, <3>4, <3>5, <3>6, <3>7 DEF LoopStep
    <2>7. CASE Outside
        <3>1. Me' = Me /\ pc' = pc /\ resume' = resume
            BY <2>7, SameShape DEF Outside, KernelEdge, WakeRemote, WakeBlockRemote
        <3> QED  BY <1>3, <3>1 DEF Heeded
    <2> QED  BY <2>3, <2>4, <2>5, <2>6, <2>7 DEF Next
<1> QED  BY <1>0, <1>2, <1>3 DEF TypeOK

(* shutdown() (executor.rs:817-819, 838): as long as block_on is not       *)
(* called, no task is polled between the request and the end of run().     *)
(* A future that block_on polls can request it too, and block_on does not  *)
(* look at the flag.                                                       *)
THEOREM ShutdownHeeded == Spec /\ []NoBlock => ShutdownStops
<1>1. Init => Heeded
    BY DEF Init, Heeded
<1>2. IInv /\ NoBlock /\ NoBlock' /\ Heeded /\ [Next]_vars => Heeded'
    BY NextHeeded
<1>3. IInv /\ Heeded /\ [Next]_vars => [shutdown => Starts = {}]_vars
    <2> SUFFICES ASSUME IInv, Heeded, [Next]_vars, shutdown, NEW t \in Starts
                 PROVE  FALSE
        OBVIOUS
    <2>1. PollTask
        BY PollStarts DEF Starts, IInv
    <2> QED  BY <2>1 DEF PollTask, Heeded
<1> QED  BY <1>1, <1>2, <1>3, Invariant, PTL DEF Spec, ShutdownStops
-----------------------------------------------------------------------------
(* Tasks that completed.                                                   *)

\* No wake reached the executor while the task was in its last poll.
FinishesUnqueued == pc = "finish" => ~Queued(Me)

DoneUnqueued == \A t \in Task : status[t] = "done" => ~Queued(t)

\* Only a task that was not completed is put on a queue.
LEMMA DoneNotQueued ==
    ASSUME IInv, Next, NEW t \in Task, status[t] = "done", ~Queued(t)
    PROVE  ~Queued(t)'
<1>1. TypeOK /\ RunQueues /\ CallStack /\ EventLoop
    BY DEF IInv, Placement
<1>2. QueueMove
    BY <1>1, StepMovesQueues
<1>3. PrioOf[t] \in Priority /\ ~InRunq(t) /\ t \notin sleepq
    BY PrioOfType DEF Queued
<1>4. CASE UNCHANGED queues
    BY <1>3, <1>4 DEF queues, Queued, InRunq
<1>5. ASSUME NEW u \in Task, Enqueue(u)
      PROVE  ~Queued(t)'
    BY <1>1, <1>3, <1>5, EnqueueFacts DEF Queued
<1>6. ASSUME NEW u \in Task, Release(u)
      PROVE  ~Queued(t)'
    BY <1>1, <1>3, <1>6, ReleaseFacts DEF Queued
<1>7. CASE Runnable # {} /\ sleepq' = sleepq /\ runq' = [runq EXCEPT ![Highest] = Tail(@)]
    BY <1>1, <1>3, <1>7, PopTaskFacts DEF Queued
<1>8. CASE Me \in Task /\ ~Queued(Me) /\ runq' = runq /\ sleepq' = sleepq \cup {Me}
    <2>1. status[Me] = "started"
        BY <1>1, <1>8, StackFacts DEF CallStack
    <2> QED  BY <1>3, <1>8, <2>1 DEF Queued, InRunq
<1>9. CASE runq' = [p \in Priority |-> <<>>] /\ sleepq' = {}
    BY <1>3, <1>9, EmptyFacts DEF Queued, InRunq
<1> QED  BY <1>2, <1>4, <1>5, <1>6, <1>7, <1>8, <1>9 DEF QueueMove

LEMMA NextDoneUnqueued ==
    ASSUME IInv, DoneUnqueued, FinishesUnqueued, [Next]_vars
    PROVE  DoneUnqueued'
<1> USE DEF control, queues, tasks, fds, chan, history
<1>1. TypeOK /\ RunQueues /\ CallStack
    BY DEF IInv, Placement
<1>2. CASE UNCHANGED vars
    BY <1>2 DEF vars, DoneUnqueued, Queued, InRunq
<1>3. CASE Finish
    <2>1. Me \in Polling /\ ~Queued(Me) /\ waiter[Me] # Me
        BY <1>1, <1>3, StackFacts DEF Finish, CallStack, FinishesUnqueued
    <2>2. status' = [status EXCEPT ![Me] = "done"] /\ Me \in Task
        BY <1>3, <2>1 DEF Finish, Polling
    <2>3. ASSUME NEW t \in Task, t = Me
          PROVE  ~Queued(t)'
        <3>1. CASE UNCHANGED queues
            BY <2>1, <2>3, <3>1 DEF Queued, InRunq
        <3>2. ASSUME waiter[Me] \in Task, Enqueue(waiter[Me])
              PROVE  ~Queued(t)'
            BY <1>1, <2>1, <2>3, <3>2, EnqueueFacts DEF Queued
        <3> QED  BY <1>3, <3>1, <3>2 DEF Finish, WakeIdle
    <2>4. ASSUME NEW t \in Task, t # Me, status'[t] = "done"
          PROVE  ~Queued(t)'
        <3>1. status[t] = "done" /\ Next
            BY <1>1, <1>3, <2>2, <2>4 DEF TypeOK, Next, LoopStep
        <3> QED  BY <3>1, DoneNotQueued DEF DoneUnqueued
    <2> QED  BY <2>3, <2>4 DEF DoneUnqueued
<1>4. CASE Next /\ ~Finish
    <2> SUFFICES ASSUME NEW t \in Task, status'[t] = "done"
                 PROVE  ~Queued(t)'
        BY DEF DoneUnqueued
    <2>1. status[t] = "done"
        <3>1. CASE status' = status
            BY <3>1
        <3>2. ASSUME NEW u \in Task, status' = [status EXCEPT ![u] = "fresh"]
              PROVE  status[t] = "done"
            BY <1>1, <3>2 DEF TypeOK
        <3>3. CASE status' = [status EXCEPT ![NextTask] = "started"]
            BY <1>1, <3>3 DEF TypeOK
        <3>4. UserStep => status' = status \/ \E u \in Task : Spawn(u)
            BY DEF UserStep, Spawn, DropHandle, Abort, TakeOutput, AwaitHandle, HandlePanics,
                   WakeLocal, WakeRunning, WakeBlock, ParkOnFd, RequestShutdown, Run, BlockOn
        <3>5. PollEnds \/ Outside => status' = status
            BY DEF PollEnds, TaskPending, TaskReady, BlockPending, BlockReady, Outside,
                   KernelEdge, WakeRemote, WakeBlockRemote
        <3>6. LoopStep => status' = status \/ PollTask
            BY <1>4 DEF LoopStep, FinishWakesRunning, PollPanics, ShutDown, CheckEvents, AllDone,
                   Replace, Sleep, WakeUp, Interrupted, RunFails, HandleFd, WakeFromPipe,
                   EventsHandled
        <3> QED  BY <1>4, <3>1, <3>2, <3>3, <3>4, <3>5, <3>6 DEF Next, Spawn, PollTask
    <2> QED  BY <1>4, <2>1, DoneNotQueued DEF DoneUnqueued
<1> QED  BY <1>2, <1>3, <1>4

LEMMA DoneStayUnqueued == Spec /\ []FinishesUnqueued => []DoneUnqueued
<1>1. Init => DoneUnqueued
    BY DEF Init, DoneUnqueued
<1>2. IInv /\ DoneUnqueued /\ FinishesUnqueued /\ [Next]_vars => DoneUnqueued'
    BY NextDoneUnqueued
<1> QED  BY <1>1, <1>2, Invariant, PTL DEF Spec

(* run_task (executor.rs:64): a completed task is polled again only if a   *)
(* wake of it reached the executor during its last poll.  No other order   *)
(* of wakes, of nested loops, of awaiting and of aborting does it.         *)
THEOREM CompletedNotPolled == Spec /\ []FinishesUnqueued => []NeverPollsCompleted
<1>1. IInv /\ DoneUnqueued => NeverPollsCompleted
    <2> SUFFICES ASSUME IInv, DoneUnqueued, Runnable # {}
                 PROVE  status[NextTask] # "done"
        BY DEF NeverPollsCompleted
    <2>1. NextTask \in Task /\ InRunq(NextTask)
        BY NextTaskFacts DEF IInv, Placement
    <2> QED  BY <2>1 DEF DoneUnqueued, Queued
<1> QED  BY <1>1, DoneStayUnqueued, Invariant, PTL

\* What a loop takes from the run queues can be polled.
PicksPollable == pc = "pick" /\ Runnable # {} => MayPoll(NextTask)

(* run() and run_task (executor.rs:646, 680-683): without block_on, and    *)
(* with no task woken in its last poll, the task run() picks is neither    *)
(* borrowed nor completed: polling it does not panic.                      *)
THEOREM RunPicksPollable == Spec /\ []NoBlock /\ []FinishesUnqueued => []PicksPollable
<1>1. IInv /\ NoBlock /\ NeverPollsCompleted => PicksPollable
    <2> SUFFICES ASSUME IInv, NoBlock, NeverPollsCompleted, pc = "pick", Runnable # {}
                 PROVE  MayPoll(NextTask)
        BY DEF PicksPollable
    <2>1. Me = "run"
        BY NotInBlock DEF IInv, CallStack
    <2>2. Polling = {}
        BY <2>1, RunIsBottom DEF IInv
    <2> QED  BY <2>2 DEF MayPoll, NeverPollsCompleted
<1> QED  BY <1>1, CompletedNotPolled, Invariant, PTL
-----------------------------------------------------------------------------
(* What runs before a task that yielded (YieldOrder.tla).                  *)

\* The task that a wake() in progress will enqueue is on the call stack.
WakesPolled == after \in Task => after \in Polling

\* From the end of y's wake() on, what y left runnable before it is still
\* runnable, on a queue that is served before y's or before y on the same.
Overtakes(t, y) == InRunq(y) /\ PrioOf[t] = PrioOf[y] /\ ~Before(runq[PrioOf[y]], t, y)

KeptAhead ==
    \A y \in Task : ~Yields(y) =>
        \A t \in kept[y] : t \in Ahead(y) /\ ~Overtakes(t, y)

YInv == IInv /\ WakesPolled /\ KeptAhead

LEMMA NextWakesPolled ==
    ASSUME IInv, WakesPolled, [Next]_vars
    PROVE  WakesPolled'
<1> USE DEF control, queues, tasks, fds, chan, history
<1>0. TypeOK /\ CallStack /\ EventLoop
    BY DEF IInv
<1>1. CASE UNCHANGED <<frames, after>>
    BY <1>1, SameShape DEF WakesPolled
<1>2. CASE after' = NoTask
    BY <1>2, MarkFacts DEF WakesPolled
<1>3. ASSUME NEW t \in Polling, after' = t, frames' = frames
      PROVE  WakesPolled'
    BY <1>3, SameShape DEF WakesPolled
<1>4. CASE UNCHANGED vars
    BY <1>1, <1>4 DEF vars
<1>5. CASE pc # "events" /\ after' = after
    BY <1>0, <1>2, <1>5 DEF EventLoop
<1>6. CASE UserStep
    <2>1. pc = "user"
        BY <1>6 DEF UserStep, Spawn, DropHandle, Abort, TakeOutput, AwaitHandle, HandlePanics,
                WakeLocal, WakeRunning, WakeBlock, ParkOnFd, RequestShutdown, Run, BlockOn
    <2>2. CASE \E t \in Task : WakeRunning(t)
        BY <1>3, <2>2 DEF WakeRunning, Harvest
    <2>3. CASE ~\E t \in Task : WakeRunning(t)
        <3>1. after' = after
            BY <1>6, <2>3 DEF UserStep, Spawn, DropHandle, Abort, TakeOutput, AwaitHandle,
                    HandlePanics, WakeLocal, WakeBlock, ParkOnFd, RequestShutdown, Run, BlockOn
        <3> QED  BY <1>5, <2>1, <3>1
    <2> QED  BY <2>2, <2>3
<1>7. CASE PollEnds
    BY <1>5, <1>7 DEF PollEnds, TaskPending, TaskReady, BlockPending, BlockReady
<1>8. CASE LoopStep
    <2>1. CASE FinishWakesRunning
        BY <1>3, <2>1 DEF FinishWakesRunning, Harvest
    <2>2. CASE (\E f \in Fd : HandleFd(f)) \/ WakeFromPipe
        BY <1>1, <2>2 DEF HandleFd, WakeFromPipe
    <2>3. CASE CheckEvents \/ WakeUp \/ Interrupted \/ EventsHandled
        BY <1>2, <2>3 DEF CheckEvents, WakeUp, Interrupted, EventsHandled, Harvest
    <2>4. CASE Finish \/ PollTask \/ PollPanics \/ ShutDown \/ AllDone \/ Sleep \/ RunFails
        BY <1>5, <2>4 DEF Finish, PollTask, PollPanics, ShutDown, AllDone, Replace, Sleep, RunFails
    <2> QED  BY <1>8, <2>1, <2>2, <2>3, <2>4 DEF LoopStep
<1>9. CASE Outside
    BY <1>1, <1>9 DEF Outside, KernelEdge, WakeRemote, WakeBlockRemote
<1> QED  BY <1>4, <1>6, <1>7, <1>8, <1>9 DEF Next

(* Only the end of the loop over the events ends a wake() in progress.     *)
LEMMA YieldEnds ==
    ASSUME IInv, Next, NEW y \in Task, Yields(y), ~Yields(y)'
    PROVE  EventsHandled
<1> USE DEF control, queues, tasks, fds, chan, history
<1>1. pc = "events" /\ batch = {} /\ after = y
    BY DEF Yields
<1>2. ~UserStep /\ ~PollEnds
    BY <1>1 DEF UserStep, Spawn, DropHandle, Abort, TakeOutput, AwaitHandle, HandlePanics, WakeLocal,
                WakeRunning, WakeBlock, ParkOnFd, RequestShutdown, Run, BlockOn,
                PollEnds, TaskPending, TaskReady, BlockPending, BlockReady
<1>3. Outside => UNCHANGED <<pc, batch, after>>
    BY DEF Outside, KernelEdge, WakeRemote, WakeBlockRemote
<1>4. LoopStep => EventsHandled
    BY <1>1 DEF LoopStep, Finish, FinishWakesRunning, PollTask, PollPanics, ShutDown, CheckEvents,
                AllDone, Sleep, WakeUp, Interrupted, RunFails, HandleFd, WakeFromPipe
<1> QED  BY <1>1, <1>2, <1>3, <1>4 DEF Next, Yields

(* A task that is enqueued is after every other task on its queue; those   *)
(* keep their order.                                                       *)
LEMMA EnqueueOrder ==
    ASSUME TypeOK, RunQueues, NEW u \in Task, Enqueue(u), status[u] # "done"
    PROVE  /\ Last(runq'[PrioOf[u]]) = u
           /\ \A t \in Task : InRunq(t) /\ t # u => ~Overtakes(t, u)'
           /\ \A t, y \in Task : InRunq(t) /\ t # u /\ y # u /\ ~Overtakes(t, y) => ~Overtakes(t, y)'
<1> DEFINE q == PrioOf[u]
<1>1. /\ q \in Priority /\ runq[q] \in Seq(Task) /\ IsInjective(runq[q])
      /\ runq \in [Priority -> Seq(Task)]
    BY PrioOfType DEF TypeOK, RunQueues
<1>2. /\ runq' = [runq EXCEPT ![q] = Append(RemoveFirst(@, u), u)]
    BY DEF Enqueue
<1>3. PICK r : r = RemoveFirst(runq[q], u)
    OBVIOUS
<1>4. /\ r \in Seq(Task) /\ Range(r) = Range(runq[q]) \ {u}
    BY <1>1, <1>3, RemoveFirstFacts
<1>5. /\ runq'[q] = Append(r, u)
      /\ \A p \in Priority : p # q => runq'[p] = runq[p]
    BY <1>1, <1>2, <1>3
<1>6. Last(runq'[q]) = u
    BY <1>4, <1>5, BeforeAppend
<1>7. ASSUME NEW t \in Task, InRunq(t), t # u
      PROVE  ~Overtakes(t, u)'
    <2>1. CASE PrioOf[t] = q
        <3>1. t \in Range(r)
            BY <1>4, <1>7, <2>1 DEF InRunq
        <3>2. Before(runq'[q], t, u)
            BY <1>4, <1>5, <3>1, BeforeAppend
        <3> QED  BY <3>2 DEF Overtakes
    <2>2. CASE PrioOf[t] # q
        BY <2>2 DEF Overtakes
    <2> QED  BY <2>1, <2>2
<1>8. ASSUME NEW t \in Task, NEW y \in Task, InRunq(t), t # u, y # u, ~Overtakes(t, y)
      PROVE  ~Overtakes(t, y)'
    <2>1. SUFFICES ASSUME InRunq(y)', PrioOf[t] = PrioOf[y]
                   PROVE  Before(runq'[PrioOf[y]], t, y)
        BY DEF Overtakes
    <2>2. PrioOf[y] \in Priority
        BY PrioOfType
    <2>3. InRunq(y)
        BY <1>8, <2>1, EnqueueFacts
    <2>4. Before(runq[PrioOf[y]], t, y)
        BY <1>8, <2>1, <2>3 DEF Overtakes
    <2>5. CASE PrioOf[y] = q
        <3>1. Before(r, t, y)
            BY <1>1, <1>3, <1>8, <2>4, <2>5, BeforeRemove
        <3>2. Before(Append(r, u), t, y)
            BY <1>4, <3>1, BeforeAppend
        <3> QED  BY <1>5, <2>5, <3>2
    <2>6. CASE PrioOf[y] # q
        BY <1>5, <2>2, <2>4, <2>6
    <2> QED  BY <2>5, <2>6
<1> QED  BY <1>6, <1>7, <1>8

(* A step that takes one task off its queue keeps the order of the others. *)
LEMMA RemoveOrder ==
    ASSUME TypeOK, RunQueues, NEW u \in Task, NEW t \in Task, NEW y \in Task,
           \/ Release(u)
           \/ Runnable # {} /\ u = NextTask /\ runq' = [runq EXCEPT ![Highest] = Tail(@)],
           t # u, y # u, InRunq(y), ~Overtakes(t, y)
    PROVE  ~Overtakes(t, y)'
<1> DEFINE q == PrioOf[u]
<1>1. /\ q \in Priority /\ runq[q] \in Seq(Task) /\ IsInjective(runq[q])
      /\ runq \in [Priority -> Seq(Task)]
    BY PrioOfType DEF TypeOK, RunQueues
<1>2. SUFFICES ASSUME PrioOf[t] = PrioOf[y]
               PROVE  Before(runq'[PrioOf[y]], t, y)
    BY DEF Overtakes
<1>3. PrioOf[y] \in Priority /\ Before(runq[PrioOf[y]], t, y)
    BY <1>2, PrioOfType DEF Overtakes
<1>4. CASE Release(u)
    <2>1. /\ runq'[q] = RemoveFirst(runq[q], u)
          /\ \A p \in Priority : p # q => runq'[p] = runq[p]
        BY <1>1, <1>4 DEF Release
    <2>2. PrioOf[y] = q => Before(RemoveFirst(runq[q], u), t, y)
        BY <1>1, <1>3, BeforeRemove
    <2> QED  BY <1>3, <2>1, <2>2
<1>5. CASE Runnable # {} /\ u = NextTask /\ runq' = [runq EXCEPT ![Highest] = Tail(@)]
    <2>1. q = Highest /\ u = Head(runq[q])
        BY <1>5, NextTaskFacts
    <2>2. /\ runq'[q] = Tail(runq[q])
          /\ \A p \in Priority : p # q => runq'[p] = runq[p]
        BY <1>1, <1>5, <2>1
    <2>3. PrioOf[y] = q => Before(Tail(runq[q]), t, y)
        BY <1>1, <1>3, <2>1, BeforeTail
    <2> QED  BY <1>3, <2>2, <2>3
<1> QED  BY <1>4, <1>5

(* What a step leaves before y: a task that was taken off its queue, or    *)
(* moved to the end of it, is not kept.                                    *)
LEMMA OrderKept ==
    ASSUME TypeOK, RunQueues, QueueMove, NEW y \in Task, NEW t \in Task,
           t \in Ahead(y), ~Overtakes(t, y), t \notin Gone, t \notin Moved
    PROVE  ~Overtakes(t, y)'
<1>0. InRunq(t) /\ InRunq(t)' /\ t # y
    BY DEF Ahead, Gone
<1>1. CASE runq' = runq
    BY <1>1 DEF Overtakes, InRunq
<1>2. ASSUME NEW u \in Task, Enqueue(u), runq' # runq
      PROVE  ~Overtakes(t, y)'
    <2>1. status[u] # "done"
        BY <1>2 DEF Enqueue, queues
    <2>2. CASE u = t
        <3>1. t = Last(runq[PrioOf[t]])
            BY <1>0, <1>2, <2>1, <2>2, EnqueueOrder DEF Moved
        <3>2. InRunq(y)' => InRunq(y)
            BY <1>0, <1>2, <2>2, EnqueueFacts
        <3>3. ~(InRunq(y) /\ PrioOf[t] = PrioOf[y])
            <4> SUFFICES ASSUME InRunq(y), PrioOf[t] = PrioOf[y]
                         PROVE  FALSE
                OBVIOUS
            <4>1. runq[PrioOf[y]] \in Seq(Task) /\ IsInjective(runq[PrioOf[y]])
                BY PrioOfType DEF TypeOK, RunQueues
            <4>2. Before(runq[PrioOf[y]], t, y)
                BY DEF Overtakes
            <4> QED  BY <3>1, <4>1, <4>2, EndFacts
        <3> QED  BY <3>2, <3>3 DEF Overtakes
    <2>3. CASE u # t
        BY <1>0, <1>2, <2>1, <2>3, EnqueueOrder
    <2> QED  BY <2>2, <2>3
<1>3. ASSUME NEW u \in Task,
             \/ Release(u)
             \/ /\ Runnable # {} /\ u = NextTask /\ sleepq' = sleepq
                /\ runq' = [runq EXCEPT ![Highest] = Tail(@)]
      PROVE  ~Overtakes(t, y)'
    <2>1. \A v \in Task : InRunq(v)' => InRunq(v) /\ v # u
        BY <1>3, ReleaseFacts, PopTaskFacts
    <2>2. t # u
        BY <1>0, <2>1
    <2>3. CASE InRunq(y)'
        BY <1>3, <2>1, <2>2, <2>3, RemoveOrder
    <2>4. CASE ~InRunq(y)'
        BY <2>4 DEF Overtakes
    <2> QED  BY <2>3, <2>4
<1>4. ~(runq' = [p \in Priority |-> <<>>])
    <2>1. PrioOf[t] \in Priority
        BY PrioOfType
    <2> QED  BY <1>0, <2>1, EmptyFacts DEF InRunq
<1>5. Runnable # {} => NextTask \in Task
    BY NextTaskFacts
<1> QED  BY <1>1, <1>2, <1>3, <1>4, <1>5 DEF QueueMove, queues

LEMMA NextKept ==
    ASSUME YInv, [YieldNext]_yvars
    PROVE  KeptAhead'
<1>0. /\ TypeOK /\ RunQueues /\ EventLoop /\ CallStack
      /\ WakesPolled /\ KeptAhead /\ IInv
    BY DEF YInv, IInv, Placement
<1>1. CASE UNCHANGED yvars
    <2>1. runq' = runq /\ kept' = kept /\ pc' = pc /\ batch' = batch /\ after' = after
        BY <1>1 DEF yvars, vars, queues, control
    <2> QED  BY <1>0, <2>1 DEF KeptAhead, Yields, Ahead, Overtakes, InRunq
<1>2. CASE YieldNext
    <2>1. /\ Next /\ QueueMove
          /\ kept' = [y \in Task |-> IF Yields(y) THEN Ahead(y) ELSE kept[y] \ (Gone \cup Moved)]
        BY <1>0, <1>2, StepMovesQueues DEF YieldNext
    <2> SUFFICES ASSUME NEW y \in Task, ~Yields(y)', NEW t \in kept'[y]
                 PROVE  t \in Ahead(y)' /\ ~Overtakes(t, y)'
        BY DEF KeptAhead
    <2>2. CASE Yields(y)
        <3>1. EventsHandled /\ after = y /\ t \in Ahead(y)
            BY <1>0, <2>1, <2>2, YieldEnds DEF Yields
        <3>2. status[y] # "done"
            BY <1>0, <3>1 DEF WakesPolled, CallStack
        <3>3. Enqueue(y)
            BY <3>1 DEF EventsHandled
        <3>4. t \in Task /\ InRunq(t) /\ t # y /\ PrioOf[t] <= PrioOf[y]
            BY <3>1 DEF Ahead
        <3>5. ~Overtakes(t, y)'
            BY <1>0, <3>2, <3>3, <3>4, EnqueueOrder
        <3>6. InRunq(t)'
            BY <1>0, <3>3, <3>4, EnqueueFacts
        <3> QED  BY <3>4, <3>5, <3>6 DEF Ahead
    <2>3. CASE ~Yields(y)
        <3>1. t \in kept[y] /\ t \notin Gone /\ t \notin Moved
            BY <2>1, <2>3
        <3>2. t \in Ahead(y) /\ ~Overtakes(t, y) /\ t \in Task
            BY <1>0, <2>3, <3>1 DEF KeptAhead, Ahead
        <3>3. ~Overtakes(t, y)'
            BY <1>0, <2>1, <3>1, <3>2, OrderKept
        <3>4. t \in Ahead(y)'
            BY <3>1, <3>2 DEF Ahead, Gone
        <3> QED  BY <3>3, <3>4
    <2> QED  BY <2>2, <2>3
<1> QED  BY <1>1, <1>2

(* What a loop polls has nothing left before it. *)
LEMMA StartsHaveNoneAhead ==
    ASSUME YInv, [YieldNext]_yvars, NEW y \in Starts
    PROVE  kept[y] = {}
<1>0. /\ TypeOK /\ RunQueues /\ EventLoop /\ CallStack /\ KeptAhead
    BY DEF YInv, IInv, Placement
<1>1. y \in Task /\ [Next]_vars
    BY DEF Starts, Polling, YieldNext, yvars
<1>2. PollTask
    BY <1>0, <1>1, PollStarts DEF Starts
<1>3. Runnable # {} /\ ~Yields(y) /\ frames' = Append(frames, NextTask)
    BY <1>2 DEF PollTask, Yields
<1>4. /\ Highest \in Priority /\ NextTask \in Task /\ InRunq(NextTask)
      /\ PrioOf[NextTask] = Highest /\ NextTask = Head(runq[Highest])
    BY <1>0, <1>3, NextTaskFacts
<1>5. y = NextTask
    BY <1>0, <1>3, <1>4, PushFacts DEF Starts, Frame
<1> SUFFICES ASSUME NEW t \in kept[y]
             PROVE  FALSE
    OBVIOUS
<1>6. t \in Task /\ InRunq(t) /\ PrioOf[t] <= PrioOf[y] /\ ~Overtakes(t, y)
    BY <1>0, <1>1, <1>3 DEF KeptAhead, Ahead
<1>7. PrioOf[t] \in Runnable
    BY <1>6, PrioOfType, EmptyFacts DEF Runnable, InRunq
<1>8. Highest <= PrioOf[t] /\ PrioOf[t] \in Priority
    BY <1>7, HighestFacts DEF Runnable
<1>9. PrioOf[t] = Highest
    BY <1>4, <1>5, <1>6, <1>8 DEF Priority
<1>10. Before(runq[Highest], t, y)
    BY <1>4, <1>5, <1>6, <1>9 DEF Overtakes
<1>11. runq[Highest] \in Seq(Task) /\ IsInjective(runq[Highest])
    BY <1>0, <1>4 DEF TypeOK, RunQueues
<1> QED  BY <1>4, <1>5, <1>10, <1>11, EndFacts

LEMMA YieldInvariant == YieldSpec => []YInv
<1>1. YieldInit => YInv
    BY InitInvariant, MarkFacts DEF YieldInit, YInv, KeptAhead, WakesPolled, Init
<1>2. YInv /\ [YieldNext]_yvars => YInv'
    <2> SUFFICES ASSUME YInv, [YieldNext]_yvars
                 PROVE  YInv'
        OBVIOUS
    <2>1. [Next]_vars
        BY DEF YieldNext, yvars
    <2> QED  BY <2>1, NextInvariant, NextWakesPolled, NextKept DEF YInv
<1> QED  BY <1>1, <1>2, PTL DEF YieldSpec

(* yield_now() (task.rs:173-174), wake() and enqueue: for any number of    *)
(* tasks, wherever they are woken, spawned and aborted from, a task that   *)
(* yielded is not polled before the tasks of its own and of higher         *)
(* priority that were runnable when its wake() had collected the events.   *)
THEOREM YieldsToThoseAhead == YieldSpec => YieldsToWaiting
<1>1. YInv /\ [YieldNext]_yvars => [\A y \in Starts : kept[y] = {}]_yvars
    BY StartsHaveNoneAhead
<1> QED  BY <1>1, YieldInvariant, PTL DEF YieldSpec, YieldsToWaiting
=============================================================================
