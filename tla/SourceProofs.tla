---------------------------- MODULE SourceProofs ----------------------------
(***************************************************************************)
(* Proofs about the two event sources the crate builds on an Fd: Timers,   *)
(* for any durations and burst limit, and Signals, for any AsyncSignals    *)
(* and any sets of signals.                                                *)
(***************************************************************************)
EXTENDS Timers, Signals, TLAPS

\* In a sleep or a timeout, what is left of the duration and what has passed
\* add up to it, and the fd is readable only when all of it has passed: the
\* readiness that Fd::new assumes shows nothing.
Clock ==
    /\ elapsed <= dur
    /\ op \in {"sleep", "timeout"} =>
          /\ period = 0 /\ result = "none"
          /\ left # 0 => left + elapsed = dur
          /\ level["in"] => dur # 0 /\ elapsed = dur

\* There is a future only inside a timeout, and none once the timeout gave up;
\* once ready it stays so, and one that was asked was not ready before.
Inside ==
    /\ op \in {"sleep", "tick"} => ~fut /\ ~seen
    /\ result = "elapsed" /\ op = "none" => ~fut
    /\ op = "timeout" => (seen => fut) /\ (asked => ~seen)

TimerInv == TypeOK /\ Clock /\ Inside /\ NotEarly /\ FutureWins
-----------------------------------------------------------------------------
(* The timer's fd.                                                         *)

\* What a step that is not Begin or SetAgain does to the fd.
FdStep ==
    \/ F!Arrive("in") \/ F!NotReady("in") \/ F!WouldBlock("in")
    \/ F!Succeed("in") \/ F!Yield("in")
    \/ F!StartPoll("task") \/ F!WakeWaiter("task")
    \/ F!EpollWait \/ F!EndPoll \/ UNCHANGED fd

(* EpollWaker (executor.rs:471-545): its fields keep their types. *)
LEMMA FdStepTypes ==
    ASSUME F!TypeOK, FdStep
    PROVE  F!TypeOK'
<1> USE BurstLimitType DEF F!TypeOK, F!kernel, F!fd, F!NoWaiter
<1>0. F!Reported \subseteq {"in"} /\ F!Woken \subseteq {"task"}
    BY DEF F!Reported, F!Woken
<1>1. CASE F!Arrive("in") \/ F!StartPoll("task") \/ F!WakeWaiter("task") \/ F!EndPoll
    <2>1. CASE F!Arrive("in")
        BY <2>1 DEF F!Arrive
    <2>2. CASE F!StartPoll("task")
        BY <2>2 DEF F!StartPoll
    <2>3. CASE F!WakeWaiter("task")
        BY <2>3 DEF F!WakeWaiter
    <2>4. CASE F!EndPoll
        BY <2>4 DEF F!EndPoll
    <2> QED  BY <1>1, <2>1, <2>2, <2>3, <2>4
<1>2. CASE F!NotReady("in") \/ F!WouldBlock("in")
    <2>1. F!Park("in") /\ polling = "task" /\ events' \subseteq {"in"}
        BY <1>2 DEF F!NotReady, F!WouldBlock, F!MayTry
    <2>2. /\ burst' = 0 /\ waker' = "task" /\ pended' \subseteq {"in"}
          /\ waits' \in [{"task"} -> SUBSET {"in"}]
        BY <2>1 DEF F!Park
    <2> QED  BY <2>1, <2>2 DEF F!Park
<1>3. CASE F!Succeed("in")
    <2>1. burst' \in 0..BurstLimit /\ readies' \in Nat
        BY <1>3 DEF F!Succeed
    <2> QED  BY <1>3, <2>1 DEF F!Succeed
<1>4. CASE F!Yield("in")
    <2>1. /\ polling = "task" /\ burst' = 0 /\ pended' = pended \cup {"in"}
          /\ edge' \in BOOLEAN /\ events' \subseteq {"in"} /\ due' \subseteq {"task"}
          /\ level' = level /\ waker' = waker /\ polling' = polling
          /\ waits' = waits /\ readies' = readies
        BY <1>0, <1>4 DEF F!Yield, F!MayTry, F!Dispatch
    <2> QED  BY <2>1
<1>5. CASE F!EpollWait
    BY <1>0, <1>5 DEF F!EpollWait, F!Dispatch
<1>6. CASE UNCHANGED fd
    BY <1>6 DEF fd
<1> QED  BY <1>1, <1>2, <1>3, <1>4, <1>5, <1>6 DEF FdStep

(* Only an arrival makes the fd readable. *)
LEMMA FdStepLevel ==
    ASSUME F!TypeOK, FdStep, level'["in"], ~level["in"]
    PROVE  F!Arrive("in")
BY DEF FdStep, F!TypeOK, F!kernel, F!fd, fd, F!Arrive, F!StartPoll, F!WakeWaiter, F!EndPoll,
       F!NotReady, F!WouldBlock, F!Park, F!Succeed, F!Yield, F!EpollWait
-----------------------------------------------------------------------------
LEMMA InitTimer == Init => TimerInv
<1> SUFFICES ASSUME Init
             PROVE  TimerInv
    OBVIOUS
<1>1. F!TypeOK
    <2>1. level \in [{"in"} -> BOOLEAN] /\ edge \in BOOLEAN /\ events \subseteq {"in"}
        BY DEF Init, F!Init
    <2>2. burst \in 0..BurstLimit /\ readies \in Nat
        BY BurstLimitType DEF Init, F!Init
    <2>3. waker \in {"task"} \cup {F!NoWaiter} /\ polling \in {"task"} \cup {F!NoWaiter}
        BY DEF Init, F!Init, F!NoWaiter
    <2>4. /\ pended \subseteq {"in"} /\ due \subseteq {"task"}
          /\ waits \in [{"task"} -> SUBSET {"in"}]
        BY DEF Init, F!Init
    <2> QED  BY <2>1, <2>2, <2>3, <2>4 DEF F!TypeOK
<1>2. /\ left = 0 /\ period = 0 /\ elapsed = 0 /\ dur = 0
      /\ op = "none" /\ result = "none" /\ fut = FALSE /\ asked = FALSE /\ seen = FALSE
    BY DEF Init
<1>3. {fut, asked, seen} \subseteq BOOLEAN
    BY <1>2
<1>4. TypeOK
    BY <1>1, <1>2, <1>3 DEF TypeOK
<1> QED  BY <1>2, <1>4 DEF TimerInv, Clock, Inside, NotEarly, FutureWins

(* Timer::new and set (timer.rs): a call begins with all of its time left. *)
LEMMA ArmSafe ==
    ASSUME TimerInv, NEW d \in Duration, NEW p \in Duration \cup {0},
           \/ \E o \in {"sleep", "timeout"} : Begin(o, d, 0)
           \/ Begin("tick", d, p) \/ SetAgain(d, p)
    PROVE  TimerInv'
<1>1. d \in Nat /\ p \in Nat
    BY DurationType
<1>2. F!TypeOK' /\ ~level'["in"]
    <2>1. F!TypeOK /\ level' = [level EXCEPT !["in"] = FALSE]
        BY DEF Begin, SetAgain, TimerInv, TypeOK
    <2>2. level' \in [{"in"} -> BOOLEAN] /\ ~level'["in"]
        BY <2>1 DEF F!TypeOK
    <2>3. CASE SetAgain(d, p)
        BY <2>1, <2>2, <2>3 DEF SetAgain, F!TypeOK
    <2>4. CASE \E o \in {"sleep", "timeout", "tick"}, r \in {p, 0} : Begin(o, d, r)
        <3>1. /\ edge' = FALSE /\ events' = {"in"} /\ waker' = "none" /\ burst' = 0
              /\ pended' = {} /\ readies' = 0
              /\ polling' = polling /\ waits' = waits /\ due' = due
            BY <2>4 DEF Begin, F!NoWaiter
        <3>2. burst' \in 0..BurstLimit /\ readies' \in Nat
            BY <3>1, BurstLimitType
        <3>3. waker' \in {"task"} \cup {F!NoWaiter} /\ edge' \in BOOLEAN
            BY <3>1 DEF F!NoWaiter
        <3> QED  BY <2>1, <2>2, <3>1, <3>2, <3>3 DEF F!TypeOK
    <2> QED  BY <2>2, <2>3, <2>4
<1>3. elapsed' = 0 /\ dur' = d /\ left' = d /\ period' \in Nat
    <2>1. PICK r \in {p, 0} : Arm(d, r)
        BY DEF Begin, SetAgain
    <2> QED  BY <1>1, <2>1 DEF Arm
<1>4. CASE SetAgain(d, p)
    <2>1. /\ op = "tick" /\ op' = op /\ result' = result
          /\ fut' = fut /\ asked' = asked /\ seen' = seen
        BY <1>4 DEF SetAgain
    <2> QED  BY <1>1, <1>2, <1>3, <2>1
             DEF TimerInv, TypeOK, Clock, Inside, NotEarly, FutureWins
<1>5. ASSUME NEW o \in {"sleep", "timeout", "tick"}, NEW r \in {p, 0}, Begin(o, d, r),
             o # "tick" => r = 0
      PROVE  TimerInv'
    <2>1. /\ op' = o /\ fut' \in BOOLEAN /\ (fut' => o = "timeout")
          /\ seen' = fut' /\ asked' = FALSE /\ result' = "none"
          /\ period' = IF d = 0 THEN 0 ELSE r
        BY <1>5 DEF Begin, Arm
    <2>2. o # "tick" => period' = 0
        BY <1>5, <2>1
    <2>3. TypeOK'
        <3>1. op' \in {"none", "sleep", "timeout", "tick"} /\ {fut', asked', seen'} \subseteq BOOLEAN
            BY <2>1
        <3> QED  BY <1>1, <1>2, <1>3, <2>1, <3>1 DEF TypeOK
    <2>4. Clock'
        BY <1>1, <1>2, <1>3, <2>1, <2>2 DEF Clock
    <2> QED  BY <2>1, <2>3, <2>4 DEF TimerInv, Inside, NotEarly, FutureWins
<1> QED  BY <1>4, <1>5

(* Time passes: the timer expires when the duration has passed. *)
LEMMA AdvanceSafe ==
    ASSUME TimerInv, Advance
    PROVE  TimerInv'
<1> USE DEF TimerInv, TypeOK
<1>1. /\ elapsed' = IF elapsed < dur THEN elapsed + 1 ELSE elapsed
      /\ left' = IF left = 1 THEN period ELSE IF left = 0 THEN 0 ELSE left - 1
      /\ period' = period /\ op' = op /\ dur' = dur /\ result' = result
      /\ fut' = fut /\ asked' = asked /\ seen' = seen
    BY DEF Advance, call
<1>2. left # 1 => UNCHANGED fd
    BY DEF Advance
<1>3. FdStep
    BY <1>2 DEF Advance, FdStep
<1>4. F!TypeOK'
    BY <1>3, FdStepTypes
<1>5. level'["in"] => level["in"] \/ left = 1
    BY <1>2 DEF fd
<1>6. TypeOK'
    BY <1>1, <1>4
<1>7. Clock'
    BY <1>1, <1>5 DEF Clock
<1> QED  BY <1>1, <1>6, <1>7 DEF Inside, NotEarly, FutureWins

(* A poll of the task: what the fd and the call return. *)
LEMMA PollSafe ==
    ASSUME TimerInv,
           StartPoll \/ AskFuture \/ FutureDone \/ TickReady \/ TickPending \/ EndPoll
    PROVE  TimerInv'
<1> USE DEF TimerInv, TypeOK
<1>0. FdStep
    BY DEF FdStep, StartPoll, AskFuture, FutureDone, TickReady, TickPending, EndPoll
<1>1. F!TypeOK' /\ (level'["in"] => level["in"])
    <2>1. ~F!Arrive("in") \/ level["in"]
        BY DEF StartPoll, AskFuture, FutureDone, TickReady, TickPending, EndPoll, F!StartPoll,
               F!Succeed, F!Yield, F!NotReady, F!WouldBlock, F!Park, F!EndPoll, F!Arrive, F!kernel, F!fd, fd,
               F!TypeOK
    <2> QED  BY <1>0, <2>1, FdStepTypes, FdStepLevel
<1>2. CASE StartPoll
    BY <1>1, <1>2 DEF StartPoll, clock, Clock, Inside, NotEarly, FutureWins
<1>3. CASE FutureDone
    <2>1. /\ op = "timeout" /\ op' = "none" /\ result' = "ready" /\ ~fut' /\ ~asked'
          /\ {fut', asked', seen'} \subseteq BOOLEAN
          /\ dur' = dur /\ left' = left /\ period' = period /\ elapsed' = elapsed
        BY <1>3 DEF FutureDone, Return, clock
    <2> QED  BY <1>1, <2>1 DEF Clock, Inside, NotEarly, FutureWins
<1>6. CASE AskFuture
    <2>1. /\ op = "timeout" /\ ~fut /\ asked' = TRUE /\ op' = op /\ dur' = dur /\ fut' = fut
          /\ seen' = seen /\ result' = result
          /\ left' = left /\ period' = period /\ elapsed' = elapsed
        BY <1>6 DEF AskFuture, clock
    <2>2. {fut', asked', seen'} \subseteq BOOLEAN
        BY <2>1
    <2> QED  BY <1>1, <2>1, <2>2 DEF Clock, Inside, NotEarly, FutureWins
<1>4. CASE TickReady
    <2>1. level["in"] /\ (op = "timeout" => asked) /\ op # "none"
        BY <1>4 DEF TickReady, TimerNext, F!Succeed
    <2>2. /\ result' = "elapsed" /\ op' = (IF op = "tick" THEN op ELSE "none")
          /\ ~fut' /\ ~asked'
          /\ dur' = dur /\ seen' = seen /\ left' = left /\ period' = period
          /\ elapsed' = elapsed
        BY <1>4 DEF TickReady, Return
    <2>3. {fut', asked', seen'} \subseteq BOOLEAN
        BY <1>4, <2>2 DEF TickReady, Return
    <2>4. ~seen
        BY <2>1 DEF Inside
    <2> QED  BY <1>1, <2>1, <2>2, <2>3, <2>4 DEF Clock, Inside, NotEarly, FutureWins
<1>5. CASE TickPending \/ EndPoll
    BY <1>1, <1>5 DEF TickPending, EndPoll, clock, call, Clock, Inside, NotEarly, FutureWins
<1> QED  BY <1>2, <1>3, <1>4, <1>5, <1>6

LEMMA NextTimer == TimerInv /\ [Next]_vars => TimerInv'
<1> SUFFICES ASSUME TimerInv, [Next]_vars
             PROVE  TimerInv'
    OBVIOUS
<1> USE DEF TimerInv, TypeOK
<1>1. ASSUME NEW d \in Duration, NEW p \in Duration,
             \/ \E o \in {"sleep", "timeout"} : Begin(o, d, 0)
             \/ Begin("tick", d, p) \/ SetAgain(d, p)
      PROVE  TimerInv'
    BY <1>1, ArmSafe
<1>2. CASE FutureReady
    <2>1. F!TypeOK' /\ level' = level
        BY <1>2, FdStepTypes DEF FutureReady, FdStep, F!WakeWaiter, F!kernel
    <2> QED  BY <1>2, <2>1 DEF FutureReady, clock, Clock, Inside, NotEarly, FutureWins
<1>3. CASE EpollWait \/ WakeTask
    <2>1. F!TypeOK' /\ level' = level
        BY <1>3, FdStepTypes DEF EpollWait, WakeTask, FdStep, F!WakeWaiter, F!EpollWait,
           F!kernel
    <2> QED  BY <1>3, <2>1 DEF EpollWait, WakeTask, clock, call, Clock, Inside, NotEarly,
                FutureWins
<1>4. CASE Abandon
    <2>1. F!TypeOK' /\ level' = level
        BY <1>4 DEF Abandon, F!TypeOK
    <2> QED  BY <1>4, <2>1 DEF Abandon, clock, Clock, Inside, NotEarly, FutureWins
<1>5. CASE UNCHANGED vars
    <2>1. F!TypeOK' /\ level' = level
        BY <1>5, FdStepTypes DEF vars, FdStep, fd
    <2> QED  BY <1>5, <2>1 DEF vars, clock, call, Clock, Inside, NotEarly, FutureWins
<1> QED  BY <1>1, <1>2, <1>3, <1>4, <1>5, AdvanceSafe, PollSafe DEF Next
-----------------------------------------------------------------------------
(* time.rs and timer.rs: the clock of a call, what its timer's fd shows    *)
(* and how calls end fit together whatever calls are made and abandoned.   *)
THEOREM TimerInvariant == Spec => []TimerInv
BY InitTimer, NextTimer, PTL DEF Spec

(* Timer (timer.rs) and its EpollWaker: the variables keep their types.    *)
THEOREM TimerTypes == Spec => []TypeOK
<1>1. TimerInv => TypeOK
    BY DEF TimerInv
<1> QED  BY <1>1, TimerInvariant, PTL

(* sleep and timeout (time.rs:38-54, 6-36): neither ends because of the    *)
(* readiness that Fd::new assumes, nor for any other reason before the     *)
(* duration has passed.                                                    *)
THEOREM NeverEarly == Spec => []NotEarly
<1>1. TimerInv => NotEarly
    BY DEF TimerInv
<1> QED  BY <1>1, TimerInvariant, PTL

(* Timeout::poll (time.rs:25-35): a future that was ready when the poll or *)
(* the timeout itself began is not given up for an expiry: until the timer *)
(* is asked the future has been asked in the same poll.                    *)
THEOREM FutureIsFirst == Spec => []FutureWins
<1>1. TimerInv => FutureWins
    BY DEF TimerInv
<1> QED  BY <1>1, TimerInvariant, PTL
-----------------------------------------------------------------------------
\* What the timer's fd knows while the task waits: an expiry is recorded or
\* about to be reported, a task that waits and was not woken left its waker and
\* no readiness, and a poll does not ask the timer twice.  The task waits only
\* inside a call, and in a timeout not before its future was asked.
Expiry ==
    /\ level["in"] => edge \/ events = {"in"}
    /\ waits["task"] # {} /\ "task" \notin due => events = {} /\ waker = "task"
    /\ polling = "task" => waits["task"] \subseteq pended
    /\ op = "none" => waits["task"] = {}
    /\ polling = "task" /\ op = "timeout" /\ ~asked => waits["task"] = {}

ExpiryInv == TimerInv /\ Expiry

LEMMA InitExpiry == Init => Expiry
BY DEF Init, F!Init, Expiry

\* Whoever asks the timer does not wait for it yet.
LEMMA NotYetWaiting ==
    ASSUME ExpiryInv, F!MayTry("in")
    PROVE  /\ polling = "task" /\ waits["task"] = {}
           /\ events # {} => events = {"in"}
<1> USE DEF ExpiryInv, TimerInv, TypeOK, F!TypeOK
<1>1. polling = "task" /\ "in" \notin pended
    BY DEF F!MayTry, F!NoWaiter
<1>2. waits["task"] \subseteq {"in"} /\ waits["task"] \subseteq pended
    BY <1>1 DEF Expiry
<1> QED  BY <1>1, <1>2

(* A poll of the timer (fd.rs, executor.rs:500-545). *)
LEMMA AskExpiry ==
    ASSUME ExpiryInv, TickReady \/ TickPending
    PROVE  Expiry'
<1> USE DEF ExpiryInv, TimerInv, TypeOK, F!TypeOK, F!kernel, F!fd
<1>1. op # "none" /\ (op = "timeout" => asked)
    BY DEF TickReady, TickPending, TimerNext
<1>2. F!MayTry("in")
    BY DEF TickReady, TickPending, F!Succeed, F!NotReady, F!WouldBlock, F!Yield
<1>3. /\ polling = "task" /\ waits["task"] = {}
      /\ events # {} => events = {"in"}
    BY <1>2, NotYetWaiting
<1>4. CASE TickReady
    BY <1>3, <1>4 DEF TickReady, F!Succeed, Expiry
<1>5. ASSUME TickPending, F!NotReady("in") \/ F!WouldBlock("in")
      PROVE  Expiry'
    <2>1. /\ events' = {} /\ waker' = "task" /\ pended' = pended \cup {"in"}
          /\ waits'["task"] = {"in"} /\ level' = level /\ edge' = edge
          /\ polling' = polling
        BY <1>3, <1>5 DEF F!NotReady, F!WouldBlock, F!Park
    <2>2. events = {} \/ ~level["in"]
        BY <1>5 DEF F!NotReady, F!WouldBlock
    <2>3. op' = op /\ asked' = asked
        BY <1>5 DEF TickPending, call
    <2> QED  BY <1>1, <2>1, <2>2, <2>3 DEF Expiry
<1>6. ASSUME TickPending, F!Yield("in")
      PROVE  Expiry'
    <2>1. events = {"in"} /\ F!Reported \subseteq {"in"}
        BY <1>3, <1>6 DEF F!Yield, F!Reported
    <2>2. events' = {"in"} /\ waits' = waits /\ polling' = polling
        BY <1>6, <2>1 DEF F!Yield, F!Dispatch
    <2> QED  BY <1>3, <2>2 DEF Expiry
<1> QED  BY <1>4, <1>5, <1>6 DEF TickPending

LEMMA NextExpiry == ExpiryInv /\ [Next]_vars => Expiry'
<1> SUFFICES ASSUME ExpiryInv, [Next]_vars
             PROVE  Expiry'
    OBVIOUS
<1> USE DEF ExpiryInv, TimerInv, TypeOK, F!TypeOK, F!kernel, F!fd
<1>1. ASSUME NEW d \in Duration, NEW p \in Duration,
             \/ \E o \in {"sleep", "timeout"} : Begin(o, d, 0)
             \/ Begin("tick", d, p) \/ SetAgain(d, p)
      PROVE  Expiry'
    <2>1. ~level'["in"]
        BY <1>1 DEF Begin, SetAgain
    <2>2. waits'["task"] = {} /\ op' # "none"
        BY <1>1 DEF Begin, SetAgain, Expiry
    <2> QED  BY <2>1, <2>2 DEF Expiry
<1>2. CASE Advance
    <2>1. op' = op /\ asked' = asked
        BY <1>2 DEF Advance, call
    <2>2. CASE F!Arrive("in")
        BY <2>1, <2>2 DEF F!Arrive, Expiry
    <2>3. CASE UNCHANGED fd
        BY <2>1, <2>3 DEF fd, Expiry
    <2> QED  BY <1>2, <2>2, <2>3 DEF Advance
<1>3. CASE FutureReady \/ WakeTask
    <2>1. F!WakeWaiter("task") /\ op' = op /\ asked' = asked
        BY <1>3 DEF FutureReady, WakeTask, call
    <2> QED  BY <2>1 DEF F!WakeWaiter, Expiry
<1>4. CASE EpollWait
    <2>1. op' = op /\ asked' = asked /\ F!EpollWait
        BY <1>4 DEF EpollWait, call
    <2>2. F!Reported = IF level["in"] THEN {"in"} ELSE {}
        BY <2>1 DEF F!EpollWait, F!Reported
    <2>3. events' = events \cup F!Reported /\ due' = due \cup F!Woken
          /\ level' = level /\ waits' = waits /\ waker' = waker /\ polling' = polling
        BY <2>1 DEF F!EpollWait, F!Dispatch
    <2>4. polling' # "task"
        BY <2>1 DEF F!EpollWait, F!NoWaiter
    <2>5. waits'["task"] # {} /\ "task" \notin due' => events' = {} /\ waker' = "task"
        BY <2>2, <2>3 DEF F!Woken, Expiry
    <2> QED  BY <2>1, <2>2, <2>3, <2>4, <2>5 DEF Expiry
<1>5. CASE StartPoll
    <2>1. waits'["task"] = {} /\ level' = level /\ edge' = edge /\ events' = events
        BY <1>5 DEF StartPoll, F!StartPoll
    <2> QED  BY <2>1 DEF Expiry
<1>6. CASE FutureDone
    <2>1. waits["task"] = {} /\ waits' = waits /\ level' = level /\ edge' = edge
          /\ events' = events
        BY <1>6 DEF FutureDone, fd, Expiry
    <2> QED  BY <2>1 DEF Expiry
<1>10. CASE AskFuture
    <2>1. waits["task"] = {} /\ waits' = waits /\ level' = level /\ edge' = edge
          /\ events' = events
        BY <1>10 DEF AskFuture, fd, Expiry
    <2> QED  BY <2>1 DEF Expiry
<1>7. CASE EndPoll
    <2>1. polling' # "task"
        BY <1>7 DEF EndPoll, F!EndPoll, F!NoWaiter
    <2> QED  BY <1>7, <2>1 DEF EndPoll, F!EndPoll, call, Expiry
<1>8. CASE Abandon
    <2>1. waits'["task"] = {} /\ level' = level /\ edge' = edge /\ events' = events
        BY <1>8 DEF Abandon
    <2> QED  BY <2>1 DEF Expiry
<1>9. CASE UNCHANGED vars
    BY <1>9 DEF vars, fd, call, Expiry
<1> QED  BY <1>1, <1>2, <1>3, <1>4, <1>5, <1>6, <1>7, <1>8, <1>9, <1>10, AskExpiry
    DEF Next

(* tick (timer.rs:31) and EpollWaker (executor.rs:268-281, 531-535): no    *)
(* expiry is lost between the read that would block and the wake of the    *)
(* task, whatever calls were made, set again and abandoned before.         *)
THEOREM ExpiryIsKept == Spec => []ExpiryKept
<1>1. Init => ExpiryInv
    BY InitTimer, InitExpiry DEF ExpiryInv
<1>2. ExpiryInv /\ [Next]_vars => ExpiryInv'
    BY NextTimer, NextExpiry DEF ExpiryInv
<1>3. ExpiryInv => ExpiryKept
    BY DEF ExpiryInv, Expiry, ExpiryKept
<1> QED  BY <1>1, <1>2, <1>3, PTL DEF Spec
-----------------------------------------------------------------------------
(* Signals. *)

\* The application blocks no signal that an AsyncSignal receives: that is what
\* lets Drop unblock its whole set.
AppApart == app \cap Received = {}

SInv == SignalsTypeOK /\ NoSharedSignal /\ MaskAccounted /\ AppApart

LEMMA ReceivedBy ==
    \A s : s \in Received <=> \E a \in Async : state[a] = "live" /\ s \in SigSet[a]
BY DEF Received, Live

LEMMA LeakedBy ==
    \A s : s \in Leaked <=> \E a \in Async : state[a] = "failed" /\ s \in SigSet[a]
BY DEF Leaked

(* A step that makes and drops no AsyncSignal. *)
LEMMA SameState ==
    ASSUME state' = state
    PROVE  Received' = Received /\ Leaked' = Leaked /\ Live' = Live
BY DEF Received, Leaked, Live

\* What a step that sets the state of a to v does to what is received.
LEMMA NewState ==
    ASSUME SignalsTypeOK, NEW a \in Async, NEW v, state' = [state EXCEPT ![a] = v],
           state[a] # "failed"
    PROVE  /\ \A b \in Async : state'[b] = IF b = a THEN v ELSE state[b]
           /\ v = "live" => Received' = Received \cup SigSet[a] /\ Leaked' = Leaked
           /\ v = "failed" /\ state[a] # "live" =>
                  Received' = Received /\ Leaked' = Leaked \cup SigSet[a]
           /\ v = "gone" /\ state[a] = "unmade" => Received' = Received /\ Leaked' = Leaked
<1>1. \A b \in Async : state'[b] = IF b = a THEN v ELSE state[b]
    BY DEF SignalsTypeOK
<1>2. \A s : s \in Received' <=> \E b \in Async : state'[b] = "live" /\ s \in SigSet[b]
    BY DEF Received, Live
<1>3. \A s : s \in Leaked' <=> \E b \in Async : state'[b] = "failed" /\ s \in SigSet[b]
    BY DEF Leaked
<1>4. v = "live" => Received' = Received \cup SigSet[a] /\ Leaked' = Leaked
    <2> SUFFICES ASSUME v = "live"
                 PROVE  Received' = Received \cup SigSet[a] /\ Leaked' = Leaked
        OBVIOUS
    <2>1. \A s : s \in Received' <=> s \in Received \/ s \in SigSet[a]
        BY <1>1, <1>2, ReceivedBy
    <2>2. \A s : s \in Leaked' <=> s \in Leaked
        BY <1>1, <1>3, LeakedBy
    <2> QED  BY <2>1, <2>2
<1>5. v = "failed" /\ state[a] # "live" =>
          Received' = Received /\ Leaked' = Leaked \cup SigSet[a]
    <2> SUFFICES ASSUME v = "failed", state[a] # "live"
                 PROVE  Received' = Received /\ Leaked' = Leaked \cup SigSet[a]
        OBVIOUS
    <2>1. \A s : s \in Received' <=> s \in Received
        BY <1>1, <1>2, ReceivedBy
    <2>2. \A s : s \in Leaked' <=> s \in Leaked \/ s \in SigSet[a]
        BY <1>1, <1>3, LeakedBy
    <2> QED  BY <2>1, <2>2
<1>6. v = "gone" /\ state[a] = "unmade" => Received' = Received /\ Leaked' = Leaked
    <2> SUFFICES ASSUME v = "gone", state[a] = "unmade"
                 PROVE  Received' = Received /\ Leaked' = Leaked
        OBVIOUS
    <2>1. \A s : s \in Received' <=> s \in Received
        BY <1>1, <1>2, ReceivedBy
    <2>2. \A s : s \in Leaked' <=> s \in Leaked
        BY <1>1, <1>3, LeakedBy
    <2> QED  BY <2>1, <2>2
<1> QED  BY <1>1, <1>4, <1>5, <1>6
-----------------------------------------------------------------------------
LEMMA InitSignals == SignalsInit => SInv
<1> SUFFICES ASSUME SignalsInit
             PROVE  SInv
    OBVIOUS
<1>1. \A s : s \notin Received
    BY ReceivedBy DEF SignalsInit
<1> QED  BY <1>1 DEF SignalsInit, SInv, SignalsTypeOK, NoSharedSignal,
            MaskAccounted, AppApart, Live

(* new() (signal.rs:24-48), failing or not. *)
LEMMA NewSafe ==
    ASSUME SInv, NEW a \in Async, NewRefused(a) \/ New(a) \/ NewFails(a)
    PROVE  SInv'
<1> USE SigSetType DEF SInv
<1>1. CASE NewRefused(a)
    <2>1. /\ state' = [state EXCEPT ![a] = "gone"] /\ state[a] = "unmade"
          /\ UNCHANGED <<mask, app, pending>>
        BY <1>1 DEF NewRefused
    <2>2. Received' = Received /\ Leaked' = Leaked
        BY <2>1, NewState
    <2> QED  BY <2>1, <2>2 DEF SignalsTypeOK, NoSharedSignal, MaskAccounted,
                AppApart, Live
<1>2. CASE New(a)
    <2>1. /\ state' = [state EXCEPT ![a] = "live"] /\ state[a] = "unmade"
          /\ mask' = mask \cup SigSet[a] /\ SigSet[a] \cap mask = {}
          /\ UNCHANGED <<app, pending>>
        BY <1>2 DEF New, NotBlocked
    <2>2. Received' = Received \cup SigSet[a] /\ Leaked' = Leaked
        BY <2>1, NewState
    <2>3. \A b \in Async : state[b] = "live" => SigSet[b] \subseteq mask
        BY ReceivedBy DEF MaskAccounted
    <2>4. NoSharedSignal'
        BY <2>1, <2>3, NewState DEF NoSharedSignal, Live
    <2> QED  BY <2>1, <2>2, <2>4 DEF SignalsTypeOK, MaskAccounted, AppApart
<1>3. CASE NewFails(a)
    <2>1. /\ state' = [state EXCEPT ![a] = "failed"] /\ state[a] = "unmade"
          /\ mask' = mask \cup SigSet[a]
          /\ UNCHANGED <<app, pending>>
        BY <1>3 DEF NewFails
    <2>2. Received' = Received /\ Leaked' = Leaked \cup SigSet[a]
        BY <2>1, NewState
    <2> QED  BY <2>1, <2>2, NewState
             DEF SignalsTypeOK, NoSharedSignal, MaskAccounted, AppApart, Live
<1> QED  BY <1>1, <1>2, <1>3

(* Drop (signal.rs:68-73). *)
LEMMA DropSafe ==
    ASSUME SInv, NEW a \in Async, Drop(a)
    PROVE  SInv'
<1> USE SigSetType DEF SInv
<1>1. /\ state' = [state EXCEPT ![a] = "gone"] /\ state[a] = "live"
      /\ mask' = mask \ SigSet[a] /\ pending' = pending \ SigSet[a]
      /\ app' = app
    BY DEF Drop
<1>2. \A b \in Async : state'[b] = IF b = a THEN "gone" ELSE state[b]
    BY <1>1, NewState
<1>3. \A b \in Async : b # a /\ state[b] = "live" => SigSet[b] \cap SigSet[a] = {}
    BY <1>1 DEF NoSharedSignal, Live
<1>4. \A s : s \in Received' <=> s \in Received /\ s \notin SigSet[a]
    <2>1. \A s : s \in Received' <=> \E b \in Async : state'[b] = "live" /\ s \in SigSet[b]
        BY DEF Received, Live
    <2> QED  BY <1>1, <1>2, <1>3, <2>1, ReceivedBy
<1>5. \A s : s \in Leaked' <=> s \in Leaked
    <2>1. \A s : s \in Leaked' <=> \E b \in Async : state'[b] = "failed" /\ s \in SigSet[b]
        BY DEF Leaked
    <2> QED  BY <1>1, <1>2, <2>1, LeakedBy
<1>6. \A s \in SigSet[a] : s \in Received
    BY <1>1, ReceivedBy
<1>7. MaskAccounted' /\ AppApart'
    BY <1>1, <1>4, <1>5, <1>6 DEF MaskAccounted, AppApart
<1> QED  BY <1>1, <1>2, <1>7 DEF SignalsTypeOK, NoSharedSignal, Live

LEMMA NextSignals == SInv /\ [SignalsNext]_svars => SInv'
<1> SUFFICES ASSUME SInv, [SignalsNext]_svars
             PROVE  SInv'
    OBVIOUS
<1> USE DEF SInv
<1>1. ASSUME NEW a \in Async, NewRefused(a) \/ New(a) \/ NewFails(a) \/ Drop(a)
      PROVE  SInv'
    BY <1>1, NewSafe, DropSafe
<1>2. ASSUME NEW s \in Signal,
             (\E a \in Async : Receive(a, s)) \/ Raise(s) \/ AppBlock(s) \/ AppUnblock(s)
      PROVE  SInv'
    <2>1. Received' = Received /\ Leaked' = Leaked /\ Live' = Live /\ state' = state
        BY <1>2, SameState DEF Receive, Raise, AppBlock, AppUnblock
    <2>2. CASE \E a \in Async : Receive(a, s)
        BY <2>1, <2>2 DEF Receive, SignalsTypeOK, NoSharedSignal, MaskAccounted,
           AppApart
    <2>3. CASE Raise(s)
        BY <2>1, <2>3 DEF Raise, SignalsTypeOK, NoSharedSignal, MaskAccounted,
           AppApart
    <2>4. CASE AppBlock(s)
        BY <2>1, <2>4 DEF AppBlock, SignalsTypeOK, NoSharedSignal,
           MaskAccounted, AppApart
    <2>5. CASE AppUnblock(s)
        BY <2>1, <2>5 DEF AppUnblock, SignalsTypeOK, NoSharedSignal,
           MaskAccounted, AppApart
    <2> QED  BY <1>2, <2>2, <2>3, <2>4, <2>5
<1>3. CASE UNCHANGED svars
    BY <1>3, SameState DEF svars, SignalsTypeOK, NoSharedSignal, MaskAccounted,
       AppApart
<1> QED  BY <1>1, <1>2, <1>3 DEF SignalsNext
-----------------------------------------------------------------------------
(* signal.rs: the mask, the AsyncSignals alive and what the application    *)
(* blocked agree after any sequence of calls, failed ones included.        *)
THEOREM SignalsInvariant == SignalsSpec => []SInv
BY InitSignals, NextSignals, PTL DEF SignalsSpec

(* AsyncSignal::new (signal.rs:29-36): no signal has two receivers.        *)
THEOREM SignalsNotShared == SignalsSpec => []NoSharedSignal
<1>1. SInv => NoSharedSignal
    BY DEF SInv
<1> QED  BY <1>1, SignalsInvariant, PTL

(* Drop for AsyncSignal (signal.rs:68-73): the mask is what the            *)
(* application and the AsyncSignals alive block, and what failed ones left.*)
THEOREM MaskIsAccounted == SignalsSpec => []MaskAccounted
<1>1. SInv => MaskAccounted
    BY DEF SInv
<1> QED  BY <1>1, SignalsInvariant, PTL
=============================================================================
