------------------------------- MODULE Timers -------------------------------
(***************************************************************************)
(* Timer (src/src/timer.rs), sleep and timeout (src/src/time.rs), on the   *)
(* readiness of the timer's fd as FdReadiness has it: an expiry is its     *)
(* arrival, which reading or setting the timer takes away.  One task makes *)
(* the timers, one after the other.                                        *)
(***************************************************************************)
EXTENDS Naturals

CONSTANTS Duration,    \* durations the task asks for
          BurstLimit

ASSUME DurationType == Duration \subseteq Nat /\ Duration # {}
ASSUME BurstLimitType == BurstLimit \in Nat \ {0}

VARIABLES level, edge, events, waker, burst, polling, pended, waits, due, readies,
    left,       \* time until the next expiry, 0 when the timer is disarmed
    period,     \* time between later expiries, 0 for a one-shot
    op,         \* what the task is in: "none", "sleep", "timeout" or "tick"
    dur,        \* the duration it asked for
    elapsed,    \* time since then, counted up to dur
    fut,        \* the future inside the timeout is ready
    asked,      \* it was not when this poll of the timeout asked it
    seen,       \* history: it was when the call, or the last poll, began
    result      \* how the last sleep or timeout ended

F == INSTANCE FdReadiness WITH Interest <- {"in"}, Waiter <- {"task"}, Foreign <- {}

fd    == <<level, edge, events, waker, burst, polling, pended, waits, due, readies>>
clock == <<left, period, elapsed>>
call  == <<op, dur, fut, asked, seen, result>>
vars  == <<fd, clock, call>>

Init ==
    /\ F!Init /\ ~edge
    /\ left = 0 /\ period = 0 /\ elapsed = 0
    /\ op = "none" /\ dur = 0 /\ result = "none"
    /\ fut = FALSE /\ asked = FALSE /\ seen = FALSE
-----------------------------------------------------------------------------
\* Timer::set: a duration of 0 disarms the timer.
Arm(d, p) ==
    /\ left' = d /\ period' = IF d = 0 THEN 0 ELSE p
    /\ elapsed' = 0 /\ dur' = d

\* Timer::new and set; the task is in a poll.  Fd::new assumes that a new timer
\* can be read.  The timer of the last call, if there was one, is dropped.  The
\* future of a timeout may be ready before it is asked.
Begin(o, d, p) ==
    /\ op = "none" /\ polling = "task"
    /\ level' = [level EXCEPT !["in"] = FALSE] /\ edge' = FALSE
    /\ events' = {"in"} /\ waker' = F!NoWaiter /\ burst' = 0
    /\ pended' = {} /\ readies' = 0
    /\ Arm(d, p)
    /\ op' = o /\ fut' \in {FALSE, o = "timeout"} /\ seen' = fut'
    /\ asked' = FALSE /\ result' = "none"
    /\ UNCHANGED <<polling, waits, due>>

\* The owner of a timer drops its tick() future and sets the timer again.
SetAgain(d, p) ==
    /\ op = "tick" /\ polling = "task"
    /\ Arm(d, p)
    /\ level' = [level EXCEPT !["in"] = FALSE]
    /\ pended' = {} /\ readies' = 0 /\ waits' = [waits EXCEPT !["task"] = {}]
    /\ UNCHANGED <<edge, events, waker, burst, polling, due>>
    /\ UNCHANGED <<op, fut, asked, seen, result>>

\* Time passes; the timer may expire.
Advance ==
    /\ elapsed' = IF elapsed < dur THEN elapsed + 1 ELSE elapsed
    /\ left' = IF left = 1 THEN period ELSE IF left = 0 THEN 0 ELSE left - 1
    /\ IF left = 1 THEN F!Arrive("in") ELSE UNCHANGED fd
    /\ UNCHANGED <<period, call>>

\* The future inside the timeout becomes ready and wakes the task.
FutureReady ==
    /\ op = "timeout" /\ ~fut /\ fut' = TRUE
    /\ F!WakeWaiter("task") /\ UNCHANGED <<clock, op, dur, asked, seen, result>>
-----------------------------------------------------------------------------
EpollWait == F!EpollWait /\ UNCHANGED <<clock, call>>

\* Mutant of StartPoll: a future that was Pending is not asked again.
StartPollAsked ==
    /\ F!StartPoll("task")
    /\ seen' = fut /\ UNCHANGED <<clock, op, dur, fut, asked, result>>

StartPoll ==
    /\ F!StartPoll("task")
    /\ seen' = fut /\ asked' = FALSE /\ UNCHANGED <<clock, op, dur, fut, result>>

Return(r) ==
    /\ result' = r /\ op' = IF op = "tick" THEN op ELSE "none"
    /\ fut' = FALSE /\ asked' = FALSE /\ UNCHANGED <<dur, seen>>

\* Timeout::poll asks its future, and when that is Pending its timer.
AskFuture ==
    /\ op = "timeout" /\ polling = "task" /\ ~asked /\ ~fut
    /\ asked' = TRUE /\ UNCHANGED <<fd, clock, op, dur, fut, seen, result>>

FutureDone ==
    /\ op = "timeout" /\ polling = "task" /\ ~asked /\ fut
    /\ Return("ready") /\ UNCHANGED <<fd, clock>>

\* Mutant of TimerNext: the timer is asked first.
TimerFirst == op # "none"

TimerNext == op # "none" /\ (op = "timeout" => asked)

\* Mutant of TickReady: the assumed readiness is taken for an expiry.
TickAssumed ==
    /\ polling = "task" /\ TimerNext /\ F!MayTry("in") /\ events # {} /\ burst < BurstLimit
    /\ Return("elapsed")
    /\ burst' = burst + 1 /\ readies' = readies + 1 /\ level' = [level EXCEPT !["in"] = FALSE]
    /\ UNCHANGED <<edge, events, waker, polling, pended, waits, due, left, period, elapsed>>

\* tick() reads the expirations since the last read or set, all of them.
TickReady ==
    /\ TimerNext /\ F!Succeed("in") /\ ~level'["in"]
    /\ Return("elapsed") /\ UNCHANGED <<left, period, elapsed>>

TickPending ==
    /\ TimerNext
    /\ F!NotReady("in") \/ F!WouldBlock("in") \/ F!Yield("in")
    /\ UNCHANGED <<clock, call>>

\* A task that has called nothing may end its poll.
EndPoll ==
    /\ op = "none" \/ pended # {}
    /\ F!EndPoll /\ UNCHANGED <<clock, call>>

\* Something else wakes the task; it calls again.
WakeTask == F!WakeWaiter("task") /\ UNCHANGED <<clock, call>>

\* The task drops the call before its end, but not inside Timeout::poll.
Abandon ==
    /\ op # "none" /\ polling = "task" /\ (asked => pended # {})
    /\ op' = "none" /\ result' = "none"
    /\ waits' = [waits EXCEPT !["task"] = {}]
    /\ UNCHANGED <<level, edge, events, waker, burst, polling, pended, due, readies>>
    /\ UNCHANGED <<clock, dur, fut, asked, seen>>

Next ==
    \/ \E o \in {"sleep", "timeout"}, d \in Duration : Begin(o, d, 0)
    \/ \E d, p \in Duration : Begin("tick", d, p) \/ SetAgain(d, p)
    \/ Advance \/ FutureReady \/ EpollWait \/ StartPoll
    \/ AskFuture \/ FutureDone \/ TickReady \/ TickPending
    \/ EndPoll \/ WakeTask \/ Abandon

Spec == Init /\ [][Next]_vars

\* The fairness of FdReadiness, and time.
FairSpec ==
    /\ Spec /\ WF_vars(Advance)
    /\ SF_vars(EpollWait) /\ SF_vars(StartPoll)
    /\ WF_vars(AskFuture \/ FutureDone \/ TickReady \/ TickPending \/ EndPoll)
-----------------------------------------------------------------------------
(* The values of the variables; those of the fd as FdReadiness has them.   *)
TypeOK ==
    /\ F!TypeOK
    /\ {left, period, dur, elapsed} \subseteq Nat
    /\ op \in {"none", "sleep", "timeout", "tick"}
    /\ {fut, asked, seen} \subseteq BOOLEAN /\ result \in {"none", "ready", "elapsed"}

(* time.rs:38 and 6-7: sleep does not return, and timeout does not give up,*)
(* before the duration has passed, though Fd::new assumes that the timer   *)
(* can be read.                                                            *)
NotEarly == result = "elapsed" /\ op = "none" => dur # 0 /\ elapsed = dur

(* time.rs:6, "until it completes": a timeout does not give up on a future *)
(* that was ready when the poll began, or when a timeout polled at once    *)
(* was made, even if the timer has expired as well.                        *)
FutureWins == result = "elapsed" /\ op = "none" => ~seen

(* fd.rs and timer.rs:31: while the task awaits a tick and the timer has   *)
(* expired, the task was woken or the expiry is about to be reported,      *)
(* whatever timers were made, set again and abandoned before.              *)
ExpiryKept == waits["task"] # {} /\ level["in"] => "task" \in due \/ edge

(* time.rs:38, "Sleeps for `duration` before returning", and 6-7: a sleep  *)
(* returns, and a timeout does whether or not its future completes, unless *)
(* the duration is zero, which disarms the timer.                          *)
CallsEnd == (op \in {"sleep", "timeout"} /\ dur # 0) ~> op = "none"

(* time.rs:6-7 and 28: a timeout whose future is ready returns, also when  *)
(* its timer is disarmed and when the future became ready between the two  *)
(* questions of a poll.                                                    *)
FutureServed == (op = "timeout" /\ fut) ~> op # "timeout"

(* timer.rs:31: an expiry is told to the task that awaits tick(), or the   *)
(* timer is set again.                                                     *)
TicksTold == (op = "tick" /\ level["in"]) ~> (op # "tick" \/ ~level["in"])
=============================================================================
