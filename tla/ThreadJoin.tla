----------------------------- MODULE ThreadJoin -----------------------------
(***************************************************************************)
(* src/src/thread.rs: threads whose result a task awaits.                  *)
(*                                                                         *)
(* The spawned thread and the executor's thread share `state' under a      *)
(* mutex: Running with the waker of the last poll, or Complete.  Polls     *)
(* happen on the executor's thread, one at a time; a poll that finds       *)
(* Complete joins the thread, which blocks the executor until the thread   *)
(* has exited.                                                             *)
(***************************************************************************)
CONSTANTS Thread,   \* threads; one spawn each
          Task,     \* tasks of the executor that await them
          Panics,   \* the threads whose closure may panic
          Unheard   \* the threads whose wake may fail and panic

ASSUME PanicsType == Panics \subseteq Thread /\ Unheard \subseteq Thread

NoTask == "none"
ASSUME TasksAreNotMarks == NoTask \notin Task /\ NoTask \notin Thread

VARIABLES
    stage,      \* the spawned thread: "unborn", "closure", "returned",
                \* "waking", "exiting", "exited"
    complete,   \* whether state is Complete
    waker,      \* the waker in state while it is Running
    taken,      \* the waker the thread took out of state and has not woken
    awaiting,   \* the task whose poll returned Pending last, until it has the
                \* result or drops the future
    fate,       \* the handle or join future: "open", "ready", "dropped"
    joining,    \* the thread a poll is joining
    due,        \* join futures whose task was woken and has not polled them
    untold      \* threads whose wake panicked

vars == <<stage, complete, waker, taken, awaiting, fate, joining, due, untold>>

Init ==
    /\ stage = [t \in Thread |-> "unborn"]
    /\ complete = [t \in Thread |-> FALSE]
    /\ waker = [t \in Thread |-> NoTask]
    /\ taken = [t \in Thread |-> NoTask]
    /\ awaiting = [t \in Thread |-> NoTask]
    /\ fate = [t \in Thread |-> "open"]
    /\ joining = NoTask
    /\ due = {}
    /\ untold = {}
-----------------------------------------------------------------------------
(* The executor's thread. *)

Free == joining = NoTask

Spawn(t) ==
    /\ Free /\ stage[t] = "unborn"
    /\ stage' = [stage EXCEPT ![t] = "closure"]
    /\ UNCHANGED <<complete, waker, taken, awaiting, fate, joining, due, untold>>

\* Mutant of PollRunning: only the first waker is stored.
PollRunningOnce(t, k) ==
    /\ Free /\ stage[t] # "unborn" /\ fate[t] = "open" /\ ~complete[t]
    /\ waker' = [waker EXCEPT ![t] = IF @ = NoTask THEN k ELSE @]
    /\ awaiting' = [awaiting EXCEPT ![t] = k]
    /\ due' = due \ {t}
    /\ UNCHANGED <<stage, complete, taken, fate, joining, untold>>

\* JoinFuture::poll by task k finding Running.  A future can be handed from
\* one task to another between polls.
PollRunning(t, k) ==
    /\ Free /\ stage[t] # "unborn" /\ fate[t] = "open" /\ ~complete[t]
    /\ waker' = [waker EXCEPT ![t] = k]
    /\ awaiting' = [awaiting EXCEPT ![t] = k]
    /\ due' = due \ {t}
    /\ UNCHANGED <<stage, complete, taken, fate, joining, untold>>

\* Mutant of PollComplete: the thread is joined without looking at the state.
PollJoins(t) ==
    /\ Free /\ stage[t] # "unborn" /\ fate[t] = "open"
    /\ joining' = t
    /\ due' = due \ {t}
    /\ UNCHANGED <<stage, complete, waker, taken, awaiting, fate, untold>>

\* The same finding Complete: it joins, holding the lock.
PollComplete(t) ==
    /\ Free /\ fate[t] = "open" /\ complete[t]
    /\ joining' = t
    /\ due' = due \ {t}
    /\ UNCHANGED <<stage, complete, waker, taken, awaiting, fate, untold>>

JoinReturns(t) ==
    /\ joining = t /\ stage[t] = "exited"
    /\ joining' = NoTask
    /\ fate' = [fate EXCEPT ![t] = "ready"]
    /\ awaiting' = [awaiting EXCEPT ![t] = NoTask]
    /\ UNCHANGED <<stage, complete, waker, taken, due, untold>>

\* Dropping the handle or its join future detaches the thread.
Detach(t) ==
    /\ Free /\ stage[t] # "unborn" /\ fate[t] = "open"
    /\ fate' = [fate EXCEPT ![t] = "dropped"]
    /\ awaiting' = [awaiting EXCEPT ![t] = NoTask]
    /\ due' = due \ {t}
    /\ UNCHANGED <<stage, complete, waker, taken, joining, untold>>
-----------------------------------------------------------------------------
(* The spawned thread. *)

ClosureReturns(t) ==
    /\ stage[t] = "closure"
    /\ stage' = [stage EXCEPT ![t] = "returned"]
    /\ UNCHANGED <<complete, waker, taken, awaiting, fate, joining, due, untold>>

\* A panic unwinds through the thread's body: nothing after f() runs.
ClosurePanics(t) ==
    /\ stage[t] = "closure" /\ t \in Panics
    /\ stage' = [stage EXCEPT ![t] = "exited"]
    /\ UNCHANGED <<complete, waker, taken, awaiting, fate, joining, due, untold>>

\* The state is replaced, and the waker in it taken, under the lock, which a
\* poll that is joining holds.
Complete(t) ==
    /\ stage[t] = "returned" /\ joining # t
    /\ stage' = [stage EXCEPT ![t] = "waking"]
    /\ complete' = [complete EXCEPT ![t] = TRUE]
    /\ taken' = [taken EXCEPT ![t] = waker[t]]
    /\ waker' = [waker EXCEPT ![t] = NoTask]
    /\ UNCHANGED <<awaiting, fate, joining, due, untold>>

\* Mutant of Wake: the waker is dropped.
DropWaker(t) ==
    /\ stage[t] = "waking"
    /\ stage' = [stage EXCEPT ![t] = "exiting"]
    /\ taken' = [taken EXCEPT ![t] = NoTask]
    /\ UNCHANGED <<complete, waker, awaiting, fate, joining, due, untold>>

\* A woken task polls every join future it awaits.
Wake(t) ==
    /\ stage[t] = "waking"
    /\ stage' = [stage EXCEPT ![t] = "exiting"]
    /\ taken' = [taken EXCEPT ![t] = NoTask]
    /\ due' = due \cup {u \in Thread : taken[t] # NoTask /\ awaiting[u] = taken[t]
                                          /\ joining # u}
    /\ UNCHANGED <<complete, waker, awaiting, fate, joining, untold>>

\* The write of the wake fails (executor.rs:395), which unwinds through the
\* thread's body: the value is lost, and a join gives the panic.
WakePanics(t) ==
    /\ stage[t] = "waking" /\ t \in Unheard /\ taken[t] # NoTask
    /\ stage' = [stage EXCEPT ![t] = "exited"]
    /\ taken' = [taken EXCEPT ![t] = NoTask]
    /\ untold' = untold \cup {t}
    /\ UNCHANGED <<complete, waker, awaiting, fate, joining, due>>

Exit(t) ==
    /\ stage[t] = "exiting"
    /\ stage' = [stage EXCEPT ![t] = "exited"]
    /\ UNCHANGED <<complete, waker, taken, awaiting, fate, joining, due, untold>>
-----------------------------------------------------------------------------
Poll(t) == (\E k \in Task : PollRunning(t, k)) \/ PollComplete(t)

ThreadStep(t) == Complete(t) \/ Wake(t) \/ WakePanics(t) \/ Exit(t)

Next == \E t \in Thread :
    \/ Spawn(t) \/ Poll(t) \/ JoinReturns(t) \/ Detach(t)
    \/ ClosureReturns(t) \/ ClosurePanics(t) \/ ThreadStep(t)

Spec == Init /\ [][Next]_vars
-----------------------------------------------------------------------------
(* The values the variables range over. *)
TypeOK ==
    /\ stage \in [Thread -> {"unborn", "closure", "returned", "waking", "exiting", "exited"}]
    /\ complete \in [Thread -> BOOLEAN]
    /\ waker \in [Thread -> Task \cup {NoTask}]
    /\ taken \in [Thread -> Task \cup {NoTask}]
    /\ awaiting \in [Thread -> Task \cup {NoTask}]
    /\ fate \in [Thread -> {"open", "ready", "dropped"}]
    /\ joining \in Thread \cup {NoTask}
    /\ due \subseteq Thread /\ untold \subseteq Thread

(* JoinFuture::poll and the thread's body (thread.rs:48-55, 123-127): the  *)
(* task that polled last is the one that is told.  Once the thread has     *)
(* woken, a join future that is still awaited is due to be polled, unless  *)
(* the wake itself panicked.                                               *)
LastPollerTold ==
    \A t \in Thread \ untold :
        complete[t] /\ stage[t] # "waking" /\ awaiting[t] # NoTask
            => t \in due \/ joining = t

(* Handle::join (thread.rs:69), "without blocking the executor": a poll    *)
(* joins a thread only once its closure has returned.                      *)
JoinsOnlyFinished ==
    joining # NoTask => stage[joining] \in {"waking", "exiting", "exited"}
=============================================================================
