---------------------------- MODULE YieldOrder ------------------------------
(***************************************************************************)
(* Who runs between a yield and the next poll of the task that yielded:    *)
(* the executor with a history of the tasks that were waiting to run then. *)
(***************************************************************************)
EXTENDS Executor

VARIABLE
    kept    \* kept[y]: tasks still to be polled of those that were runnable,
            \* with a priority equal to or higher than y's, when y yielded,
            \* and that were not woken again since

yvars == <<vars, kept>>

Ahead(y) == {t \in Task \ {y} : InRunq(t) /\ PrioOf[t] <= PrioOf[y]}

\* The wake() of a running task puts y on its run queue in this step.
Yields(y) == pc = "events" /\ batch = {} /\ after = y

\* Tasks that this step moves to the end of their run queue.
Moved ==
    {t \in Task : /\ InRunq(t) /\ InRunq(t)'
                  /\ t # Last(runq[PrioOf[t]]) /\ t = Last(runq'[PrioOf[t]])}

Gone == {t \in Task : ~InRunq(t)'}

YieldInit == Init /\ kept = [t \in Task |-> {}]

YieldNext ==
    /\ Next
    /\ kept' = [y \in Task |-> IF Yields(y) THEN Ahead(y) ELSE kept[y] \ (Gone \cup Moved)]

YieldSpec == YieldInit /\ [][YieldNext]_yvars
-----------------------------------------------------------------------------
(* yield_now() (task.rs:173-174): the executor "will check for epoll       *)
(* events, then poll all tasks of equal or higher priority before polling  *)
(* the calling task again": whatever is woken, spawned, aborted or polled  *)
(* in between, none of them is overtaken, unless it is woken again itself, *)
(* which moves it to the end of its queue.                                 *)
YieldsToWaiting == [][\A y \in Starts : kept[y] = {}]_yvars
=============================================================================
