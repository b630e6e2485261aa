---------------------------- MODULE FlushProofs -----------------------------
(***************************************************************************)
(* Proofs about ThreadJoin, and about Flush which adds a writer to it, for *)
(* any threads, tasks and number of writes.                                *)
(*                                                                         *)
(* The invariant of ThreadJoin says where the waker of the last poll is:   *)
(* in the state until it is replaced, then with the thread until it wakes. *)
(* Every step of Flush is a step of ThreadJoin or leaves its variables     *)
(* alone, so what holds of ThreadJoin holds beside a writer too.  The      *)
(* invariant of Flush follows the writes that a flush has to cover from    *)
(* the spawn of its thread to the end of the sync.                         *)
(***************************************************************************)
EXTENDS Flush, TLAPS

Finished == {"waking", "exiting", "exited"}

LastWakerKept ==
    \A t \in Thread :
        /\ complete[t] => stage[t] \in Finished
        /\ stage[t] = "waking" => complete[t]
        /\ awaiting[t] # NoTask =>
              /\ fate[t] = "open"
              /\ ~complete[t] => waker[t] = awaiting[t]
              /\ stage[t] = "waking" => taken[t] = awaiting[t]

JInv == TypeOK /\ LastWakerKept /\ LastPollerTold /\ JoinsOnlyFinished

(* The state a spawned thread starts from (thread.rs:41).                  *)
LEMMA InitJoin == Init => JInv
  BY TasksAreNotMarks
     DEF Init, JInv, TypeOK, LastWakerKept, LastPollerTold, JoinsOnlyFinished, Finished

(* No step of a poll (thread.rs:113-137) or of a thread (thread.rs:45-57)  *)
(* breaks the invariant.                                                   *)
LEMMA NextJoin == JInv /\ [Next]_vars => JInv'
<1> SUFFICES ASSUME JInv, [Next]_vars PROVE JInv'
  OBVIOUS
<1> USE TasksAreNotMarks
    DEF JInv, TypeOK, LastWakerKept, LastPollerTold, JoinsOnlyFinished, Finished
<1>1. ASSUME NEW t \in Thread, Spawn(t) PROVE JInv'
  BY <1>1 DEF Spawn
<1>2. ASSUME NEW t \in Thread, NEW k \in Task, PollRunning(t, k) PROVE JInv'
  BY <1>2 DEF PollRunning, Free
<1>3. ASSUME NEW t \in Thread, PollComplete(t) PROVE JInv'
  BY <1>3 DEF PollComplete, Free
<1>4. ASSUME NEW t \in Thread, JoinReturns(t) PROVE JInv'
  BY <1>4 DEF JoinReturns
<1>5. ASSUME NEW t \in Thread, Detach(t) PROVE JInv'
  BY <1>5 DEF Detach, Free
<1>6. ASSUME NEW t \in Thread, ClosureReturns(t) PROVE JInv'
  BY <1>6 DEF ClosureReturns
<1>7. ASSUME NEW t \in Thread, ClosurePanics(t) PROVE JInv'
  BY <1>7 DEF ClosurePanics
<1>8. ASSUME NEW t \in Thread, Complete(t) PROVE JInv'
  BY <1>8 DEF Complete
<1>9. ASSUME NEW t \in Thread, Wake(t) PROVE JInv'
  BY <1>9 DEF Wake
<1>10. ASSUME NEW t \in Thread, Exit(t) PROVE JInv'
  BY <1>10 DEF Exit
<1>11. ASSUME NEW t \in Thread, WakePanics(t) PROVE JInv'
  BY <1>11 DEF WakePanics
<1>12. CASE UNCHANGED vars
  BY <1>12 DEF vars
<1> QED
  BY <1>1, <1>2, <1>3, <1>4, <1>5, <1>6, <1>7, <1>8, <1>9, <1>10, <1>11, <1>12
     DEF Next, Poll, ThreadStep

(* The variables keep their types, and the three facts hold, in every      *)
(* reachable state of the polls and the threads.                           *)
THEOREM JoinInvariant == Spec => []JInv
  BY InitJoin, NextJoin, PTL DEF Spec

(* JoinFuture::poll (thread.rs:123-127) and the thread's body              *)
(* (thread.rs:48-55): the task that polled last is the one that is told.   *)
THEOREM LastPollerIsTold == Spec => []LastPollerTold
<1>1. JInv => LastPollerTold
  BY DEF JInv
<1> QED
  BY <1>1, JoinInvariant, PTL

(* Handle::join (thread.rs:69): no poll blocks on a closure that runs.     *)
THEOREM NeverBlocksOnClosure == Spec => []JoinsOnlyFinished
<1>1. JInv => JoinsOnlyFinished
  BY DEF JInv
<1> QED
  BY <1>1, JoinInvariant, PTL
-----------------------------------------------------------------------------
\* A thread that syncs, has synced or runs belongs to a flush that began.
SyncStages ==
    /\ \A f \in begun : stage[f] # "unborn"
    /\ handle # NoTask => stage[handle] # "unborn"

\* The sync covers what was written when the thread was spawned.
CoversBase ==
    /\ base <= written
    /\ handle \in begun /\ stage[handle] = "closure" => base <= covers[handle]
    /\ handle # NoTask /\ stage[handle] # "closure" /\ handle \notin failed
           => base <= durable

FInv == FlushTypeOK /\ OneSyncAtATime /\ SyncStages /\ CoversBase /\ FlushCovers

LEMMA InitFlush == FlushInit => FInv
<1> SUFFICES ASSUME FlushInit
             PROVE  FInv
    OBVIOUS
<1> USE FlushConstants, TasksAreNotMarks, InitJoin
<1>1. FlushTypeOK
    <2>1. TypeOK
        BY DEF FlushInit, JInv
    <2>2. {open, asking, polling} \subseteq BOOLEAN
        BY DEF FlushInit
    <2>3. {written, durable, base, told} \subseteq 0..MaxWrites
          /\ covers \in [Sync -> 0..MaxWrites]
        BY DEF FlushInit
    <2> QED  BY <2>1, <2>2, <2>3 DEF FlushInit, FlushTypeOK
<1>2. OneSyncAtATime
    BY DEF FlushInit, Init, OneSyncAtATime
<1>3. SyncStages
    BY DEF FlushInit, SyncStages
<1>4. base = 0 /\ written = 0 /\ told = 0 /\ durable = 0 /\ begun = {} /\ handle = NoTask
    BY DEF FlushInit
<1>5. CoversBase /\ FlushCovers
    BY <1>4 DEF CoversBase, FlushCovers
<1> QED  BY <1>1, <1>2, <1>3, <1>5 DEF FInv

(* A step of Flush as ThreadJoin sees it (futures.rs:133-158).             *)
LEMMA StepJoin == FlushTypeOK /\ [FlushNext]_fvars => [Next]_vars
<1> SUFFICES ASSUME FlushTypeOK, [FlushNext]_fvars
             PROVE  [Next]_vars
    OBVIOUS
<1> USE FlushConstants, TasksAreNotMarks
<1>1. handle # NoTask => handle \in Thread
    BY DEF FlushTypeOK
<1>2. CASE Write \/ PollFlush \/ Abandon \/ FlushNothing
           \/ (\E f \in Sync : BeginSync(f)) \/ UNCHANGED fvars
    BY <1>2 DEF Write, PollFlush, Abandon, FlushNothing, BeginSync, fvars, join, vars
<1>3. CASE DropWriter \/ JoinFlush \/ FlushReturns
    BY <1>1, <1>3 DEF DropWriter, JoinFlush, FlushReturns, Next, Poll, join, vars
<1>4. CASE FlushPending
    <2>1. PollRunning(handle, Writer) /\ handle \in Thread /\ Writer \in Task
        BY <1>1, <1>4 DEF FlushPending
    <2> QED  BY <2>1 DEF Next, Poll
<1>5. CASE FlushPanics
    <2>1. handle \in Thread /\ JoinReturns(handle)
        BY <1>5 DEF FlushPanics, FlushTypeOK, TypeOK
    <2> QED  BY <2>1 DEF Next
<1>6. ASSUME NEW f \in Sync, SpawnFlush(f) \/ EndSync(f) \/ SyncFails(f) \/ SyncEnds(f)
      PROVE  [Next]_vars
    BY <1>6 DEF SpawnFlush, EndSync, SyncFails, SyncEnds, Next
<1>7. ASSUME NEW t \in Thread \ Sync,
             OtherPoll(t) \/ OtherReturns(t) \/ OtherStep(t) \/ OtherEnds(t)
      PROVE  [Next]_vars
    BY <1>7 DEF OtherPoll, OtherReturns, OtherStep, OtherEnds, Next
<1> QED  BY <1>2, <1>3, <1>4, <1>5, <1>6, <1>7 DEF FlushNext, PollWriter

(* What the actions that Flush takes from ThreadJoin do to the stage.      *)
LEMMA OtherStages ==
    ASSUME FInv, NEW t \in Thread \ Sync,
           OtherPoll(t) \/ OtherReturns(t) \/ OtherStep(t) \/ OtherEnds(t)
    PROVE  /\ \A f \in Sync : stage'[f] = stage[f]
           /\ UNCHANGED <<writer, file, base, told>>
<1>1. UNCHANGED <<writer, file, base, told>>
    BY DEF OtherPoll, OtherReturns, OtherStep, OtherEnds
<1>2. \/ UNCHANGED stage
      \/ \E s : stage' = [stage EXCEPT ![t] = s]
    BY DEF OtherPoll, OtherReturns, OtherStep, OtherEnds, Poll, PollRunning, PollComplete,
       JoinReturns, Spawn, Detach, ClosureReturns, ClosurePanics, ThreadStep, Complete, Wake,
       WakePanics, Exit
<1> QED  BY <1>1, <1>2, FlushConstants DEF FInv, FlushTypeOK, TypeOK

LEMMA SyncStage ==
    ASSUME FInv, NEW f \in Sync, SyncEnds(f)
    PROVE  /\ stage[f] \in {"returned", "waking", "exiting"}
           /\ \E s \in {"waking", "exiting", "exited"} : stage' = [stage EXCEPT ![f] = s]
           /\ UNCHANGED <<writer, file, base, told>>
BY DEF SyncEnds, ThreadStep, Complete, Wake, WakePanics, Exit

LEMMA NextFlushTypes == FInv /\ TypeOK' /\ [FlushNext]_fvars => FlushTypeOK'
<1> SUFFICES ASSUME FInv, TypeOK', [FlushNext]_fvars
             PROVE  FlushTypeOK'
    OBVIOUS
<1> USE FlushConstants, TasksAreNotMarks DEF FInv, FlushTypeOK, writer, file, join
<1>1. CASE Write
    <2>1. written' \in 0..MaxWrites
        BY <1>1 DEF Write
    <2> QED  BY <1>1, <2>1 DEF Write
<1>2. CASE PollFlush \/ Abandon \/ FlushNothing \/ DropWriter
    BY <1>2 DEF PollFlush, Abandon, FlushNothing, DropWriter
<1>3. CASE JoinFlush \/ FlushPending
    BY <1>3 DEF JoinFlush, FlushPending
<1>4. ASSUME NEW f \in Sync, SpawnFlush(f) \/ SyncFails(f) \/ SyncEnds(f)
      PROVE  FlushTypeOK'
    BY <1>4 DEF SpawnFlush, SyncFails, SyncEnds
<1>5. ASSUME NEW f \in Sync, BeginSync(f) \/ EndSync(f)
      PROVE  FlushTypeOK'
    BY <1>5 DEF BeginSync, EndSync
<1>6. ASSUME NEW t \in Thread \ Sync,
             OtherPoll(t) \/ OtherReturns(t) \/ OtherStep(t) \/ OtherEnds(t)
      PROVE  FlushTypeOK'
    BY <1>6, OtherStages
<1>7. CASE UNCHANGED fvars
    BY <1>7 DEF fvars
<1>9. CASE FlushReturns
    <2>1. handle' = NoTask /\ base' \in 0..MaxWrites /\ told' \in 0..MaxWrites
          /\ style' = style /\ open' = open /\ asking' = FALSE /\ polling' = FALSE
          /\ written' = written /\ durable' = durable /\ covers' = covers
          /\ begun' = begun /\ failed' = failed
        BY <1>9 DEF FlushReturns
    <2> QED  BY <2>1
<1>8. CASE FlushPanics
    BY <1>8 DEF FlushPanics
<1> QED  BY <1>1, <1>2, <1>3, <1>4, <1>5, <1>6, <1>7, <1>8, <1>9
       DEF FlushNext, PollWriter

LEMMA NextFlush == FInv /\ FlushTypeOK' /\ [FlushNext]_fvars => FInv'
<1> SUFFICES ASSUME FInv, FlushTypeOK', [FlushNext]_fvars
             PROVE  OneSyncAtATime' /\ SyncStages' /\ CoversBase' /\ FlushCovers'
    BY DEF FInv
<1> DEFINE Rest == OneSyncAtATime' /\ SyncStages' /\ CoversBase' /\ FlushCovers'
<1> USE FlushConstants, TasksAreNotMarks DEF writer, file, join
<1>0. /\ {written, durable, base, told} \subseteq Nat
      /\ covers \in [Sync -> Nat] /\ begun \subseteq Sync /\ handle \in Sync \cup {NoTask}
      /\ stage \in [Thread -> {"unborn", "closure", "returned", "waking", "exiting", "exited"}]
      /\ Sync \subseteq Thread
    BY DEF FInv, FlushTypeOK, TypeOK
<1>1. CASE Write \/ PollFlush \/ Abandon \/ FlushNothing \/ UNCHANGED fvars
    BY <1>0, <1>1 DEF Write, PollFlush, Abandon, FlushNothing, fvars,
       FInv, OneSyncAtATime, SyncStages, CoversBase, FlushCovers
<1>2. CASE JoinFlush \/ FlushPending \/ FlushPanics \/ DropWriter
    <2>1. UNCHANGED <<stage, handle, file, base, told>> /\ (open' => open)
        BY <1>2 DEF JoinFlush, FlushPending, FlushPanics, DropWriter, PollComplete, PollRunning,
           JoinReturns, Detach
    <2> QED  BY <2>1 DEF FInv, OneSyncAtATime, SyncStages, CoversBase, FlushCovers
<1>3. CASE FlushReturns
    <2>1. handle # NoTask /\ stage[handle] = "exited" /\ handle' = NoTask
          /\ UNCHANGED <<stage, open, file>> /\ base' = 0
          /\ told' = IF handle \in failed THEN told ELSE base
        BY <1>3 DEF FlushReturns, JoinReturns
    <2>2. told' <= durable
        BY <2>1 DEF FInv, CoversBase, FlushCovers
    <2> QED  BY <1>0, <2>1, <2>2 DEF FInv, OneSyncAtATime, SyncStages, CoversBase, FlushCovers
<1>4. ASSUME NEW f \in Sync, SpawnFlush(f)
      PROVE  Rest
    <2>1. handle = NoTask /\ stage[f] = "unborn" /\ handle' = f /\ base' = written
          /\ stage' = [stage EXCEPT ![f] = "closure"]
          /\ UNCHANGED <<open, file, told>>
        BY <1>4 DEF SpawnFlush, Spawn
    <2>2. f \notin begun
        BY <2>1 DEF FInv, SyncStages
    <2> QED  BY <1>0, <2>1, <2>2 DEF FInv, OneSyncAtATime, SyncStages, CoversBase, FlushCovers
<1>5. ASSUME NEW f \in Sync, BeginSync(f)
      PROVE  Rest
    BY <1>0, <1>5 DEF BeginSync, FInv, OneSyncAtATime, SyncStages, CoversBase, FlushCovers
<1>6. ASSUME NEW f \in Sync, EndSync(f)
      PROVE  Rest
    <2>1. f \in begun /\ stage[f] = "closure" /\ stage' = [stage EXCEPT ![f] = "returned"]
          /\ durable' = (IF covers[f] > durable THEN covers[f] ELSE durable)
          /\ covers' = [covers EXCEPT ![f] = 0]
          /\ UNCHANGED <<open, handle, written, begun, failed, base, told>>
        BY <1>6 DEF EndSync, ClosureReturns
    <2>2. durable <= durable' /\ covers[f] <= durable' /\ durable' \in Nat
        BY <1>0, <2>1
    <2>3. OneSyncAtATime' /\ SyncStages'
        BY <1>0, <2>1 DEF FInv, OneSyncAtATime, SyncStages
    <2>4. CoversBase' /\ FlushCovers'
        BY <1>0, <2>1, <2>2 DEF FInv, CoversBase, FlushCovers
    <2> QED  BY <2>3, <2>4
<1>7. ASSUME NEW f \in Sync, SyncFails(f)
      PROVE  Rest
    <2>1. stage[f] = "closure" /\ stage' = [stage EXCEPT ![f] = "returned"]
          /\ failed' = failed \cup {f}
          /\ covers' = [covers EXCEPT ![f] = 0]
          /\ UNCHANGED <<open, handle, written, durable, begun, base, told>>
        BY <1>7 DEF SyncFails, ClosureReturns
    <2> QED  BY <1>0, <2>1 DEF FInv, OneSyncAtATime, SyncStages, CoversBase, FlushCovers
<1>8. ASSUME NEW f \in Sync, SyncEnds(f)
      PROVE  Rest
    BY <1>0, <1>8, SyncStage DEF FInv, OneSyncAtATime, SyncStages, CoversBase, FlushCovers
<1>9. ASSUME NEW t \in Thread \ Sync,
             OtherPoll(t) \/ OtherReturns(t) \/ OtherStep(t) \/ OtherEnds(t)
      PROVE  Rest
    BY <1>0, <1>9, OtherStages DEF FInv, OneSyncAtATime, SyncStages, CoversBase, FlushCovers
<1> QED  BY <1>1, <1>2, <1>3, <1>4, <1>5, <1>6, <1>7, <1>8, <1>9 DEF FlushNext, PollWriter
-----------------------------------------------------------------------------
(* The types and the four facts above hold in every reachable state.       *)
THEOREM FlushInvariant == FlushSafe => [](JInv /\ FInv)
<1>1. FlushInit => JInv /\ FInv
    BY InitJoin, InitFlush DEF FlushInit
<1>2. JInv /\ FInv /\ [FlushNext]_fvars => (JInv /\ FInv)'
    <2> SUFFICES ASSUME JInv, FInv, [FlushNext]_fvars
                 PROVE  JInv' /\ FInv'
        OBVIOUS
    <2>1. JInv'
        BY StepJoin, NextJoin DEF FInv
    <2>2. FInv'
        BY <2>1, NextFlushTypes, NextFlush DEF JInv
    <2> QED  BY <2>1, <2>2
<1> QED  BY <1>1, <1>2, PTL DEF FlushSafe

(* AsyncWriteFd (futures.rs:133-158) uses a thread as thread.rs offers it: *)
(* its steps are steps of ThreadJoin, or do not concern it.                *)
THEOREM FlushImplementsJoin == FlushSafe => Spec
<1>1. FlushInit => Init
    BY DEF FlushInit
<1>2. FInv /\ [FlushNext]_fvars => [Next]_vars
    BY StepJoin DEF FInv
<1> QED  BY <1>1, <1>2, FlushInvariant, PTL DEF FlushSafe, Spec

(* The same facts with the writer beside the other threads (thread.rs:69,  *)
(* 48-55): the task that polled last is told, and no poll blocks.          *)
THEOREM FlushKeepsJoin == FlushSafe => [](LastPollerTold /\ JoinsOnlyFinished)
BY FlushImplementsJoin, LastPollerIsTold, NeverBlocksOnClosure, PTL

(* poll_flush (futures.rs:133): a writer has at most one thread syncing.   *)
THEOREM OneSync == FlushSafe => []OneSyncAtATime
<1>1. FInv => OneSyncAtATime
    BY DEF FInv
<1> QED  BY <1>1, FlushInvariant, PTL

(* poll_flush (futures.rs:133-158): what a flush that returned had to      *)
(* cover is durable.                                                       *)
THEOREM FlushIsDurable == FlushSafe => []FlushCovers
<1>1. FInv => FlushCovers
    BY DEF FInv
<1> QED  BY <1>1, FlushInvariant, PTL
=============================================================================
