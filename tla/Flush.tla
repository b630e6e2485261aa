-------------------------------- MODULE Flush -------------------------------
(***************************************************************************)
(* AsyncWriteFd (src/src/futures.rs): writes and poll_flush, which spawns  *)
(* a thread to sync the file and awaits it, beside the threads of          *)
(* ThreadJoin that other futures await.  The thread's JoinFuture,          *)
(* flush_handle, belongs to the AsyncWriteFd and not to the flush() call,  *)
(* which may be dropped while the thread runs.                             *)
(***************************************************************************)
EXTENDS ThreadJoin, Naturals

CONSTANTS Sync,         \* threads to sync the file with
          Writer,       \* the task that has the AsyncWriteFd
          MaxWrites     \* bound: writes

ASSUME FlushConstants ==
    Sync \subseteq Thread /\ Panics \cap Sync = {} /\ Writer \in Task /\ MaxWrites \in Nat

VARIABLES
    style,      \* flush_style: "sync" (fsync or tcdrain) or "none"
    open,       \* the AsyncWriteFd exists
    handle,     \* flush_handle: the thread it joins, or NoTask
    asking,     \* a flush() call is in progress
    polling,    \* poll_flush is running
    written,    \* writes made to the file
    durable,    \* how many of them are durable
    covers,     \* covers[f]: the writes that the sync of f covers, while it runs
    begun,      \* threads whose sync has begun
    failed,     \* threads whose closure returned an error
    base,       \* history: writes made when the thread in flush_handle was spawned
    told        \* history: writes that a flush which returned had to cover

join   == <<stage, complete, waker, taken, awaiting, fate, joining, due, untold>>
writer == <<style, open, handle, asking, polling>>
file   == <<written, durable, covers, begun, failed>>
fvars  == <<join, writer, file, base, told>>

\* AsyncWriteFd::new: the kind of file decides the flush style.
FlushInit ==
    /\ Init
    /\ style \in {"sync", "none"} /\ open = TRUE /\ handle = NoTask
    /\ asking = FALSE /\ polling = FALSE
    /\ written = 0 /\ durable = 0 /\ covers = [f \in Sync |-> 0] /\ begun = {}
    /\ failed = {}
    /\ base = 0 /\ told = 0
-----------------------------------------------------------------------------
(* The task. *)

Write ==
    /\ Free /\ open /\ ~asking /\ written < MaxWrites
    /\ written' = written + 1
    /\ UNCHANGED <<join, writer, durable, covers, begun, failed, base, told>>

\* poll_flush is called, by a new flush() or again by one in progress.
PollFlush ==
    /\ Free /\ open /\ ~polling
    /\ handle = NoTask => \E f \in Sync : stage[f] = "unborn"
    /\ asking' = TRUE /\ polling' = TRUE
    /\ UNCHANGED <<join, style, open, handle, file, base, told>>

FlushNothing ==
    /\ polling /\ style = "none"
    /\ asking' = FALSE /\ polling' = FALSE
    /\ UNCHANGED <<join, style, open, handle, file, base, told>>

SpawnFlush(f) ==
    /\ polling /\ style = "sync" /\ handle = NoTask
    /\ Spawn(f)
    /\ handle' = f /\ base' = written
    /\ UNCHANGED <<style, open, asking, polling, file, told>>

FlushPending ==
    /\ polling /\ handle # NoTask
    /\ PollRunning(handle, Writer)
    /\ polling' = FALSE
    /\ UNCHANGED <<style, open, handle, asking, file, base, told>>

JoinFlush ==
    /\ polling /\ handle # NoTask
    /\ PollComplete(handle)
    /\ UNCHANGED <<writer, file, base, told>>

\* Mutant of FlushReturns: the thread is not awaited.
ReturnsEarly ==
    /\ polling /\ handle # NoTask
    /\ handle' = NoTask /\ asking' = FALSE /\ polling' = FALSE /\ told' = base
    /\ base' = 0
    /\ UNCHANGED <<join, style, open, file>>

\* Mutant of FlushReturns: the error of the thread's closure is dropped.
ReturnsOk ==
    /\ handle # NoTask /\ handle \notin untold /\ JoinReturns(handle)
    /\ handle' = NoTask /\ asking' = FALSE /\ polling' = FALSE /\ told' = base
    /\ base' = 0
    /\ UNCHANGED <<style, open, file>>

\* The flush returns what the thread's closure returned.
FlushReturns ==
    /\ handle # NoTask /\ handle \notin untold /\ JoinReturns(handle)
    /\ handle' = NoTask /\ asking' = FALSE /\ polling' = FALSE
    /\ told' = IF handle \in failed THEN told ELSE base
    /\ base' = 0
    /\ UNCHANGED <<style, open, file>>

\* The thread panicked, in its wake, and unwrap goes on with that panic: the
\* task unwinds with its AsyncWriteFd, whose flush_handle is used up.
FlushPanics ==
    /\ handle \in untold /\ JoinReturns(handle)
    /\ open' = FALSE /\ asking' = FALSE /\ polling' = FALSE
    /\ UNCHANGED <<style, handle, file, base, told>>

\* The flush() call is dropped.
Abandon ==
    /\ Free /\ asking /\ ~polling
    /\ asking' = FALSE
    /\ UNCHANGED <<join, style, open, handle, polling, file, base, told>>

\* The AsyncWriteFd is dropped: a thread that runs is detached.  It syncs a
\* duplicate of the fd, which is still open.
DropWriter ==
    /\ Free /\ open /\ ~polling
    /\ open' = FALSE /\ asking' = FALSE
    /\ IF handle = NoTask THEN UNCHANGED join ELSE Detach(handle)
    /\ UNCHANGED <<style, handle, polling, file, base, told>>
-----------------------------------------------------------------------------
(* The thread. *)

\* fsync or tcdrain covers what was written when it was called.
BeginSync(f) ==
    /\ stage[f] = "closure" /\ f \notin begun
    /\ begun' = begun \cup {f}
    /\ covers' = [covers EXCEPT ![f] = written]
    /\ UNCHANGED <<join, writer, written, durable, failed, base, told>>

EndSync(f) ==
    /\ f \in begun /\ ClosureReturns(f)
    /\ durable' = IF covers[f] > durable THEN covers[f] ELSE durable
    /\ covers' = [covers EXCEPT ![f] = 0]
    /\ UNCHANGED <<writer, written, begun, failed, base, told>>

\* The duplicate of the fd could not be made, or the sync failed.
SyncFails(f) ==
    /\ ClosureReturns(f)
    /\ failed' = failed \cup {f}
    /\ covers' = [covers EXCEPT ![f] = 0]
    /\ UNCHANGED <<writer, written, durable, begun, base, told>>

SyncEnds(f) == ThreadStep(f) /\ UNCHANGED <<writer, file, base, told>>

(* The other threads, and the tasks that await them between two polls of   *)
(* the writer.                                                             *)
OtherPoll(t) == ~polling /\ Poll(t) /\ UNCHANGED <<writer, file, base, told>>

OtherReturns(t) == JoinReturns(t) /\ UNCHANGED <<writer, file, base, told>>

OtherStep(t) ==
    /\ \/ ~polling /\ (Spawn(t) \/ Detach(t))
       \/ ClosureReturns(t) \/ ClosurePanics(t)
    /\ UNCHANGED <<writer, file, base, told>>

OtherEnds(t) == ThreadStep(t) /\ UNCHANGED <<writer, file, base, told>>
-----------------------------------------------------------------------------
PollWriter == FlushNothing \/ FlushPending \/ JoinFlush \/ FlushReturns \/ FlushPanics
                  \/ \E f \in Sync : SpawnFlush(f)

FlushNext ==
    \/ Write \/ PollFlush \/ PollWriter \/ Abandon \/ DropWriter
    \/ \E f \in Sync : BeginSync(f) \/ EndSync(f) \/ SyncFails(f) \/ SyncEnds(f)
    \/ \E t \in Thread \ Sync :
          OtherPoll(t) \/ OtherReturns(t) \/ OtherStep(t) \/ OtherEnds(t)

FlushSafe == FlushInit /\ [][FlushNext]_fvars

\* The tasks poll what was woken, a poll goes on, and the system runs the
\* threads.  A sync ends; the closure of another thread need not.
FlushSpec ==
    /\ FlushSafe
    /\ SF_fvars(asking /\ handle \in due /\ PollFlush) /\ WF_fvars(PollWriter)
    /\ \A f \in Sync : /\ WF_fvars(BeginSync(f)) /\ WF_fvars(EndSync(f) \/ SyncFails(f))
                       /\ WF_fvars(SyncEnds(f))
    /\ \A t \in Thread \ Sync : /\ SF_fvars(t \in due /\ OtherPoll(t))
                                /\ WF_fvars(OtherReturns(t)) /\ WF_fvars(OtherEnds(t))
-----------------------------------------------------------------------------
(* The values of the variables; those of the threads as ThreadJoin has     *)
(* them.                                                                   *)
FlushTypeOK ==
    /\ TypeOK
    /\ style \in {"sync", "none"} /\ {open, asking, polling} \subseteq BOOLEAN
    /\ handle \in Sync \cup {NoTask} /\ {begun, failed} \subseteq SUBSET Sync
    /\ {written, durable, base, told} \subseteq 0..MaxWrites
    /\ covers \in [Sync -> 0..MaxWrites]

(* futures.rs:133, get_or_insert_with: the writer has at most one thread   *)
(* that has not exited, through abandoned and repeated flushes.            *)
OneSyncAtATime ==
    open => \A f \in Sync : stage[f] \in {"unborn", "exited"} \/ f = handle

(* futures.rs:148-150: a flush that returns Ok covers every write made     *)
(* before its thread was spawned, which are all the writes before the      *)
(* flush, unless it joined the thread of a flush that was dropped.         *)
FlushCovers == told <= durable

(* JoinFuture (thread.rs:107): awaiting a thread whose closure returned    *)
(* ends, however the poll, the end of the thread and its wake interleave,  *)
(* whatever else the executor joins meanwhile and whichever other thread's *)
(* wake panics.  Only a panic of its own wake leaves it waiting.           *)
ReturnedJoinEnds ==
    \A t \in Thread \ Sync :
        (complete[t] /\ awaiting[t] # NoTask) ~> (fate[t] # "open" \/ t \in untold)

(* A flush ends once the file is synced, also one that inherits a thread   *)
(* whose waker was stored by an earlier call, unless the wake of its       *)
(* thread panicked.                                                        *)
FlushEnds == asking ~> (~asking \/ handle \in untold)
=============================================================================
