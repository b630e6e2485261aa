--------------------------- MODULE EpollRegistry ----------------------------
(***************************************************************************)
(* Registrations with the executor's epoll instance: epoll_add, epoll_del  *)
(* and the events vector of src/src/executor.rs, as Fd::new and Drop for   *)
(* Fd (src/src/fd.rs) use them, over executors that replace each other.    *)
(*                                                                         *)
(* The vector has one slot for the wake pipe and one is pushed and popped  *)
(* with every Fd; epoll_wait asks the kernel for that many events, and not *)
(* at all when there is no slot.  The kernel keeps one registration per    *)
(* file, with the address of an Fd's EpollWaker, and a list of what is     *)
(* ready, which it reports from the front.                                 *)
(***************************************************************************)
EXTENDS Naturals, Sequences, SequencesExt, FiniteSets

CONSTANTS Fd,        \* Fd values of the program; each is made once
          File,      \* the file descriptors they wrap
          FileOf,    \* FileOf[f]: as_raw_fd() of what f wraps
          PipeCap,   \* bound: pointers in the wake pipe
          MaxRuns    \* bound: executors after the first

ASSUME FileOfType == FileOf \in [Fd -> File]
ASSUME BoundsType == PipeCap \in Nat /\ MaxRuns \in Nat

NoFd == "none"
ASSUME FdsAreNotMarks == NoFd \notin Fd /\ "pipe" \notin File

VARIABLES
    up,       \* the thread has an executor
    slots,    \* events.len()
    table,    \* table[x]: the Fd whose EpollWaker is registered for file x
    ready,    \* the kernel's ready list
    pipe,     \* pointers in the wake pipe
    state,    \* "unmade", "live", "stale" (of an earlier executor), "dropped"
    gen,      \* executors replaced so far
    late      \* history: Fds of earlier executors that were dropped on this one

vars == <<up, slots, table, ready, pipe, state, gen, late>>

Init ==
    /\ up = TRUE /\ slots = 1
    /\ table = [x \in File |-> NoFd]
    /\ ready = <<>> /\ pipe = 0
    /\ state = [f \in Fd |-> "unmade"]
    /\ gen = 0 /\ late = {}
-----------------------------------------------------------------------------
Queue(x) == IF x \in Range(ready) THEN ready ELSE Append(ready, x)

\* Vec::pop.
Pop == IF slots = 0 THEN 0 ELSE slots - 1

\* Executor::epoll_del: a slot is popped, then the kernel deletes whichever
\* registration the file has.
Delete(x) ==
    /\ table' = [table EXCEPT ![x] = NoFd]
    /\ ready' = RemoveFirst(ready, x)

\* Mutant of New: no slot is pushed.
NewWithoutSlot(f) ==
    /\ up /\ state[f] = "unmade" /\ table[FileOf[f]] = NoFd
    /\ state' = [state EXCEPT ![f] = "live"]
    /\ table' = [table EXCEPT ![FileOf[f]] = f]
    /\ ready' \in {ready, Queue(FileOf[f])}
    /\ UNCHANGED <<up, slots, pipe, gen, late>>

\* Mutant of New: an Fd is made although the kernel refused to add the file.
NewIgnoresError(f) ==
    /\ up /\ state[f] = "unmade"
    /\ state' = [state EXCEPT ![f] = "live"]
    /\ slots' = slots + 1
    /\ UNCHANGED <<up, table, ready, pipe, gen, late>>

\* Fd::new; the kernel queues a file that is ready when it is added.
New(f) ==
    /\ up /\ state[f] = "unmade" /\ table[FileOf[f]] = NoFd
    /\ state' = [state EXCEPT ![f] = "live"]
    /\ slots' = slots + 1
    /\ table' = [table EXCEPT ![FileOf[f]] = f]
    /\ ready' \in {ready, Queue(FileOf[f])}
    /\ UNCHANGED <<up, pipe, gen, late>>

\* Mutant of NewRefused: the Fd is not dropped, and its slot stays.
RefusedKeepsSlot(f) ==
    /\ up /\ state[f] = "unmade"
    /\ state' = [state EXCEPT ![f] = "dropped"]
    /\ slots' = slots + 1
    /\ UNCHANGED <<up, table, ready, pipe, gen, late>>

\* The kernel refuses to add the file, always when it has a registration:
\* the slot was pushed, and the Fd is dropped on the way out of Fd::new.
NewRefused(f) ==
    /\ up /\ state[f] = "unmade"
    /\ state' = [state EXCEPT ![f] = "dropped"]
    /\ Delete(FileOf[f])
    /\ UNCHANGED <<up, slots, pipe, gen, late>>

\* Mutant of DropFd: the registration is not deleted.
DropKeepsEntry(f) ==
    /\ up /\ state[f] \in {"live", "stale"}
    /\ state' = [state EXCEPT ![f] = "dropped"]
    /\ slots' = Pop
    /\ UNCHANGED <<up, table, ready, pipe, gen, late>>

\* Drop for Fd, on whichever executor the thread has then.
DropFd(f) ==
    /\ up /\ state[f] \in {"live", "stale"}
    /\ state' = [state EXCEPT ![f] = "dropped"]
    /\ slots' = Pop
    /\ Delete(FileOf[f])
    /\ late' = IF state[f] = "stale" THEN late \cup {f} ELSE late
    /\ UNCHANGED <<up, pipe, gen>>

\* The same during or after the destruction of the thread's executor.
DropFdLate(f) ==
    /\ ~up /\ state[f] = "stale"
    /\ state' = [state EXCEPT ![f] = "dropped"]
    /\ UNCHANGED <<up, slots, table, ready, pipe, gen, late>>

\* The executor and its epoll instance are dropped.
Close ==
    /\ table' = [x \in File |-> NoFd]
    /\ ready' = <<>> /\ pipe' = 0
    /\ state' = [f \in Fd |-> IF state[f] = "live" THEN "stale" ELSE state[f]]

\* The end of run(): the new executor is there before the old one, and with
\* it the tasks and the Fds they own, is dropped.
Replace ==
    /\ up /\ gen < MaxRuns
    /\ gen' = gen + 1 /\ slots' = 1 /\ late' = {}
    /\ Close /\ UNCHANGED up

ThreadExit ==
    /\ up /\ up' = FALSE
    /\ Close /\ UNCHANGED <<slots, gen, late>>
-----------------------------------------------------------------------------
\* The kernel: a file with a registration becomes ready.
Ready(x) ==
    /\ table[x] # NoFd
    /\ ready' = Queue(x)
    /\ UNCHANGED <<up, slots, table, pipe, state, gen, late>>

\* Another thread writes to the wake pipe.
RemoteWake ==
    /\ up /\ pipe < PipeCap
    /\ pipe' = pipe + 1
    /\ ready' = Queue("pipe")
    /\ UNCHANGED <<up, slots, table, state, gen, late>>

\* Mutant of Asked: as many events as there are Fds, none for the pipe.
AskedPerFd == IF slots <= Len(ready) THEN slots - 1 ELSE Len(ready)

Asked == IF slots < Len(ready) THEN slots ELSE Len(ready)
Reports == SubSeq(ready, 1, Asked)

\* Executor::epoll_wait, handling the events included: wake_from_pipe reads
\* one pointer, and the pipe, which is level triggered, stays ready if it
\* holds more.
EpollWait ==
    /\ up /\ slots > 0 /\ ready # <<>>
    /\ LET rest == SubSeq(ready, Asked + 1, Len(ready))
           reads == "pipe" \in Range(Reports)
       IN /\ pipe' = IF reads THEN pipe - 1 ELSE pipe
          /\ ready' = IF reads /\ pipe > 1 THEN Append(rest, "pipe") ELSE rest
    /\ UNCHANGED <<up, slots, table, state, gen, late>>
-----------------------------------------------------------------------------
Next ==
    \/ \E f \in Fd : New(f) \/ NewRefused(f) \/ DropFd(f) \/ DropFdLate(f)
    \/ \E x \in File : Ready(x)
    \/ RemoteWake \/ EpollWait \/ Replace \/ ThreadExit

Spec == Init /\ [][Next]_vars

\* run() and block_on() call epoll_wait again and again.
FairSpec == Spec /\ WF_vars(EpollWait)
-----------------------------------------------------------------------------
(* The values of the variables of the registry.                            *)
TypeOK ==
    /\ up \in BOOLEAN /\ slots \in Nat /\ gen \in 0..MaxRuns
    /\ table \in [File -> Fd \cup {NoFd}]
    /\ ready \in Seq(File \cup {"pipe"}) /\ pipe \in 0..PipeCap
    /\ state \in [Fd -> {"unmade", "live", "stale", "dropped"}]
    /\ late \subseteq Fd

Live == {f \in Fd : state[f] = "live"}

(* executor.rs:265-267: the address epoll_wait dereferences is that of the *)
(* EpollWaker of an Fd that was not dropped, for what is registered and    *)
(* for what is about to be reported.                                       *)
NoDanglingWaker ==
    /\ \A x \in File : table[x] # NoFd => table[x] \in Live /\ FileOf[table[x]] = x
    /\ \A i \in DOMAIN ready : ready[i] # "pipe" => table[ready[i]] # NoFd

(* fd.rs:15, "A file descriptor of interest": a live Fd is registered, so  *)
(* that its events reach it, whatever becomes of Fds for other files.      *)
LiveFdsRegistered ==
    \A f \in Live :
        (\A g \in Fd \ {f} : FileOf[g] = FileOf[f] => state[g] = "unmade")
            => table[FileOf[f]] = f

(* epoll_add and epoll_del: one slot for the pipe (executor.rs:166) and    *)
(* one for each Fd, after any sequence of failed registrations and drops,  *)
(* on executors that have seen no Fd of an earlier one dropped.            *)
SlotsMatch == up /\ late = {} => slots = 1 + Cardinality(Live)

(* Without such a drop, what another thread writes to the pipe is read ... *)
PipeRead ==
    \A n \in 1..PipeCap : (pipe = n /\ late = {}) ~> (pipe # n \/ late # {})

(* Executor::epoll_wait (executor.rs:240-247) asks for events.len() events *)
(* or does not ask: however many files are ready and however few slots     *)
(* late drops left, each is reported in its turn, or its registration      *)
(* ends, as long as one slot is left.                                      *)
ReadyReported ==
    \A x \in File : (x \in Range(ready)) ~> (x \notin Range(ready) \/ slots = 0)

(* executor.rs:701-702, "replaces it with a new one so you can call run()  *)
(* again": what another thread writes to the pipe is read.                 *)
WakesArrive == \A n \in 1..PipeCap : (pipe = n) ~> (pipe # n)
=============================================================================
