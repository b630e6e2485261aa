------------------------------- MODULE Signals ------------------------------
(***************************************************************************)
(* AsyncSignal (src/src/signal.rs): the signal mask of a thread and the    *)
(* signalfds that receive what it blocks.  The application may block, and  *)
(* unblock again, signals that no AsyncSignal receives.                    *)
(***************************************************************************)
EXTENDS FiniteSets

CONSTANTS Async,      \* AsyncSignals; each is made once
          Signal,
          SigSet      \* SigSet[a]: the signals asked for

ASSUME SigSetType == SigSet \in [Async -> SUBSET Signal]

VARIABLES
    mask,       \* signals that the thread blocks
    app,        \* those that the application blocked
    state,      \* state[a]: "unmade", "live", "gone", or "failed" (new() failed
                \* after it had blocked the signals)
    pending     \* signals that were raised and are blocked

svars == <<mask, app, state, pending>>

Live == {a \in Async : state[a] = "live"}
Received == UNION {SigSet[a] : a \in Live}

SignalsInit ==
    /\ app \in SUBSET Signal /\ mask = app
    /\ state = [a \in Async |-> "unmade"]
    /\ pending = {}
-----------------------------------------------------------------------------
\* Mutant of NotBlocked: it is enough that some of the signals are unblocked.
SomeNotBlocked(a) == ~(SigSet[a] \subseteq mask)

\* new() looks at the mask first.
NotBlocked(a) == SigSet[a] \cap mask = {}

\* A set that is empty or blocked is refused, or signalfd fails: nothing
\* changed.
NewRefused(a) ==
    /\ state[a] = "unmade"
    /\ state' = [state EXCEPT ![a] = "gone"]
    /\ UNCHANGED <<mask, app, pending>>

New(a) ==
    /\ state[a] = "unmade" /\ SigSet[a] # {} /\ NotBlocked(a)
    /\ mask' = mask \cup SigSet[a]
    /\ state' = [state EXCEPT ![a] = "live"]
    /\ UNCHANGED <<app, pending>>

\* Fd::new fails: the signalfd is closed.  There is no AsyncSignal to drop.
NewFails(a) ==
    /\ state[a] = "unmade" /\ SigSet[a] # {} /\ NotBlocked(a)
    /\ mask' = mask \cup SigSet[a]
    /\ state' = [state EXCEPT ![a] = "failed"]
    /\ UNCHANGED <<app, pending>>

\* receive() reads one signal of the set.
Receive(a, s) ==
    /\ state[a] = "live" /\ s \in SigSet[a] \cap pending
    /\ pending' = pending \ {s}
    /\ UNCHANGED <<mask, app, state>>

\* Mutant of Drop: the signals stay blocked.
DropKeepsMask(a) ==
    /\ state[a] = "live"
    /\ state' = [state EXCEPT ![a] = "gone"]
    /\ UNCHANGED <<mask, app, pending>>

\* Unblocking delivers what is pending, and its default disposition follows.
Drop(a) ==
    /\ state[a] = "live"
    /\ mask' = mask \ SigSet[a]
    /\ state' = [state EXCEPT ![a] = "gone"]
    /\ pending' = pending \ SigSet[a]
    /\ UNCHANGED app
-----------------------------------------------------------------------------
(* The system and the application. *)

\* What is not blocked is handled at once, by the application.
Raise(s) ==
    /\ s \in mask
    /\ pending' = pending \cup {s}
    /\ UNCHANGED <<mask, app, state>>

AppBlock(s) ==
    /\ s \notin mask
    /\ mask' = mask \cup {s} /\ app' = app \cup {s}
    /\ UNCHANGED <<state, pending>>

AppUnblock(s) ==
    /\ s \in app
    /\ mask' = mask \ {s} /\ app' = app \ {s} /\ pending' = pending \ {s}
    /\ UNCHANGED state
-----------------------------------------------------------------------------
SignalsNext ==
    \/ \E a \in Async : NewRefused(a) \/ New(a) \/ NewFails(a) \/ Drop(a)
    \/ \E a \in Async, s \in Signal : Receive(a, s)
    \/ \E s \in Signal : Raise(s) \/ AppBlock(s) \/ AppUnblock(s)

SignalsSpec == SignalsInit /\ [][SignalsNext]_svars
-----------------------------------------------------------------------------
(* The values of the variables.                                            *)
SignalsTypeOK ==
    /\ {mask, app, pending} \subseteq SUBSET Signal /\ pending \subseteq mask
    /\ state \in [Async -> {"unmade", "live", "gone", "failed"}]

(* signal.rs:18-19, "Receiving the same signal with multiple Signal        *)
(* instances is not supported": no two of them ever share a signal.        *)
NoSharedSignal ==
    \A a, b \in Live : a # b => SigSet[a] \cap SigSet[b] = {}

Leaked == UNION {SigSet[a] : a \in {b \in Async : state[b] = "failed"}}

(* signal.rs:21 and 70, "unblock signals as they will no longer be         *)
(* received by signalfd": what the application blocked or an AsyncSignal   *)
(* receives stays blocked, so that it is not handled according to its      *)
(* default disposition (signal.rs:39-40), and nothing else does except     *)
(* what was left blocked by a new() that failed.                           *)
MaskAccounted ==
    app \cup Received \subseteq mask /\ mask \subseteq app \cup Received \cup Leaked
=============================================================================
