------------------------- MODULE FdReadinessProofs --------------------------
(***************************************************************************)
(* Proofs about FdReadiness for any waiters and burst limit.  TypeOK holds *)
(* for any set of directions, the two others for an fd that is registered  *)
(* for one: with two, an operation that would block in one direction       *)
(* clears the readiness of the other (the run fd_two_directions).          *)
(***************************************************************************)
EXTENDS FdReadiness, TLAPS

\* What is possible is recorded, or the kernel is about to report it.
Recorded == \A d \in Interest : level[d] => edge \/ d \in events

\* A task that waits and was not woken left its waker, and no readiness.
Parked ==
    \A k \in Waiter \ Foreign : waits[k] # {} /\ k \notin due => events = {} /\ waker = k

\* What the poll in progress waits for, it does not try again.
PollerPended == polling # NoWaiter => waits[polling] \subseteq pended

EdgeInv == TypeOK /\ Recorded /\ Parked /\ PollerPended

\* Until an operation of the poll returned Pending, burst counts at least
\* the results of the poll.
BurstInv == TypeOK /\ BurstIsBounded /\ (pended = {} => readies <= burst)

LEMMA InitTypeFd == Init => TypeOK
BY BurstLimitIsPositive DEF Init, TypeOK

LEMMA NextTypeFd == TypeOK /\ [Next]_vars => TypeOK'
<1> SUFFICES ASSUME TypeOK, [Next]_vars
             PROVE  TypeOK'
    OBVIOUS
<1> USE BurstLimitIsPositive, ForeignWait, WaitersAreNotMarks DEF TypeOK, kernel, fd
<1>0. Reported \subseteq Interest /\ Woken \subseteq Waiter
    BY DEF Reported, Woken
<1>1. ASSUME NEW d \in Interest, Arrive(d) \/ Withdraw(d)
      PROVE  TypeOK'
    BY <1>1 DEF Arrive, Withdraw
<1>2. ASSUME NEW d \in Interest, NotReady(d) \/ WouldBlock(d)
      PROVE  TypeOK'
    BY <1>2 DEF NotReady, WouldBlock, Park, MayTry
<1>3. ASSUME NEW d \in Interest, Succeed(d)
      PROVE  TypeOK'
    <2>1. burst' \in 0..BurstLimit /\ readies' \in Nat
        BY <1>3 DEF Succeed
    <2> QED  BY <1>3, <2>1 DEF Succeed
<1>4. ASSUME NEW d \in Interest, Yield(d)
      PROVE  TypeOK'
    <2>1. polling \in Waiter /\ burst' = 0 /\ pended' = pended \cup {d}
          /\ UNCHANGED <<level, waker, polling, waits, readies>>
        BY <1>4 DEF Yield, MayTry
    <2>2. edge' \in BOOLEAN /\ events' \subseteq Interest /\ due' \subseteq Waiter
        BY <1>0, <1>4, <2>1 DEF Yield, Dispatch
    <2> QED  BY <2>1, <2>2
<1>5. ASSUME NEW k \in Waiter, StartPoll(k) \/ Cancel(k) \/ WakeWaiter(k)
      PROVE  TypeOK'
    BY <1>5 DEF StartPoll, Cancel, WakeWaiter
<1>6. CASE EpollWait \/ EndPoll
    BY <1>0, <1>6 DEF EpollWait, EndPoll, Dispatch
<1>7. CASE UNCHANGED vars
    BY <1>7 DEF vars
<1> QED  BY <1>1, <1>2, <1>3, <1>4, <1>5, <1>6, <1>7 DEF Next, Try
-----------------------------------------------------------------------------
(* An fd registered for one direction. *)

LEMMA InitEdge == Init => EdgeInv /\ BurstInv
<1> SUFFICES ASSUME Init
             PROVE  EdgeInv /\ BurstInv
    OBVIOUS
<1>1. Recorded /\ PollerPended
    BY DEF Init, Recorded, PollerPended
<1>2. Parked
    BY DEF Init, Parked
<1>3. readies = 0 /\ burst = 0
    BY DEF Init
<1>4. BurstIsBounded
    BY <1>3, BurstLimitIsPositive DEF BurstIsBounded
<1> QED  BY <1>1, <1>2, <1>3, <1>4, InitTypeFd DEF EdgeInv, BurstInv

\* Whoever tries an operation finds nobody waiting on the fd.
LEMMA NobodyWaits ==
    ASSUME EdgeInv, NEW d, Interest = {d}, MayTry(d)
    PROVE  /\ \A k \in Waiter : waits[k] = {}
           /\ polling \in Waiter /\ pended = {}
BY DEF EdgeInv, TypeOK, PollerPended, MayTry

LEMMA NextEdge ==
    ASSUME NEW d, Interest = {d}, EdgeInv, [Next]_vars
    PROVE  EdgeInv'
<1> USE BurstLimitIsPositive, ForeignWait, WaitersAreNotMarks DEF kernel, fd
<1>0. TypeOK /\ TypeOK' /\ d \in Interest
    BY NextTypeFd DEF EdgeInv
<1>1. CASE Arrive(d) \/ Withdraw(d)
    BY <1>0, <1>1 DEF Arrive, Withdraw, EdgeInv, TypeOK, Recorded, Parked, PollerPended
<1>2. CASE NotReady(d) \/ WouldBlock(d)
    <2>1. MayTry(d) /\ Park(d) /\ events' = {}
        BY <1>2 DEF NotReady, WouldBlock
    <2>2. events = {} \/ ~level[d]
        BY <1>2 DEF NotReady, WouldBlock
    <2>3. (\A k \in Waiter : waits[k] = {}) /\ polling \in Waiter
        BY <2>1, NobodyWaits
    <2>4. Recorded'
        BY <2>1, <2>2 DEF Park, EdgeInv, Recorded
    <2>5. \A k \in Waiter : waits'[k] = IF k = polling THEN {d} ELSE {}
        BY <1>0, <2>1, <2>3 DEF Park, TypeOK
    <2>6. Parked' /\ PollerPended'
        BY <1>0, <2>1, <2>3, <2>5 DEF Park, Parked, PollerPended, TypeOK
    <2> QED  BY <1>0, <2>4, <2>6 DEF EdgeInv
<1>3. CASE Succeed(d)
    <2>1. MayTry(d)
        BY <1>3 DEF Succeed
    <2>2. (\A k \in Waiter : waits[k] = {}) /\ polling \in Waiter
        BY <2>1, NobodyWaits
    <2>3. events = {d}
        BY <1>0, <1>3 DEF Succeed, TypeOK
    <2> QED  BY <1>0, <1>3, <2>2, <2>3
             DEF Succeed, EdgeInv, Recorded, Parked, PollerPended
<1>4. CASE Yield(d)
    <2>1. MayTry(d)
        BY <1>4 DEF Yield
    <2>2. (\A k \in Waiter : waits[k] = {}) /\ polling \in Waiter
        BY <2>1, NobodyWaits
    <2>3. events = {d}
        BY <1>0, <1>4 DEF Yield, TypeOK
    <2>4. events' = {d}
        BY <1>0, <1>4, <2>3 DEF Yield, Dispatch, TypeOK
    <2> QED  BY <1>0, <1>4, <2>2, <2>4 DEF Yield, EdgeInv, Recorded, Parked, PollerPended
<1>5. ASSUME NEW k \in Waiter, StartPoll(k) \/ Cancel(k) \/ WakeWaiter(k)
      PROVE  EdgeInv'
    <2>1. \A j \in Waiter : waits'[j] \in {waits[j], {}}
        BY <1>0, <1>5 DEF StartPoll, Cancel, WakeWaiter, TypeOK
    <2>2. \A j \in Waiter : waits'[j] # {} /\ j \notin due' => j \notin due
        BY <1>0, <1>5 DEF StartPoll, Cancel, WakeWaiter, TypeOK
    <2>3. Recorded' /\ Parked'
        BY <1>5, <2>1, <2>2 DEF StartPoll, Cancel, WakeWaiter, EdgeInv, Recorded, Parked
    <2>4. PollerPended'
        BY <1>0, <1>5, <2>1 DEF StartPoll, Cancel, WakeWaiter, EdgeInv, PollerPended, TypeOK
    <2> QED  BY <1>0, <2>3, <2>4 DEF EdgeInv
<1>6. CASE EpollWait
    <2>1. Reported = IF level[d] THEN {d} ELSE {}
        BY <1>6 DEF EpollWait, Reported
    <2>2. Recorded' /\ PollerPended'
        BY <1>0, <1>6, <2>1 DEF EpollWait, Dispatch, EdgeInv, Recorded, PollerPended, TypeOK
    <2>3. ASSUME NEW k \in Waiter \ Foreign, waits'[k] # {}, k \notin due'
          PROVE  events' = {} /\ waker' = k
        <3>1. events = {} /\ waker = k /\ k \notin Woken
            BY <1>6, <2>3 DEF EpollWait, Dispatch, EdgeInv, Parked
        <3>2. Reported = {}
            BY <3>1, <2>1 DEF Woken
        <3> QED  BY <1>6, <3>1, <3>2 DEF EpollWait, Dispatch
    <2> QED  BY <1>0, <2>2, <2>3 DEF EdgeInv, Parked
<1>7. CASE EndPoll
    BY <1>0, <1>7 DEF EndPoll, EdgeInv, Recorded, Parked, PollerPended
<1>8. CASE UNCHANGED vars
    BY <1>0, <1>8 DEF vars, EdgeInv, Recorded, Parked, PollerPended
<1> QED  BY <1>0, <1>1, <1>2, <1>3, <1>4, <1>5, <1>6, <1>7, <1>8 DEF Next, Try

LEMMA NextBurst ==
    ASSUME NEW d, Interest = {d}, EdgeInv, BurstInv, [Next]_vars
    PROVE  BurstInv'
<1> USE BurstLimitIsPositive DEF kernel, fd
<1>0. TypeOK /\ TypeOK' /\ d \in Interest
    BY NextTypeFd DEF EdgeInv
<1>1. CASE Succeed(d)
    <2>1. pended = {} /\ readies <= burst /\ burst < BurstLimit
        BY <1>1, NobodyWaits DEF Succeed, BurstInv
    <2> QED  BY <1>0, <1>1, <2>1 DEF Succeed, BurstInv, BurstIsBounded, TypeOK
<1>2. CASE NotReady(d) \/ WouldBlock(d) \/ Yield(d)
    BY <1>0, <1>2 DEF NotReady, WouldBlock, Yield, Park, BurstInv, BurstIsBounded, TypeOK
<1>3. ASSUME NEW k \in Waiter, StartPoll(k)
      PROVE  BurstInv'
    BY <1>0, <1>3 DEF StartPoll, BurstInv, BurstIsBounded, TypeOK
<1>4. CASE \/ Arrive(d) \/ Withdraw(d) \/ EpollWait \/ EndPoll \/ UNCHANGED vars
           \/ \E k \in Waiter : Cancel(k) \/ WakeWaiter(k)
    BY <1>0, <1>4 DEF Arrive, Withdraw, EpollWait, EndPoll, Cancel, WakeWaiter, Dispatch, vars,
       BurstInv, BurstIsBounded
<1> QED  BY <1>0, <1>1, <1>2, <1>3, <1>4 DEF Next, Try
-----------------------------------------------------------------------------
(* EpollWaker (executor.rs:471-478): its fields keep their ranges, the     *)
(* burst counter its limit, whatever directions are registered.            *)
THEOREM FdTypes == Spec => []TypeOK
BY InitTypeFd, NextTypeFd, PTL DEF Spec

LEMMA OneDirection ==
    ASSUME NEW CONSTANT d, Interest = {d}
    PROVE  Spec => [](EdgeInv /\ BurstInv)
<1>1. EdgeInv /\ BurstInv /\ [Next]_vars => (EdgeInv /\ BurstInv)'
    BY NextEdge, NextBurst
<1> QED  BY InitEdge, <1>1, PTL DEF Spec

(* EpollWaker::poll_with and epoll_wait (executor.rs:531-535, 268-281):    *)
(* an fd registered for one direction loses no edge between the operation  *)
(* that would block and the wake of the task that waits.                   *)
THEOREM OneDirectionLosesNoEdge ==
    ASSUME NEW CONSTANT d, Interest = {d}
    PROVE  Spec => []NoLostEdge
<1>1. EdgeInv => NoLostEdge
    BY DEF EdgeInv, TypeOK, Recorded, Parked, NoLostEdge, EdgeKept
<1> QED  BY <1>1, OneDirection, PTL

(* EpollWaker::poll_with (executor.rs:518-523): one poll gets at most      *)
(* BurstLimit results from the fd.                                         *)
THEOREM OneDirectionBurst ==
    ASSUME NEW CONSTANT d, Interest = {d}
    PROVE  Spec => []BurstIsBounded
<1>1. BurstInv => BurstIsBounded
    BY DEF BurstInv
<1> QED  BY <1>1, OneDirection, PTL
=============================================================================
