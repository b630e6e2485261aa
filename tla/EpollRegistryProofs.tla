------------------------ MODULE EpollRegistryProofs -------------------------
(***************************************************************************)
(* Proofs about EpollRegistry for any Fds, files and number of executors.  *)
(* What is about to be reported is registered, once, and a registration    *)
(* names a live Fd of its own file: each Drop and each failed new() can    *)
(* then delete by file what it added, or what an Fd of that file added.    *)
(***************************************************************************)
EXTENDS EpollRegistry, QueueLemmas, FiniteSetTheorems

Reportable == Range(ready) \ {"pipe"}

RInv ==
    /\ TypeOK /\ IsInjective(ready)
    /\ \A x \in File : table[x] # NoFd => table[x] \in Live /\ FileOf[table[x]] = x
    /\ \A x \in Reportable : table[x] # NoFd
    /\ pipe = 0 <=> "pipe" \notin Range(ready)
    /\ LiveFdsRegistered

LEMMA QueueFacts ==
    ASSUME TypeOK, IsInjective(ready), NEW x \in File \cup {"pipe"}
    PROVE  /\ Queue(x) \in Seq(File \cup {"pipe"}) /\ IsInjective(Queue(x))
           /\ Range(Queue(x)) = Range(ready) \cup {x}
BY AppendFacts DEF Queue, TypeOK

LEMMA RestFacts ==
    ASSUME NEW S, NEW s \in Seq(S), IsInjective(s), NEW n \in 0..Len(s)
    PROVE  LET rest == SubSeq(s, n + 1, Len(s))
           IN /\ rest \in Seq(S) /\ IsInjective(rest)
              /\ Range(s) = Range(SubSeq(s, 1, n)) \cup Range(rest)
              /\ Range(SubSeq(s, 1, n)) \cap Range(rest) = {}
<1> DEFINE front == SubSeq(s, 1, n)
           rest  == SubSeq(s, n + 1, Len(s))
<1>1. Len(s) \in Nat /\ \A i \in 1..Len(s) : s[i] \in S
    BY LenProperties
<1>2. front \in Seq(S) /\ Len(front) = n /\ \A i \in 1..n : front[i] = s[i]
    BY <1>1, SubSeqProperties
<1>3. rest \in Seq(S) /\ Len(rest) = Len(s) - n
      /\ \A i \in 1..Len(s) - n : rest[i] = s[n + i]
    BY <1>1, SubSeqProperties
<1> HIDE DEF front, rest
<1>4. \A i, j \in 1..Len(s) : s[i] = s[j] => i = j
    BY RangeIndex
<1>5. IsInjective(rest)
    <2>1. \A i, j \in 1..Len(rest) : rest[i] = rest[j] => i = j
        BY <1>1, <1>3, <1>4
    <2> QED  BY <1>3, <2>1, RangeIndex
<1>6. \A x : x \in Range(front) <=> \E i \in 1..n : s[i] = x
    BY <1>2, RangeIndex
<1>7. \A x : x \in Range(rest) <=> \E i \in n + 1..Len(s) : s[i] = x
    <2> SUFFICES ASSUME NEW x
                 PROVE  x \in Range(rest) <=> \E i \in n + 1..Len(s) : s[i] = x
        OBVIOUS
    <2>1. x \in Range(rest) <=> \E i \in 1..Len(s) - n : s[n + i] = x
        <3>1. x \in Range(rest) <=> \E i \in 1..Len(rest) : rest[i] = x
            BY <1>3, RangeIndex
        <3> QED  BY <1>3, <3>1
    <2>2. ASSUME NEW i \in n + 1..Len(s), s[i] = x
          PROVE  \E j \in 1..Len(s) - n : s[n + j] = x
        <3>1. i - n \in 1..Len(s) - n /\ n + (i - n) = i
            BY <1>1
        <3> QED  BY <2>2, <3>1
    <2>3. \A j \in 1..Len(s) - n : n + j \in n + 1..Len(s)
        BY <1>1
    <2> QED  BY <2>1, <2>2, <2>3
<1>8. \A x : x \in Range(s) <=> \E i \in 1..Len(s) : s[i] = x
    BY RangeIndex
<1>9. Range(s) = Range(front) \cup Range(rest)
    BY <1>1, <1>6, <1>7, <1>8
<1>10. Range(front) \cap Range(rest) = {}
    BY <1>1, <1>4, <1>6, <1>7
<1> QED  BY <1>3, <1>5, <1>9, <1>10 DEF front, rest

\* A step that deletes the registration of f's file and leaves f dropped.
LEMMA DeleteSafe ==
    ASSUME RInv, NEW f \in Fd, Delete(FileOf[f]),
           state' = [state EXCEPT ![f] = "dropped"],
           state[f] \in {"unmade", "live", "stale"},
           UNCHANGED <<up, pipe, gen>>, slots' \in Nat, late' \subseteq Fd
    PROVE  RInv'
<1> USE FileOfType, FdsAreNotMarks DEF RInv
<1>0. FileOf[f] \in File /\ FileOf[f] # "pipe"
    OBVIOUS
<1>1. /\ ready' \in Seq(File \cup {"pipe"}) /\ IsInjective(ready')
      /\ Range(ready') = Range(ready) \ {FileOf[f]}
    BY RemoveFirstFacts DEF Delete, TypeOK
<1>2. /\ \A x \in File : table'[x] = IF x = FileOf[f] THEN NoFd ELSE table[x]
      /\ \A g \in Fd : state'[g] = IF g = f THEN "dropped" ELSE state[g]
    BY DEF Delete, TypeOK
<1>3. TypeOK'
    BY <1>1 DEF TypeOK, Delete
<1>4. \A x \in File : table'[x] # NoFd => table'[x] \in Live' /\ FileOf[table'[x]] = x
    BY <1>2 DEF Live, TypeOK
<1>5. Range(ready) \subseteq File \cup {"pipe"}
    BY RangeIndex DEF TypeOK
<1>6. \A x \in Reportable' : table'[x] # NoFd
    BY <1>1, <1>2, <1>5 DEF Reportable
<1>7. pipe' = 0 <=> "pipe" \notin Range(ready')
    BY <1>0, <1>1
<1>8. LiveFdsRegistered'
    <2> SUFFICES ASSUME NEW h \in Live',
                        \A g \in Fd \ {h} : FileOf[g] = FileOf[h] => state'[g] = "unmade"
                 PROVE  table'[FileOf[h]] = h
        BY DEF LiveFdsRegistered
    <2>1. h # f /\ h \in Live /\ FileOf[h] # FileOf[f]
        BY <1>2 DEF Live
    <2>2. table[FileOf[h]] = h
        BY <1>2, <2>1 DEF LiveFdsRegistered, Live
    <2> QED  BY <1>2, <2>1, <2>2 DEF Live
<1> QED  BY <1>1, <1>3, <1>4, <1>6, <1>7, <1>8

LEMMA NewSafe ==
    ASSUME RInv, NEW f \in Fd, New(f)
    PROVE  RInv'
<1> USE FileOfType, FdsAreNotMarks DEF RInv
<1>0. FileOf[f] \in File /\ FileOf[f] # "pipe" /\ f # NoFd
    OBVIOUS
<1>1. /\ ready' \in Seq(File \cup {"pipe"}) /\ IsInjective(ready')
      /\ Range(ready') \subseteq Range(ready) \cup {FileOf[f]} /\ Range(ready) \subseteq Range(ready')
    BY <1>0, QueueFacts DEF New, TypeOK
<1>2. /\ \A x \in File : table'[x] = IF x = FileOf[f] THEN f ELSE table[x]
      /\ \A g \in Fd : state'[g] = IF g = f THEN "live" ELSE state[g]
      /\ table[FileOf[f]] = NoFd /\ state[f] = "unmade"
    BY DEF New, TypeOK
<1>3. TypeOK'
    <2>1. slots' \in Nat /\ UNCHANGED <<up, pipe, gen, late>>
        BY DEF New, TypeOK
    <2>2. table' \in [File -> Fd \cup {NoFd}]
          /\ state' \in [Fd -> {"unmade", "live", "stale", "dropped"}]
        BY <1>0 DEF New, TypeOK
    <2> QED  BY <1>1, <2>1, <2>2 DEF TypeOK
<1>4. \A x \in File : table'[x] # NoFd => table'[x] \in Live' /\ FileOf[table'[x]] = x
    BY <1>2 DEF Live, TypeOK
<1>5. Range(ready) \subseteq File \cup {"pipe"}
    BY RangeIndex DEF TypeOK
<1>6. \A x \in Reportable' : table'[x] # NoFd
    BY <1>0, <1>1, <1>2, <1>5 DEF Reportable
<1>7. pipe' = 0 <=> "pipe" \notin Range(ready')
    <2>1. pipe' = pipe
        BY DEF New
    <2>2. "pipe" \in Range(ready') <=> "pipe" \in Range(ready)
        BY <1>0, <1>1
    <2> QED  BY <2>1, <2>2
<1>8. LiveFdsRegistered'
    <2> SUFFICES ASSUME NEW h \in Live',
                        \A g \in Fd \ {h} : FileOf[g] = FileOf[h] => state'[g] = "unmade"
                 PROVE  table'[FileOf[h]] = h
        BY DEF LiveFdsRegistered
    <2>1. CASE h = f
        BY <1>0, <1>2, <2>1
    <2>2. CASE h # f
        <3>1. h \in Live /\ FileOf[h] # FileOf[f]
            BY <1>2, <2>2 DEF Live
        <3>2. \A g \in Fd \ {h} : FileOf[g] = FileOf[h] => state[g] = "unmade"
            BY <1>2
        <3>3. table[FileOf[h]] = h
            BY <3>1, <3>2 DEF LiveFdsRegistered
        <3> QED  BY <1>2, <3>1, <3>3 DEF Live
    <2> QED  BY <2>1, <2>2
<1> QED  BY <1>1, <1>3, <1>4, <1>6, <1>7, <1>8

LEMMA CloseSafe ==
    ASSUME RInv, Close, up' \in BOOLEAN, slots' \in Nat, gen' \in 0..MaxRuns, late' \subseteq Fd
    PROVE  RInv'
<1> USE BoundsType DEF RInv
<1>1. ready' \in Seq(File \cup {"pipe"}) /\ IsInjective(ready') /\ Range(ready') = {}
    BY EmptyFacts DEF Close
<1>2. TypeOK'
    BY <1>1 DEF Close, TypeOK
<1>3. Live' = {}
    BY DEF Close, Live
<1> QED  BY <1>1, <1>2, <1>3 DEF Close, Reportable, LiveFdsRegistered

\* The steps that change no Fd: what the kernel queues and epoll_wait takes.
LEMMA KernelSafe ==
    ASSUME RInv, (\E x \in File : Ready(x)) \/ RemoteWake \/ EpollWait
    PROVE  RInv'
<1> USE BoundsType, FdsAreNotMarks DEF RInv
<1>1. UNCHANGED <<up, slots, table, state, gen, late>>
    BY DEF Ready, RemoteWake, EpollWait
<1>2. LiveFdsRegistered' /\ Live' = Live
    BY <1>1 DEF LiveFdsRegistered, Live
<1>3. ASSUME NEW x \in File, Ready(x)
      PROVE  RInv'
    <2>1. x # "pipe" /\ table[x] # NoFd /\ ready' = Queue(x) /\ pipe' = pipe
        BY <1>3 DEF Ready
    <2> QED  BY <1>1, <1>2, <2>1, QueueFacts DEF TypeOK, Reportable
<1>4. CASE RemoteWake
    <2>1. ready' = Queue("pipe") /\ pipe' = pipe + 1 /\ pipe < PipeCap
        BY <1>4 DEF RemoteWake
    <2>2. pipe' \in 0..PipeCap /\ pipe' # 0
        BY <2>1 DEF TypeOK
    <2> QED  BY <1>1, <1>2, <2>1, <2>2, QueueFacts DEF TypeOK, Reportable
<1>5. CASE EpollWait
    <2> DEFINE rest == SubSeq(ready, Asked + 1, Len(ready))
               S == File \cup {"pipe"}
    <2>1. Asked \in 0..Len(ready) /\ ready \in Seq(S)
        BY LenProperties DEF Asked, TypeOK
    <2>2. /\ rest \in Seq(S) /\ IsInjective(rest)
          /\ Range(ready) = Range(Reports) \cup Range(rest)
          /\ Range(Reports) \cap Range(rest) = {}
        BY <2>1, RestFacts DEF Reports
    <2>3. /\ pipe' = IF "pipe" \in Range(Reports) THEN pipe - 1 ELSE pipe
          /\ ready' = IF "pipe" \in Range(Reports) /\ pipe > 1 THEN Append(rest, "pipe") ELSE rest
        BY <1>5 DEF EpollWait
    <2> HIDE DEF rest
    <2>4. /\ Append(rest, "pipe") \in Seq(S) /\ Range(Append(rest, "pipe")) = Range(rest) \cup {"pipe"}
          /\ "pipe" \notin Range(rest) => IsInjective(Append(rest, "pipe"))
        BY <2>2, AppendFacts
    <2>5. "pipe" \in Range(Reports) => pipe \in 1..PipeCap /\ "pipe" \notin Range(rest)
        BY <2>2 DEF TypeOK
    <2>6. pipe' \in 0..PipeCap /\ ready' \in Seq(S) /\ IsInjective(ready')
          /\ Range(ready') \ {"pipe"} \subseteq Range(ready)
          /\ (pipe' = 0 <=> "pipe" \notin Range(ready'))
        BY <2>2, <2>3, <2>4, <2>5 DEF TypeOK
    <2> QED  BY <1>1, <1>2, <2>6 DEF TypeOK, Reportable
<1> QED  BY <1>3, <1>4, <1>5

LEMMA InitRegistry == Init => RInv
<1> SUFFICES ASSUME Init
             PROVE  RInv
    OBVIOUS
<1>1. ready \in Seq(File \cup {"pipe"}) /\ IsInjective(ready) /\ Range(ready) = {}
    BY EmptyFacts DEF Init
<1>2. Live = {}
    BY DEF Init, Live
<1>3. TypeOK
    BY <1>1, BoundsType DEF Init, TypeOK
<1>4. \A x \in File : table[x] = NoFd
    BY DEF Init
<1>5. pipe = 0
    BY DEF Init
<1> QED  BY <1>1, <1>2, <1>3, <1>4, <1>5 DEF RInv, Reportable, LiveFdsRegistered

LEMMA NextRegistry == RInv /\ [Next]_vars => RInv'
<1> SUFFICES ASSUME RInv, [Next]_vars
             PROVE  RInv'
    OBVIOUS
<1>0. TypeOK
    BY DEF RInv
<1>1. ASSUME NEW f \in Fd, NewRefused(f) \/ DropFd(f)
      PROVE  RInv'
    <2>1. slots' \in Nat /\ late' \subseteq Fd
        BY <1>0, <1>1 DEF NewRefused, DropFd, Pop, TypeOK
    <2> QED  BY <1>1, <2>1, DeleteSafe DEF NewRefused, DropFd
<1>2. ASSUME NEW f \in Fd, DropFdLate(f)
      PROVE  RInv'
    <2>1. Live' = Live /\ \A g \in Fd : state'[g] = "unmade" => state[g] = "unmade"
        BY <1>0, <1>2 DEF DropFdLate, Live, TypeOK
    <2>2. UNCHANGED <<up, slots, table, ready, pipe, gen, late>>
          /\ state' = [state EXCEPT ![f] = "dropped"]
        BY <1>2 DEF DropFdLate
    <2>3. TypeOK'
        BY <1>0, <2>2 DEF TypeOK
    <2>4. LiveFdsRegistered'
        BY <2>1, <2>2 DEF RInv, LiveFdsRegistered
    <2> QED  BY <2>1, <2>2, <2>3, <2>4 DEF RInv, Reportable
<1>3. CASE Replace \/ ThreadExit
    <2>1. up' \in BOOLEAN /\ slots' \in Nat /\ gen' \in 0..MaxRuns /\ late' \subseteq Fd /\ Close
        <3>1. CASE Replace
            <4>1. gen' \in 0..MaxRuns
                BY <1>0, <3>1, BoundsType DEF Replace, TypeOK
            <4> QED  BY <1>0, <3>1, <4>1 DEF Replace, TypeOK
        <3>2. CASE ThreadExit
            BY <1>0, <3>2 DEF ThreadExit, TypeOK
        <3> QED  BY <1>3, <3>1, <3>2
    <2> QED  BY <2>1, CloseSafe
<1>4. CASE UNCHANGED vars
    <2>1. TypeOK' /\ Live' = Live
        BY <1>0, <1>4 DEF vars, TypeOK, Live
    <2>2. LiveFdsRegistered'
        BY <1>4, <2>1 DEF vars, RInv, LiveFdsRegistered
    <2> QED  BY <1>4, <2>1, <2>2 DEF vars, RInv, Reportable
<1> QED  BY <1>1, <1>2, <1>3, <1>4, NewSafe, KernelSafe DEF Next
-----------------------------------------------------------------------------
(* The events vector, for finitely many Fds.                               *)

SInv == IsFiniteSet(Live) /\ SlotsMatch

LEMMA NextSlots ==
    ASSUME TypeOK, SInv, [Next]_vars
    PROVE  SInv'
<1> USE DEF SInv, SlotsMatch
<1>0. Cardinality(Live) \in Nat
    BY FS_CardinalityType
<1>1. ASSUME NEW f \in Fd, New(f)
      PROVE  SInv'
    <2>1. Live' = Live \cup {f} /\ f \notin Live
        BY <1>1 DEF New, Live, TypeOK
    <2>2. IsFiniteSet(Live') /\ Cardinality(Live') = Cardinality(Live) + 1
        BY <2>1, FS_AddElement
    <2>3. up /\ slots' = slots + 1 /\ late' = late
        BY <1>1 DEF New
    <2> QED  BY <1>0, <2>2, <2>3 DEF TypeOK
<1>2. ASSUME NEW f \in Fd, DropFd(f), state[f] = "live"
      PROVE  SInv'
    <2>1. Live' = Live \ {f} /\ f \in Live
        BY <1>2 DEF DropFd, Live, TypeOK
    <2>2. Cardinality(Live) # 0
        BY <2>1, FS_EmptySet
    <2>3. IsFiniteSet(Live') /\ Cardinality(Live') = Cardinality(Live) - 1
        BY <2>1, FS_RemoveElement
    <2>4. up /\ slots' = Pop /\ late' = late
        BY <1>2 DEF DropFd
    <2> QED  BY <1>0, <2>2, <2>3, <2>4 DEF Pop, TypeOK
<1>3. ASSUME NEW f \in Fd, DropFd(f), state[f] = "stale"
      PROVE  SInv'
    <2>1. Live' = Live /\ late' # {}
        BY <1>3 DEF DropFd, Live, TypeOK
    <2> QED  BY <2>1
<1>4. ASSUME NEW f \in Fd, NewRefused(f) \/ DropFdLate(f)
      PROVE  SInv'
    <2>1. Live' = Live
        BY <1>4 DEF NewRefused, DropFdLate, Live, TypeOK
    <2> QED  BY <1>4, <2>1 DEF NewRefused, DropFdLate
<1>5. CASE Replace \/ ThreadExit
    <2>1. Live' = {}
        BY <1>5 DEF Replace, ThreadExit, Close, Live
    <2> QED  BY <1>5, <2>1, FS_EmptySet DEF Replace, ThreadExit
<1>6. CASE (\E x \in File : Ready(x)) \/ RemoteWake \/ EpollWait \/ UNCHANGED vars
    <2>1. UNCHANGED <<up, slots, state, late>>
        BY <1>6 DEF Ready, RemoteWake, EpollWait, vars
    <2> QED  BY <2>1 DEF Live
<1> QED  BY <1>1, <1>2, <1>3, <1>4, <1>5, <1>6 DEF Next, DropFd
-----------------------------------------------------------------------------
(* Fd::new, Drop for Fd and epoll_wait (fd.rs, executor.rs): what is       *)
(* registered, reported and alive agree in every reachable state.          *)
THEOREM RegistryInvariant == Spec => []RInv
BY InitRegistry, NextRegistry, PTL DEF Spec

(* The fields of the executor and the kernel's tables keep their types.    *)
THEOREM RegistryTypes == Spec => []TypeOK
<1>1. RInv => TypeOK
    BY DEF RInv
<1> QED  BY <1>1, RegistryInvariant, PTL

(* epoll_wait (executor.rs:265-267): the address it dereferences is that   *)
(* of an Fd that was not dropped.                                          *)
THEOREM NeverDangling == Spec => []NoDanglingWaker
<1>1. RInv => NoDanglingWaker
    <2> SUFFICES ASSUME RInv, NEW i \in DOMAIN ready, ready[i] # "pipe"
                 PROVE  table[ready[i]] # NoFd
        BY DEF RInv, NoDanglingWaker
    <2>1. ready[i] \in Range(ready)
        BY DEF Range
    <2> QED  BY <2>1 DEF RInv, Reportable
<1> QED  BY <1>1, RegistryInvariant, PTL

(* Fd::new and Drop for Fd (fd.rs): a live Fd whose file no other Fd was   *)
(* made for is registered.                                                 *)
THEOREM LiveStayRegistered == Spec => []LiveFdsRegistered
<1>1. RInv => LiveFdsRegistered
    BY DEF RInv
<1> QED  BY <1>1, RegistryInvariant, PTL

(* epoll_add and epoll_del (executor.rs): the slots match the Fds, after   *)
(* any calls, failed ones included, until an Fd of an earlier executor is  *)
(* dropped.                                                                *)
THEOREM SlotsAreMatched == Spec => []SlotsMatch
<1>1. Init => SInv
    <2> SUFFICES ASSUME Init
                 PROVE  SInv
        OBVIOUS
    <2>1. Live = {}
        BY DEF Init, Live
    <2> QED  BY <2>1, FS_EmptySet DEF Init, SInv, SlotsMatch
<1>2. TypeOK /\ SInv /\ [Next]_vars => SInv'
    BY NextSlots
<1>3. SInv => SlotsMatch
    BY DEF SInv
<1> QED  BY <1>1, <1>2, <1>3, RegistryTypes, PTL DEF Spec
=============================================================================
