------------------------- MODULE RemoteWakeProofs ---------------------------
(***************************************************************************)
(* Proofs about RemoteWake for any threads, tasks and sizes of pipes.  As  *)
(* long as no pipe is given a number that was closed before, the number in *)
(* a task is that of an executor of its own thread, and a pipe holds       *)
(* pointers to tasks with its number only.  The weak counts are kept with  *)
(* or without that: each waker and each place in a pipe has one.           *)
(***************************************************************************)
EXTENDS RemoteWake, QueueLemmas, FiniteSetTheorems

Types ==
    /\ no \in [Thread -> 0..MaxNo] /\ old \in [Thread -> 0..MaxNo]
    /\ end \in [Number -> {"fresh", "open", "half", "closed"}]
    /\ data \in [Number -> Seq(Task)] /\ wr \in [Task -> 0..MaxNo]
    /\ st \in [Task -> Queued \cup {"new", "done", "out"}]
    /\ at \in [Task -> Thread] /\ waker \in [Task -> SUBSET Thread]
    /\ waking \in [Thread -> Task \cup {None}]

\* Numbers in use: each pipe has its own, and no number was never used.
NumbersApart ==
    /\ \A h \in Thread : no[h] # 0 => end[no[h]] = "open" /\ no[h] # old[h]
    /\ \A h \in Thread : old[h] # 0 => end[old[h]] # "fresh"
    /\ \A h, g \in Thread : h # g /\ no[h] # 0 => no[h] # no[g] /\ no[h] # old[g]

\* The number of a task is not the number of another thread's pipe.
NumbersHome ==
    \A t \in Task : wr[t] # 0 =>
        /\ end[wr[t]] # "fresh"
        /\ \A h \in Thread : no[h] = wr[t] => h = Home[t]

\* Pipes and wakers refer to tasks that were spawned.
PointersHome ==
    /\ \A n \in Number : \A t \in Range(data[n]) : n = wr[t]
    /\ \A t \in Task : wr[t] = 0 => st[t] = "new" /\ waker[t] = {}
    /\ \A h \in Thread : waking[h] # None => wr[waking[h]] # 0

AtHome == \A t \in Task : st[t] \in Queued => at[t] = Home[t]

HInv == Types /\ (~reused => NumbersApart /\ NumbersHome /\ PointersHome /\ AtHome)

\* The invariant while ~reused, without the types.
Apart == NumbersApart /\ NumbersHome /\ PointersHome /\ AtHome

LEMMA InitHome == Init => HInv
<1> SUFFICES ASSUME Init
             PROVE  HInv
    OBVIOUS
<1> USE BoundsType, HomeType, NamesAreNotMarks
<1>1. no \in [Thread -> Number] /\ IsInjective(no)
    BY EnoughNumbers DEF Init
<1>2. \A h, g \in Thread : no[h] = no[g] => h = g
    BY <1>1 DEF IsInjective
<1>3. \A h \in Thread : no[h] \in Range(no)
    BY <1>1 DEF Range
<1>4. Number \subseteq 0..MaxNo /\ 0 \notin Number
    BY DEF Number
<1>5. data \in [Number -> Seq(Task)] /\ \A n \in Number : Range(data[n]) = {}
    BY EmptyFacts DEF Init
<1>6. Types
    <2>1. no \in [Thread -> 0..MaxNo] /\ old \in [Thread -> 0..MaxNo] /\ wr \in [Task -> 0..MaxNo]
        <3>1. 0 \in 0..MaxNo
            OBVIOUS
        <3>2. no \in [Thread -> 0..MaxNo]
            BY <1>1, <1>4
        <3> QED  BY <3>1, <3>2 DEF Init
    <2>2. end \in [Number -> {"fresh", "open", "half", "closed"}]
        BY DEF Init
    <2>3. /\ st \in [Task -> Queued \cup {"new", "done", "out"}] /\ at \in [Task -> Thread]
          /\ waker \in [Task -> SUBSET Thread] /\ waking \in [Thread -> Task \cup {None}]
        BY DEF Init
    <2> QED  BY <1>5, <2>1, <2>2, <2>3 DEF Types
<1>7. NumbersApart
    BY <1>1, <1>2, <1>3, <1>4 DEF Init, NumbersApart
<1>8. NumbersHome /\ PointersHome /\ AtHome
    BY <1>5 DEF Init, NumbersHome, PointersHome, AtHome, Queued
<1> QED  BY <1>6, <1>7, <1>8 DEF HInv

\* Enqueue on the task's own thread.
LEMMA EnqueueHome ==
    ASSUME Types, NEW h \in Thread, NEW t \in Task, Enqueue(h, t)
    PROVE  /\ st' \in [Task -> Queued \cup {"new", "done", "out"}] /\ at' \in [Task -> Thread]
           /\ \A u \in Task : u # t => st'[u] = st[u] /\ at'[u] = at[u]
           /\ st'[t] = "done" \/ at'[t] = h
           /\ st'[t] # "new" \/ st[t] = "new"
BY DEF Enqueue, Types, Queued

\* A step that leaves the pipes and the numbers alone.
LEMMA TaskStep ==
    ASSUME HInv, NEW h \in Thread, NEW t \in Task,
           \/ StartPoll(h, t) \/ DropHandle(h, t) \/ DropWaker(h, t)
           \/ WakeUpgrade(h, t) \/ CloneUpgrade(h, t)
           \/ \E ready \in BOOLEAN : EndPoll(h, t, ready)
    PROVE  HInv'
<1> USE NamesAreNotMarks
<1>1. UNCHANGED <<no, old, end, data, wr, at, reused>>
    BY DEF StartPoll, DropHandle, DropWaker, WakeUpgrade, CloneUpgrade, EndPoll, exec, history, refs
<1>2. Types
    BY DEF HInv
<1>3. \/ UNCHANGED st
      \/ st[t] \in Queued /\ \E v \in Queued \cup {"done"} : st' = [st EXCEPT ![t] = v]
    BY DEF StartPoll, DropHandle, DropWaker, WakeUpgrade, CloneUpgrade, EndPoll, refs, Queued
<1>4. waker' \in {waker, [waker EXCEPT ![t] = @ \ {h}]}
    BY DEF StartPoll, DropHandle, DropWaker, WakeUpgrade, CloneUpgrade, EndPoll, refs, Queued
<1>5. \/ UNCHANGED waking
      \/ waking' = [waking EXCEPT ![h] = t] /\ (waker[t] # {} \/ st[t] \in Queued)
    <2>1. CASE WakeUpgrade(h, t)
        BY <2>1 DEF WakeUpgrade
    <2>2. CASE CloneUpgrade(h, t)
        BY <2>2 DEF CloneUpgrade, Queued
    <2>3. CASE ~WakeUpgrade(h, t) /\ ~CloneUpgrade(h, t)
        BY <2>3 DEF StartPoll, DropHandle, DropWaker, EndPoll
    <2> QED  BY <2>1, <2>2, <2>3
<1>7. /\ st' \in [Task -> Queued \cup {"new", "done", "out"}]
      /\ \A u \in Task : st'[u] = st[u] \/ (st[u] \in Queued /\ st'[u] # "new")
    BY <1>2, <1>3 DEF Types, Queued
<1>8. /\ waker' \in [Task -> SUBSET Thread]
      /\ \A u \in Task : waker'[u] # {} => waker[u] # {}
    <2>1. waker \in [Task -> SUBSET Thread]
        BY <1>2 DEF Types
    <2>2. CASE UNCHANGED waker
        BY <2>1, <2>2
    <2>3. CASE waker' = [waker EXCEPT ![t] = @ \ {h}]
        BY <2>1, <2>3
    <2> QED  BY <1>4, <2>2, <2>3
<1>9. /\ waking' \in [Thread -> Task \cup {None}]
      /\ \A g \in Thread : \/ waking'[g] = waking[g]
                           \/ waking'[g] = t /\ (waker[t] # {} \/ st[t] \in Queued)
    <2>1. waking \in [Thread -> Task \cup {None}]
        BY <1>2 DEF Types
    <2>2. CASE UNCHANGED waking
        BY <2>1, <2>2
    <2>3. CASE /\ waking' = [waking EXCEPT ![h] = t]
               /\ waker[t] # {} \/ st[t] \in Queued
        BY <2>1, <2>3
    <2> QED  BY <1>5, <2>2, <2>3
<1>10. Types'
    BY <1>1, <1>2, <1>7, <1>8, <1>9 DEF Types
<1>6. ASSUME Apart
      PROVE  PointersHome' /\ AtHome'
    <2>1. AtHome'
        BY <1>1, <1>7, <1>6 DEF Apart, AtHome
    <2>2. \A u \in Task : wr[u] = 0 => st[u] \notin Queued
        BY <1>6 DEF Apart, PointersHome, Queued
    <2>3. \A u \in Task : wr'[u] = 0 => st'[u] = "new" /\ waker'[u] = {}
        BY <1>1, <1>7, <1>8, <1>6, <2>2 DEF Apart, PointersHome
    <2>4. \A g \in Thread : waking'[g] # None => wr'[waking'[g]] # 0
        BY <1>1, <1>9, <1>6, <2>2 DEF Apart, PointersHome
    <2> QED  BY <1>1, <1>6, <2>1, <2>3, <2>4 DEF Apart, PointersHome
<1> QED  BY <1>1, <1>10, <1>6 DEF HInv, Apart, NumbersApart, NumbersHome

LEMMA SpawnStep ==
    ASSUME HInv, NEW h \in Thread, NEW t \in Task, Spawn(h, t)
    PROVE  HInv'
<1> USE NamesAreNotMarks
<1>1. /\ no[h] # 0 /\ Home[t] = h /\ wr[t] = 0 /\ wr' = [wr EXCEPT ![t] = no[h]]
      /\ Enqueue(h, t) /\ UNCHANGED <<no, old, end, data, waker, waking, reused>>
    BY DEF Spawn, Idle, InCode, exec, history
<1>2. Types
    BY DEF HInv
<1>3. Types'
    BY <1>1, <1>2, EnqueueHome DEF Types
<1>4. ASSUME Apart
      PROVE  NumbersHome' /\ PointersHome' /\ AtHome'
    <2>1. \A u \in Task : wr'[u] = IF u = t THEN no[h] ELSE wr[u]
        BY <1>1, <1>2 DEF Types
    <2>2. NumbersHome'
        BY <1>1, <1>4, <2>1 DEF Apart, NumbersApart, NumbersHome
    <2>3. \A n \in Number : Range(data[n]) \subseteq Task
        BY <1>2, RangeIndex DEF Types
    <2>4. \A n \in Number : t \notin Range(data[n])
        BY <1>1, <1>4 DEF Apart, PointersHome, Number
    <2>5. PointersHome'
        BY <1>1, <1>2, <1>4, <2>1, <2>3, <2>4, EnqueueHome DEF Apart, PointersHome, Types
    <2>6. AtHome'
        BY <1>1, <1>2, <1>4, EnqueueHome DEF Apart, AtHome, Queued
    <2> QED  BY <2>2, <2>5, <2>6
<1> QED  BY <1>1, <1>3, <1>4 DEF HInv, Apart, NumbersApart

\* A call of wake(), the end of clone(), and a read of the pipe.
LEMMA WakeStep ==
    ASSUME HInv, NEW h \in Thread,
           \/ WakeHere(h) \/ WakeWrite(h) \/ WakeFails(h) \/ ReadPipe(h)
           \/ \E byVal \in BOOLEAN : WakeDone(h, byVal)
           \/ \E g \in Thread : CloneDone(h, g)
    PROVE  HInv'
<1> USE NamesAreNotMarks
<1>1. UNCHANGED <<no, old, end, wr, reused>>
    BY DEF WakeHere, WakeWrite, WakeFails, ReadPipe, WakeDone, CloneDone, exec, history
<1>2. Types
    BY DEF HInv
<1>3. ASSUME NumbersHome', PointersHome', AtHome', Apart
      PROVE  Apart'
    BY <1>1, <1>3 DEF Apart, NumbersApart
<1>4. Apart => NumbersHome'
    BY <1>1 DEF Apart, NumbersHome
<1>5. CASE WakeHere(h)
    <2>1. waking[h] \in Task /\ no[h] = wr[waking[h]] /\ Enqueue(h, waking[h])
          /\ UNCHANGED <<data, waker, waking>>
        BY <1>2, <1>5 DEF WakeHere, Waking, Types, exec, refs
    <2>2. Types'
        BY <1>1, <1>2, <2>1, EnqueueHome DEF Types
    <2>3. ASSUME Apart
          PROVE  PointersHome' /\ AtHome'
        <3>1. wr[waking[h]] # 0 /\ Home[waking[h]] = h
            BY <2>1, <2>3 DEF Apart, PointersHome, NumbersHome
        <3>2. AtHome'
            BY <1>2, <2>1, <2>3, <3>1, EnqueueHome DEF Apart, AtHome, Queued
        <3>3. PointersHome'
            BY <1>1, <1>2, <2>1, <2>3, <3>1, EnqueueHome DEF Apart, PointersHome
        <3> QED  BY <3>2, <3>3
    <2> QED  BY <1>1, <1>3, <1>4, <2>2, <2>3 DEF HInv, Apart
<1>6. CASE WakeWrite(h)
    <2> DEFINE t == waking[h]
    <2>1. /\ t \in Task /\ data' = [data EXCEPT ![wr[t]] = Append(@, t)]
          /\ UNCHANGED <<st, at, waker, waking>>
        BY <1>2, <1>6 DEF WakeWrite, Waking, Types
    <2>2. \A n \in Number : data'[n] = IF n = wr[t] THEN Append(data[n], t) ELSE data[n]
        BY <1>2, <2>1 DEF Types
    <2>3. \A n \in Number : /\ Append(data[n], t) \in Seq(Task)
                            /\ Range(Append(data[n], t)) = Range(data[n]) \cup {t}
        BY <1>2, <2>1, AppendFacts DEF Types
    <2>4. Types'
        BY <1>1, <1>2, <2>1, <2>3 DEF Types
    <2>5. Apart => PointersHome' /\ AtHome'
        BY <1>1, <2>1, <2>2, <2>3 DEF Apart, PointersHome, AtHome
    <2> QED  BY <1>1, <1>3, <1>4, <2>4, <2>5 DEF HInv, Apart
<1>7. CASE WakeFails(h) \/ \E byVal \in BOOLEAN : WakeDone(h, byVal)
    <2>1. UNCHANGED <<data, st, at>>
        BY <1>7 DEF WakeFails, WakeDone, exec
    <2>2. /\ waker' \in [Task -> SUBSET Thread] /\ waking' \in [Thread -> Task \cup {None}]
          /\ \A u \in Task : waker'[u] \subseteq waker[u]
          /\ \A g \in Thread : waking'[g] \in {waking[g], None}
        <3>1. CASE WakeFails(h)
            BY <1>2, <3>1 DEF WakeFails, Types
        <3>2. ASSUME NEW byVal \in BOOLEAN, WakeDone(h, byVal)
              PROVE  /\ waking' = [waking EXCEPT ![h] = None]
                     /\ waker' \in {waker, [waker EXCEPT ![waking[h]] = @ \ {h}]}
            <4>1. waker \in [Task -> SUBSET Thread] /\ waking[h] \in Task
                BY <1>2, <3>2 DEF Types, WakeDone
            <4>2. [waker EXCEPT ![waking[h]] = @] = waker
                BY <4>1
            <4> QED  BY <3>2, <4>2 DEF WakeDone
        <3>3. waker \in [Task -> SUBSET Thread] /\ waking \in [Thread -> Task \cup {None}]
            BY <1>2 DEF Types
        <3>4. ASSUME waking' = [waking EXCEPT ![h] = None],
                     waker' \in {waker, [waker EXCEPT ![waking[h]] = @ \ {h}]}
              PROVE  /\ waker' \in [Task -> SUBSET Thread]
                     /\ waking' \in [Thread -> Task \cup {None}]
                     /\ \A u \in Task : waker'[u] \subseteq waker[u]
                     /\ \A g \in Thread : waking'[g] \in {waking[g], None}
            BY <3>3, <3>4
        <3> QED  BY <1>7, <3>1, <3>2, <3>4
    <2>3. Types'
        BY <1>1, <1>2, <2>1, <2>2 DEF Types
    <2>4. Apart => PointersHome' /\ AtHome'
        BY <1>1, <2>1, <2>2 DEF Apart, PointersHome, AtHome
    <2> QED  BY <1>1, <1>3, <1>4, <2>3, <2>4 DEF HInv, Apart
<1>8. CASE ReadPipe(h)
    <2> DEFINE t == Head(data[no[h]])
    <2>1. /\ no[h] # 0 /\ data[no[h]] # <<>> /\ data' = [data EXCEPT ![no[h]] = Tail(@)]
          /\ Enqueue(h, t) \/ UNCHANGED <<st, at>>
          /\ UNCHANGED <<waker, waking>>
        BY <1>8 DEF ReadPipe, Idle, InCode
    <2>2. no[h] \in Number
        BY <1>2, <2>1, BoundsType DEF Types, Number
    <2>3. /\ t \in Task /\ t \in Range(data[no[h]]) /\ Tail(data[no[h]]) \in Seq(Task)
          /\ Range(Tail(data[no[h]])) \subseteq Range(data[no[h]])
        BY <1>2, <2>1, <2>2, TailFacts DEF Types
    <2> HIDE DEF t
    <2>4. Types'
        BY <1>1, <1>2, <2>1, <2>2, <2>3, EnqueueHome DEF Types
    <2>5. \A n \in Number : Range(data'[n]) \subseteq Range(data[n])
        BY <1>2, <2>1, <2>2, <2>3 DEF Types
    <2>6. ASSUME Apart
          PROVE  PointersHome' /\ AtHome'
        <3>1. no[h] = wr[t] /\ Home[t] = h
            BY <2>1, <2>2, <2>3, <2>6 DEF Apart, PointersHome, NumbersHome
        <3>2. AtHome'
            BY <1>2, <2>1, <2>3, <2>6, <3>1, EnqueueHome DEF Apart, AtHome, Queued
        <3>3. PointersHome'
            BY <1>1, <1>2, <2>1, <2>3, <2>5, <2>6, <3>1, EnqueueHome DEF Apart, PointersHome
        <3> QED  BY <3>2, <3>3
    <2> QED  BY <1>1, <1>3, <1>4, <2>4, <2>6 DEF HInv, Apart
<1>9. ASSUME NEW g \in Thread, CloneDone(h, g)
      PROVE  HInv'
    <2>1. /\ waking[h] \in Task /\ UNCHANGED <<data, st, at>>
          /\ waker' = [waker EXCEPT ![waking[h]] = @ \cup {g}]
          /\ waking' = [waking EXCEPT ![h] = None]
        BY <1>2, <1>9 DEF CloneDone, Types, exec
    <2>2. /\ waker' \in [Task -> SUBSET Thread] /\ waking' \in [Thread -> Task \cup {None}]
          /\ \A u \in Task : u # waking[h] => waker'[u] = waker[u]
          /\ \A k \in Thread : waking'[k] \in {waking[k], None}
        BY <1>2, <2>1 DEF Types
    <2>3. Types'
        BY <1>1, <1>2, <2>1, <2>2 DEF Types
    <2>4. Apart => PointersHome' /\ AtHome'
        BY <1>1, <2>1, <2>2 DEF Apart, PointersHome, AtHome
    <2> QED  BY <1>1, <1>3, <1>4, <2>3, <2>4 DEF HInv, Apart
<1> QED  BY <1>5, <1>6, <1>7, <1>8, <1>9

\* The drop of an executor.
LEMMA DropStep ==
    ASSUME HInv, NEW h \in Thread,
           CloseReader(h) \/ CloseWriter(h) \/ ThreadExit(h) \/ \E n \in Number : Stop(h, n)
    PROVE  HInv'
<1> USE NamesAreNotMarks, BoundsType
<1>1. Types /\ Number \subseteq 0..MaxNo /\ 0 \notin Number
    BY DEF HInv, Number
<1>2. \A g \in Thread : /\ no[g] # 0 => no[g] \in Number
                        /\ old[g] # 0 => old[g] \in Number
    BY <1>1 DEF Types, Number
<1>3. CASE CloseReader(h) \/ CloseWriter(h)
    <2>1. /\ UNCHANGED <<no, wr, st, at, waker, waking, reused>> /\ old[h] # 0
          /\ \E e \in {"half", "closed"} : end' = [end EXCEPT ![old[h]] = e]
          /\ old' \in {old, [old EXCEPT ![h] = 0]}
          /\ data' \in {data, [data EXCEPT ![old[h]] = <<>>]}
        <3>1. CASE CloseReader(h)
            <4>1. /\ old[h] # 0 /\ end' = [end EXCEPT ![old[h]] = "half"]
                  /\ data' = [data EXCEPT ![old[h]] = <<>>]
                  /\ UNCHANGED <<no, old, wr, st, at, waker, waking, reused>>
                BY <3>1 DEF CloseReader, refs, history
            <4> QED  BY <4>1
        <3>2. CASE CloseWriter(h)
            <4>1. /\ old[h] # 0 /\ end' = [end EXCEPT ![old[h]] = "closed"]
                  /\ old' = [old EXCEPT ![h] = 0]
                  /\ UNCHANGED <<no, data, wr, st, at, waker, waking, reused>>
                BY <3>2 DEF CloseWriter, refs, history
            <4> QED  BY <4>1
        <3> QED  BY <1>3, <3>1, <3>2
    <2>2. \A g \in Thread : old'[g] \in {old[g], 0}
        BY <1>1, <2>1 DEF Types
    <2>3. /\ \A n \in Number : n # old[h] => end'[n] = end[n]
          /\ end'[old[h]] \in {"half", "closed"}
        BY <1>1, <1>2, <2>1 DEF Types
    <2>4. data' \in [Number -> Seq(Task)] /\ \A n \in Number : Range(data'[n]) \subseteq Range(data[n])
        <3>1. <<>> \in Seq(Task) /\ Range(<<>>) = {}
            BY EmptyFacts
        <3>2. CASE data' = data
            BY <1>1, <3>2 DEF Types
        <3>3. CASE data' = [data EXCEPT ![old[h]] = <<>>]
            BY <1>1, <3>1, <3>3 DEF Types
        <3> QED  BY <2>1, <3>2, <3>3
    <2>5. Types'
        <3>1. end' \in [Number -> {"fresh", "open", "half", "closed"}]
            BY <1>1, <2>1 DEF Types
        <3>2. old' \in [Thread -> 0..MaxNo]
            <4>1. old \in [Thread -> 0..MaxNo] /\ 0 \in 0..MaxNo
                BY <1>1 DEF Types
            <4> QED  BY <2>1, <4>1
        <3> QED  BY <1>1, <2>1, <2>4, <3>1, <3>2 DEF Types
    <2>6. ASSUME Apart
          PROVE  Apart'
        <3>1. NumbersApart'
            BY <1>2, <2>1, <2>2, <2>3, <2>6 DEF Apart, NumbersApart
        <3>2. \A t \in Task : wr[t] # 0 => wr[t] \in Number
            BY <1>1 DEF Types, Number
        <3>3. NumbersHome'
            BY <2>1, <2>3, <2>6, <3>2 DEF Apart, NumbersHome
        <3>4. PointersHome' /\ AtHome'
            BY <2>1, <2>4, <2>6 DEF Apart, PointersHome, AtHome
        <3> QED  BY <3>1, <3>3, <3>4 DEF Apart
    <2> QED  BY <2>1, <2>5, <2>6 DEF HInv, Apart
<1>4. ASSUME NEW n \in Number, Stop(h, n) \/ ThreadExit(h)
      PROVE  HInv'
    <2>1. /\ no[h] # 0 /\ old' = [old EXCEPT ![h] = no[h]]
          /\ st' = [t \in Task |-> IF at[t] = h /\ st[t] \in Queued THEN "out" ELSE st[t]]
          /\ UNCHANGED <<data, wr, at, waker, waking>>
        BY <1>4 DEF Stop, ThreadExit, Idle, InCode, DropQueues, refs
    <2>2. \/ /\ no' = [no EXCEPT ![h] = n] /\ end' = [end EXCEPT ![n] = "open"]
             /\ reused' \/ (end[n] = "fresh" /\ ~reused)
          \/ no' = [no EXCEPT ![h] = 0] /\ end' = end /\ reused' = reused
        BY <1>1, <1>4 DEF Stop, ThreadExit, FreeNumber, Types
    <2>3. Types'
        <3>1. no' \in [Thread -> 0..MaxNo] /\ old' \in [Thread -> 0..MaxNo]
            <4>1. /\ no \in [Thread -> 0..MaxNo] /\ old \in [Thread -> 0..MaxNo]
                  /\ 0 \in 0..MaxNo /\ n \in 0..MaxNo
                BY <1>1 DEF Types
            <4>2. old' \in [Thread -> 0..MaxNo]
                BY <2>1, <4>1
            <4>3. no' \in [Thread -> 0..MaxNo]
                BY <2>2, <4>1
            <4> QED  BY <4>2, <4>3
        <3>2. end' \in [Number -> {"fresh", "open", "half", "closed"}]
            BY <1>1, <2>2 DEF Types
        <3>3. st' \in [Task -> Queued \cup {"new", "done", "out"}]
            BY <1>1, <2>1 DEF Types
        <3> QED  BY <1>1, <2>1, <3>1, <3>2, <3>3 DEF Types
    <2>4. ASSUME Apart, ~reused'
          PROVE  Apart'
        <3>1. \A g \in Thread : old'[g] = IF g = h THEN no[h] ELSE old[g]
            BY <1>1, <2>1 DEF Types
        <3>2. PointersHome' /\ AtHome'
            BY <1>1, <2>1, <2>4 DEF Apart, PointersHome, AtHome, Types, Queued
        <3>3. CASE no' = [no EXCEPT ![h] = 0] /\ end' = end
            <4>1. \A g \in Thread : no'[g] = IF g = h THEN 0 ELSE no[g]
                BY <1>1, <3>3 DEF Types
            <4>2. NumbersApart'
                BY <2>4, <3>1, <3>3, <4>1 DEF Apart, NumbersApart
            <4>3. NumbersHome'
                BY <2>1, <2>4, <3>3, <4>1 DEF Apart, NumbersHome
            <4> QED  BY <3>2, <4>2, <4>3 DEF Apart
        <3>4. CASE /\ no' = [no EXCEPT ![h] = n] /\ end' = [end EXCEPT ![n] = "open"]
                   /\ end[n] = "fresh"
            <4>1. \A g \in Thread : no'[g] = IF g = h THEN n ELSE no[g]
                BY <1>1, <3>4 DEF Types
            <4>2. \A k \in Number : end'[k] = IF k = n THEN "open" ELSE end[k]
                BY <1>1, <3>4 DEF Types
            <4>3. /\ \A g \in Thread : no[g] # n /\ old[g] # n
                  /\ \A t \in Task : wr[t] # n
                BY <1>1, <2>4, <3>4 DEF Apart, NumbersApart, NumbersHome
            <4>4. NumbersApart'
                BY <1>2, <2>1, <2>4, <3>1, <4>1, <4>2, <4>3 DEF Apart, NumbersApart
            <4>5. \A t \in Task : wr[t] # 0 => wr[t] \in Number
                BY <1>1 DEF Types, Number
            <4>6. NumbersHome'
                BY <2>1, <2>4, <4>1, <4>2, <4>3, <4>5 DEF Apart, NumbersHome
            <4> QED  BY <3>2, <4>4, <4>6 DEF Apart
        <3> QED  BY <2>2, <2>4, <3>3, <3>4
    <2> QED  BY <2>2, <2>3, <2>4 DEF HInv, Apart
<1>5. Number # {}
    <2>1. PICK f \in [Thread -> Number] : IsInjective(f)
        BY EnoughNumbers
    <2> QED  BY <2>1
<1> QED  BY <1>3, <1>4, <1>5

LEMMA NextHome == HInv /\ [Next]_vars => HInv'
<1> SUFFICES ASSUME HInv, [Next]_vars
             PROVE  HInv'
    OBVIOUS
<1>1. ASSUME NEW h \in Thread, Step(h)
      PROVE  HInv'
    BY <1>1, TaskStep, SpawnStep, WakeStep, DropStep DEF Step
<1>2. CASE UNCHANGED vars
    BY <1>2 DEF vars, exec, refs, history, HInv, Types, NumbersApart, NumbersHome, PointersHome, AtHome
<1> QED  BY <1>1, <1>2 DEF Next
-----------------------------------------------------------------------------
(* task_waker::wake and wake_from_pipe (executor.rs), README.md:24: a task *)
(* does not move between threads while pipe numbers are not given out      *)
(* again, whatever executors are replaced and threads end meanwhile.       *)
THEOREM TasksStayHome == Spec => []TasksStay
<1>1. HInv => TasksStay
    BY DEF HInv, AtHome, TasksStay
<1> QED  BY InitHome, NextHome, <1>1, PTL DEF Spec
-----------------------------------------------------------------------------
(* The counts of weak pointers. *)

\* The places in the pipes d that hold a pointer to t.
Places(d, t) == {p \in Number \X (1..PipeCap) :
                     p[2] <= Len(d[p[1]]) /\ d[p[1]][p[2]] = t}

\* The threads whose wake() of t panicked, before the unwinding drops the weak
\* pointer made from the waker: the clone that was not written is still counted.
Failing(w, c, f, t) == {h \in Thread : w[h] = t /\ c[h] = "sent" /\ f[h] # None}

CountsKept ==
    \A t \in Task : weak[t] >= Cardinality(waker[t]) + Cardinality(Places(data, t))
                               + Cardinality(Failing(waking, call, fault, t))

\* A pipe is no fuller than it can be, pointers are to tasks that were spawned,
\* and a thread in wake() has the waker it was called on.
Held ==
    /\ \A n \in Number : Len(data[n]) <= PipeCap /\ \A t \in Range(data[n]) : wr[t] # 0
    /\ \A t \in Task : wr[t] = 0 => st[t] = "new" /\ waker[t] = {}
    /\ \A h \in Thread : waking[h] # None => wr[waking[h]] # 0
    /\ \A h \in Thread : call[h] \in {"wake", "sent"} =>
            waking[h] # None /\ h \in waker[waking[h]]
    /\ \A h \in Thread : call[h] \in {"wake", "clone"} => fault[h] = None

KInv == TypeOK /\ Held /\ CountsKept

LEMMA PlacesFinite ==
    ASSUME NEW d, NEW t
    PROVE  IsFiniteSet(Places(d, t)) /\ Cardinality(Places(d, t)) \in Nat
<1>1. IsFiniteSet(Number) /\ IsFiniteSet(1..PipeCap)
    BY BoundsType, FS_Interval DEF Number
<1>2. IsFiniteSet(Number \X (1..PipeCap))
    BY <1>1, FS_Product
<1>3. Places(d, t) \subseteq Number \X (1..PipeCap)
    BY DEF Places
<1> QED  BY <1>2, <1>3, FS_Subset, FS_CardinalityType

LEMMA WakersFinite ==
    ASSUME NEW S \in SUBSET Thread
    PROVE  /\ IsFiniteSet(S) /\ Cardinality(S) \in Nat
           /\ \A h \in Thread : h \notin S => Cardinality(S \cup {h}) = Cardinality(S) + 1
           /\ \A h \in S : Cardinality(S \ {h}) = Cardinality(S) - 1
<1>1. IsFiniteSet(Thread)
    <2>1. PICK f \in [Thread -> Number] : IsInjective(f)
        BY EnoughNumbers
    <2>2. f \in Injection(Thread, Number)
        BY <2>1 DEF Injection, IsInjective
    <2>3. IsFiniteSet(Number)
        BY BoundsType, FS_Interval DEF Number
    <2> QED  BY <2>2, <2>3, FS_Injection
<1>2. IsFiniteSet(S)
    BY <1>1, FS_Subset
<1> QED  BY <1>2, FS_CardinalityType, FS_AddElement, FS_RemoveElement

\* A pointer written to a pipe takes one place.
LEMMA PlacesOfAppend ==
    ASSUME NEW d \in [Number -> Seq(Task)], NEW n \in Number, NEW t \in Task,
           Len(d[n]) < PipeCap, NEW e, e[n] = Append(d[n], t),
           \A m \in Number : m # n => e[m] = d[m], NEW u \in Task
    PROVE  Cardinality(Places(e, u)) = Cardinality(Places(d, u)) + (IF u = t THEN 1 ELSE 0)
<1> DEFINE new == <<n, Len(d[n]) + 1>>
<1>1. d[n] \in Seq(Task) /\ Len(d[n]) \in Nat
    BY LenProperties
<1>2. /\ Len(e[n]) = Len(d[n]) + 1 /\ e[n][Len(d[n]) + 1] = t
      /\ \A i \in 1..Len(d[n]) : e[n][i] = d[n][i]
      /\ \A m \in Number : m # n => e[m] = d[m]
    BY <1>1, AppendProperties
<1>3. new \in Number \X (1..PipeCap) /\ new \notin Places(d, u)
    BY <1>1, BoundsType DEF Places
<1>4. ASSUME NEW m \in Number, NEW i \in 1..PipeCap, <<m, i>> # new
      PROVE  (i <= Len(e[m]) /\ e[m][i] = u) <=> (i <= Len(d[m]) /\ d[m][i] = u)
    <2>1. CASE m # n
        BY <1>2, <2>1
    <2>2. CASE m = n
        <3>1. i # Len(d[n]) + 1
            BY <1>4, <2>2
        <3>2. i <= Len(e[n]) <=> i <= Len(d[n])
            BY <1>1, <1>2, <3>1, BoundsType
        <3>3. i <= Len(d[n]) => e[n][i] = d[n][i]
            BY <1>1, <1>2, BoundsType
        <3> QED  BY <2>2, <3>2, <3>3
    <2> QED  BY <2>1, <2>2
<1>5. Places(e, u) = IF u = t THEN Places(d, u) \cup {new} ELSE Places(d, u)
    <2>1. ASSUME NEW p \in Number \X (1..PipeCap), p # new
          PROVE  p \in Places(e, u) <=> p \in Places(d, u)
        BY <1>4, <2>1 DEF Places
    <2>2. new \in Places(e, u) <=> u = t
        BY <1>1, <1>2, <1>3 DEF Places
    <2>3. /\ Places(e, u) \subseteq Number \X (1..PipeCap)
          /\ Places(d, u) \subseteq Number \X (1..PipeCap)
        BY DEF Places
    <2> HIDE DEF new
    <2>4. \A p : p \in Places(e, u) => p \in Places(d, u) \/ (p = new /\ u = t)
        BY <2>1, <2>2, <2>3
    <2>5. \A p : p \in Places(d, u) => p \in Places(e, u)
        BY <1>3, <2>1, <2>3
    <2>6. CASE u = t
        BY <2>2, <2>4, <2>5, <2>6
    <2>7. CASE u # t
        BY <2>4, <2>5, <2>7
    <2> QED  BY <2>6, <2>7
<1>6. /\ IsFiniteSet(Places(d, u)) /\ Cardinality(Places(d, u)) \in Nat
      /\ Cardinality(Places(d, u) \cup {new}) = Cardinality(Places(d, u)) + 1
    <2> HIDE DEF new
    <2> QED  BY <1>3, PlacesFinite, FS_AddElement
<1> QED  BY <1>5, <1>6

\* One that is read leaves it, and the others move up.
LEMMA PlacesOfTail ==
    ASSUME NEW d \in [Number -> Seq(Task)], NEW n \in Number, d[n] # <<>>,
           Len(d[n]) <= PipeCap, NEW u \in Task
    PROVE  Cardinality(Places([d EXCEPT ![n] = Tail(@)], u))
               <= Cardinality(Places(d, u)) - (IF u = Head(d[n]) THEN 1 ELSE 0)
<1> DEFINE e == [d EXCEPT ![n] = Tail(@)]
           S == Places(e, u)
           T == IF u = Head(d[n]) THEN Places(d, u) \ {<<n, 1>>} ELSE Places(d, u)
           f == [p \in S |-> IF p[1] = n THEN <<n, p[2] + 1>> ELSE p]
<1>1. d[n] \in Seq(Task) /\ Len(d[n]) \in Nat \ {0} /\ Head(d[n]) = d[n][1]
    BY EmptySeq
<1>2. /\ Len(e[n]) = Len(d[n]) - 1
      /\ \A i \in 1..Len(d[n]) - 1 : e[n][i] = d[n][i + 1]
      /\ \A m \in Number : m # n => e[m] = d[m]
    BY <1>1, HeadTailProperties
<1> HIDE DEF e
<1>3. ASSUME NEW p \in S
      PROVE  f[p] \in T
    <2>1. /\ p \in Number \X (1..PipeCap) /\ p[1] \in Number /\ p[2] \in 1..PipeCap
          /\ p[2] <= Len(e[p[1]]) /\ e[p[1]][p[2]] = u /\ p = <<p[1], p[2]>>
        BY <1>3 DEF Places
    <2>2. CASE p[1] = n
        <3>1. p[2] \in 1..Len(d[n]) - 1 /\ p[2] + 1 \in 1..PipeCap /\ p[2] + 1 <= Len(d[n])
            BY <1>1, <1>2, <2>1, <2>2, BoundsType
        <3>2. d[n][p[2] + 1] = u
            BY <1>2, <2>1, <2>2, <3>1
        <3>3. <<n, p[2] + 1>> \in Places(d, u) /\ <<n, p[2] + 1>> # <<n, 1>>
            BY <3>1, <3>2 DEF Places
        <3> QED  BY <2>2, <3>3
    <2>3. CASE p[1] # n
        <3>1. p \in Places(d, u)
            BY <1>2, <2>1, <2>3 DEF Places
        <3>2. p # <<n, 1>>
            BY <2>1, <2>3
        <3> QED  BY <2>3, <3>1, <3>2
    <2> QED  BY <2>2, <2>3
<1>4. ASSUME NEW p \in S, NEW r \in S, f[p] = f[r]
      PROVE  p = r
    <2>1. /\ p[1] \in Number /\ p[2] \in Nat /\ p = <<p[1], p[2]>>
          /\ r[1] \in Number /\ r[2] \in Nat /\ r = <<r[1], r[2]>>
        BY <1>4, BoundsType DEF Places
    <2> QED  BY <1>4, <2>1
<1>5. f \in Injection(S, T)
    <2>1. f \in [S -> T]
        BY <1>3
    <2>2. \A p, r \in S : f[p] = f[r] => p = r
        BY <1>4
    <2> HIDE DEF f, S, T
    <2> QED  BY <2>1, <2>2 DEF Injection, IsInjective
<1>6. IsFiniteSet(T) /\ Cardinality(T) = Cardinality(Places(d, u)) - (IF u = Head(d[n]) THEN 1 ELSE 0)
    <2>1. u = Head(d[n]) => <<n, 1>> \in Places(d, u)
        BY <1>1, BoundsType DEF Places
    <2>2. IsFiniteSet(Places(d, u))
        BY PlacesFinite
    <2>3. /\ IsFiniteSet(Places(d, u) \ {<<n, 1>>})
          /\ Cardinality(Places(d, u) \ {<<n, 1>>}) =
                IF <<n, 1>> \in Places(d, u) THEN Cardinality(Places(d, u)) - 1
                ELSE Cardinality(Places(d, u))
        BY <2>2, FS_RemoveElement
    <2>4. CASE u = Head(d[n])
        BY <2>1, <2>3, <2>4
    <2>5. CASE u # Head(d[n])
        BY <2>2, <2>5, PlacesFinite
    <2> QED  BY <2>4, <2>5
<1>7. Cardinality(S) <= Cardinality(T)
    <2> HIDE DEF f, S, T
    <2> QED  BY <1>5, <1>6, FS_Injection
<1> QED  BY <1>6, <1>7 DEF e

LEMMA InitKept == Init => KInv
<1> SUFFICES ASSUME Init
             PROVE  KInv
    OBVIOUS
<1>1. Types
    BY InitHome DEF HInv
<1>2. <<>> \in Seq(Task) /\ Len(<<>>) = 0 /\ Range(<<>>) = {}
    BY EmptyFacts
<1>3. TypeOK
    BY <1>1 DEF Init, Types, TypeOK
<1>4. Held
    BY <1>2, BoundsType, NamesAreNotMarks DEF Init, Held
<1>5. \A t \in Task : Places(data, t) = {}
    BY <1>2 DEF Init, Places
<1>6. CountsKept
    <2>1. \A t \in Task : Failing(waking, call, fault, t) = {}
        BY DEF Init, Failing
    <2>2. \A t \in Task : weak[t] = 0 /\ waker[t] = {}
        BY DEF Init
    <2>3. Cardinality({}) = 0
        BY FS_EmptySet
    <2> QED  BY <1>5, <2>1, <2>2, <2>3 DEF CountsKept
<1> QED  BY <1>3, <1>4, <1>6 DEF KInv

LEMMA HeldTypes ==
    ASSUME TypeOK, NEW h \in Thread, Step(h)
    PROVE  /\ handle' \subseteq Task /\ owed' \subseteq Task
           /\ call' \in [Thread -> {"none", "clone", "wake", "sent"}]
           /\ freed' \in [Task -> Thread \cup {None}]
           /\ fault' \in [Thread -> {None, "EPIPE", "EAGAIN"}] /\ reused' \in BOOLEAN
<1> USE NamesAreNotMarks DEF TypeOK
<1>1. /\ handle \subseteq Task /\ owed \subseteq Task
      /\ call \in [Thread -> {"none", "clone", "wake", "sent"}]
      /\ freed \in [Task -> Thread \cup {None}]
      /\ fault \in [Thread -> {None, "EPIPE", "EAGAIN"}] /\ reused \in BOOLEAN
      /\ waking \in [Thread -> Task \cup {None}]
    OBVIOUS
<1> USE DEF refs, history, exec
<1>6. Release(h) => freed' \in [Task -> Thread \cup {None}]
    BY <1>1 DEF Release
<1> HIDE DEF TypeOK
<1>2. ASSUME NEW t \in Task,
             \/ Spawn(h, t) \/ StartPoll(h, t) \/ DropHandle(h, t) \/ DropWaker(h, t)
             \/ WakeUpgrade(h, t) \/ CloneUpgrade(h, t)
             \/ \E ready \in BOOLEAN : EndPoll(h, t, ready)
      PROVE  /\ handle' \subseteq Task /\ owed' \subseteq Task
             /\ call' \in [Thread -> {"none", "clone", "wake", "sent"}]
             /\ freed' \in [Task -> Thread \cup {None}] /\ fault' = fault /\ reused' = reused
    BY <1>1, <1>2, <1>6
       DEF Spawn, StartPoll, DropHandle, DropWaker, WakeUpgrade, CloneUpgrade, EndPoll
<1>3. CASE WakeHere(h) \/ WakeWrite(h) \/ WakeFails(h)
    BY <1>1, <1>3 DEF WakeHere, WakeWrite, WakeFails, Waking
<1>4. CASE \/ \E byVal \in BOOLEAN : WakeDone(h, byVal)
           \/ \E g \in Thread : CloneDone(h, g)
           \/ ReadPipe(h) \/ CloseReader(h) \/ CloseWriter(h)
    BY <1>1, <1>4, <1>6 DEF WakeDone, CloneDone, ReadPipe, CloseReader, CloseWriter
<1>5. CASE ThreadExit(h) \/ \E n \in Number : Stop(h, n)
    BY <1>1, <1>5, <1>6 DEF ThreadExit, Stop, DropQueues
<1> QED  BY <1>1, <1>2, <1>3, <1>4, <1>5 DEF Step

\* Which pointers and wakers there are, and who holds them.
LEMMA HeldStep ==
    ASSUME KInv, NEW h \in Thread, Step(h)
    PROVE  Held'
<1> USE NamesAreNotMarks
<1>1. TypeOK /\ Held /\ Types
    BY DEF KInv, TypeOK, Types
<1>2. /\ data \in [Number -> Seq(Task)] /\ \A n \in Number : Range(data[n]) \subseteq Task
      /\ \A n \in Number : Len(data[n]) \in Nat
    <2>1. data \in [Number -> Seq(Task)]
        BY <1>1 DEF TypeOK
    <2> QED  BY <2>1, RangeIndex, LenProperties
<1>15. /\ waking \in [Thread -> Task \cup {None}] /\ waker \in [Task -> SUBSET Thread]
       /\ call \in [Thread -> {"none", "clone", "wake", "sent"}]
       /\ fault \in [Thread -> {None, "EPIPE", "EAGAIN"}]
    BY <1>1 DEF TypeOK
<1>3. ASSUME NEW t \in Task,
             \/ StartPoll(h, t) \/ DropHandle(h, t)
             \/ WakeUpgrade(h, t) \/ CloneUpgrade(h, t)
             \/ \E ready \in BOOLEAN : EndPoll(h, t, ready)
      PROVE  Held'
    <2>1. wr' = wr /\ data' = data /\ waker' = waker /\ fault' = fault
        BY <1>3 DEF StartPoll, DropHandle, WakeUpgrade, CloneUpgrade, EndPoll, exec, refs
    <2>2. UNCHANGED st \/ (st[t] \in Queued /\ \E v : st' = [st EXCEPT ![t] = v])
        BY <1>3 DEF StartPoll, DropHandle, WakeUpgrade, CloneUpgrade, EndPoll, Queued
    <2>3. \A u \in Task : st[u] = "new" => st'[u] = "new"
        BY <1>1, <2>2 DEF TypeOK, Queued
    <2>4. CASE waking' = waking /\ call' = call
        BY <1>1, <2>1, <2>3, <2>4 DEF Held
    <2>5. CASE WakeUpgrade(h, t) \/ CloneUpgrade(h, t)
        <3>1. /\ fault[h] = None
              /\ h \in waker[t] \/ st[t] \in Queued
              /\ waking' = [waking EXCEPT ![h] = t]
              /\ \/ call' = [call EXCEPT ![h] = "wake"] /\ h \in waker[t]
                 \/ call' = [call EXCEPT ![h] = "clone"]
            BY <2>5 DEF WakeUpgrade, CloneUpgrade, Idle, Queued
        <3>2. wr[t] # 0
            BY <1>1, <3>1 DEF Held, Queued
        <3>3. /\ waking'[h] = t
              /\ call'[h] = "clone" \/ h \in waker[t]
              /\ \A g \in Thread : g # h => waking'[g] = waking[g] /\ call'[g] = call[g]
            BY <1>15, <3>1
        <3>4. \A k \in Thread : call'[k] \in {"wake", "sent"} =>
                  waking'[k] # None /\ k \in waker'[waking'[k]]
            BY <1>1, <2>1, <3>3 DEF Held
        <3>5. \A k \in Thread : call'[k] \in {"wake", "clone"} => fault'[k] = None
            BY <1>1, <2>1, <3>1, <3>3 DEF Held
        <3>6. \A k \in Thread : waking'[k] # None => wr'[waking'[k]] # 0
            BY <1>1, <2>1, <3>2, <3>3 DEF Held
        <3> QED  BY <1>1, <2>1, <2>3, <3>4, <3>5, <3>6 DEF Held
    <2>6. WakeUpgrade(h, t) \/ CloneUpgrade(h, t) \/ (waking' = waking /\ call' = call)
        BY <1>3 DEF StartPoll, DropHandle, EndPoll
    <2> QED  BY <2>4, <2>5, <2>6
<1>4. ASSUME NEW t \in Task, Spawn(h, t)
      PROVE  Held'
    <2>1. /\ no[h] # 0 /\ wr' = [wr EXCEPT ![t] = no[h]] /\ Enqueue(h, t)
          /\ data' = data /\ waker' = waker /\ waking' = waking /\ call' = call /\ fault' = fault
        BY <1>4 DEF Spawn, Idle, InCode, exec
    <2>2. \A u \in Task : wr'[u] = IF u = t THEN no[h] ELSE wr[u]
        BY <1>1, <2>1 DEF TypeOK
    <2>3. \A u \in Task : u # t => st'[u] = st[u]
        BY <1>1, <2>1, EnqueueHome
    <2>4. \A u \in Task : wr[u] # 0 => wr'[u] # 0
        BY <2>1, <2>2
    <2>5. \A n \in Number : Len(data'[n]) <= PipeCap /\ \A u \in Range(data'[n]) : wr'[u] # 0
        BY <1>1, <1>2, <2>1, <2>4 DEF Held
    <2>6. \A u \in Task : wr'[u] = 0 => st'[u] = "new" /\ waker'[u] = {}
        BY <1>1, <2>1, <2>2, <2>3 DEF Held
    <2>7. \A k \in Thread : waking'[k] # None => wr'[waking'[k]] # 0
        BY <1>1, <1>15, <2>1, <2>4 DEF Held
    <2> QED  BY <1>1, <2>1, <2>5, <2>6, <2>7 DEF Held
<1>5. ASSUME NEW g \in Thread, CloneDone(h, g)
      PROVE  Held'
    <2>1. /\ waking[h] \in Task /\ wr' = wr /\ data' = data /\ st' = st /\ fault' = fault
          /\ waker' = [waker EXCEPT ![waking[h]] = @ \cup {g}]
          /\ waking' = [waking EXCEPT ![h] = None] /\ call' = [call EXCEPT ![h] = "none"]
        BY <1>5, <1>15 DEF CloneDone, exec
    <2>2. /\ \A u \in Task : waker[u] \subseteq waker'[u]
          /\ \A u \in Task : u # waking[h] => waker'[u] = waker[u]
        BY <1>15, <2>1
    <2>3. /\ waking'[h] = None /\ call'[h] = "none"
          /\ \A k \in Thread : k # h => waking'[k] = waking[k] /\ call'[k] = call[k]
        BY <1>15, <2>1
    <2>4. wr[waking[h]] # 0
        BY <1>1, <2>1 DEF Held
    <2>5. /\ \A k \in Thread : waking'[k] # None => wr'[waking'[k]] # 0
          /\ \A k \in Thread : call'[k] \in {"wake", "clone"} => fault'[k] = None
        BY <1>1, <2>1, <2>3 DEF Held
    <2>6. ASSUME NEW k \in Thread, call'[k] \in {"wake", "sent"}
          PROVE  waking'[k] # None /\ k \in waker'[waking'[k]]
        <3>1. k # h /\ waking'[k] = waking[k] /\ call[k] \in {"wake", "sent"}
            BY <2>3, <2>6
        <3>2. waking[k] \in Task /\ k \in waker[waking[k]]
            BY <1>1, <1>15, <3>1 DEF Held
        <3> QED  BY <2>2, <3>1, <3>2
    <2> QED  BY <1>1, <2>1, <2>2, <2>4, <2>5, <2>6 DEF Held
<1>6. ASSUME wr' = wr, data' = data, st' = st, fault' = fault,
             waking'[h] = None, call'[h] = "none",
             \A g \in Thread : g # h => waking'[g] = waking[g] /\ call'[g] = call[g],
             \A u \in Task : waker'[u] \subseteq waker[u] /\ waker[u] \ {h} \subseteq waker'[u]
      PROVE  Held'
    <2>1. \A u \in Task : wr'[u] = 0 => st'[u] = "new" /\ waker'[u] = {}
        BY <1>1, <1>6 DEF Held
    <2>2. /\ \A k \in Thread : waking'[k] # None => wr'[waking'[k]] # 0
          /\ \A k \in Thread : call'[k] \in {"wake", "clone"} => fault'[k] = None
        BY <1>1, <1>6 DEF Held
    <2>3. ASSUME NEW k \in Thread, call'[k] \in {"wake", "sent"}
          PROVE  waking'[k] # None /\ k \in waker'[waking'[k]]
        <3>1. k # h /\ waking'[k] = waking[k] /\ call[k] \in {"wake", "sent"}
            BY <1>6, <2>3
        <3>2. waking[k] \in Task /\ k \in waker[waking[k]]
            BY <1>1, <1>15, <3>1 DEF Held
        <3> QED  BY <1>6, <3>1, <3>2
    <2> QED  BY <1>1, <1>6, <2>1, <2>2, <2>3 DEF Held
<1>7. ASSUME NEW t \in Task, DropWaker(h, t)
      PROVE  Held'
    <2>1. /\ call[h] = "none" /\ wr' = wr /\ data' = data /\ st' = st /\ fault' = fault
          /\ waking' = waking /\ call' = call
          /\ waker' = [waker EXCEPT ![t] = @ \ {h}]
        BY <1>7 DEF DropWaker, InCode, exec
    <2>2. \A u \in Task : waker'[u] \subseteq waker[u] /\ waker[u] \ {h} \subseteq waker'[u]
        BY <1>15, <2>1
    <2>3. ASSUME NEW k \in Thread, call[k] \in {"wake", "sent"}
          PROVE  waking[k] # None /\ k \in waker'[waking[k]]
        <3>1. k # h /\ waking[k] \in Task /\ k \in waker[waking[k]]
            BY <1>1, <1>15, <2>1, <2>3 DEF Held
        <3> QED  BY <2>2, <3>1
    <2>4. \A u \in Task : wr[u] = 0 => st[u] = "new" /\ waker'[u] = {}
        BY <1>1, <2>2 DEF Held
    <2> QED  BY <1>1, <2>1, <2>3, <2>4 DEF Held
<1>8. ASSUME NEW byVal \in BOOLEAN, WakeDone(h, byVal)
      PROVE  Held'
    <2>1. /\ waking[h] \in Task /\ wr' = wr /\ data' = data /\ st' = st /\ fault' = fault
          /\ waking' = [waking EXCEPT ![h] = None] /\ call' = [call EXCEPT ![h] = "none"]
          /\ waker' = [waker EXCEPT ![waking[h]] = IF byVal THEN @ \ {h} ELSE @]
        BY <1>8, <1>15 DEF WakeDone, exec
    <2>2. \A u \in Task : waker'[u] \subseteq waker[u] /\ waker[u] \ {h} \subseteq waker'[u]
        BY <1>15, <2>1
    <2>3. /\ waking'[h] = None /\ call'[h] = "none"
          /\ \A k \in Thread : k # h => waking'[k] = waking[k] /\ call'[k] = call[k]
        BY <1>15, <2>1
    <2> QED  BY <1>6, <2>1, <2>2, <2>3
<1>16. ASSUME fault[h] = None \/ call'[h] = "sent", call[h] = "wake",
              call' = [call EXCEPT ![h] = "sent"], waking' = waking, waker' = waker,
              \A g \in Thread : g # h => fault'[g] = fault[g]
       PROVE  /\ \A k \in Thread : call'[k] \in {"wake", "sent"} =>
                     waking'[k] # None /\ k \in waker'[waking'[k]]
              /\ \A k \in Thread : call'[k] \in {"wake", "clone"} => fault'[k] = None
    <2>1. call'[h] = "sent" /\ \A k \in Thread : k # h => call'[k] = call[k]
        BY <1>15, <1>16
    <2> QED  BY <1>1, <1>16, <2>1 DEF Held
<1>9. CASE WakeHere(h)
    <2>1. /\ waking[h] \in Task /\ Enqueue(h, waking[h]) /\ UNCHANGED <<wr, data, waker, waking>>
          /\ call[h] = "wake" /\ call' = [call EXCEPT ![h] = "sent"] /\ fault' = fault
        BY <1>1, <1>9 DEF WakeHere, Waking, TypeOK, exec, refs
    <2>2. wr[waking[h]] # 0
        BY <1>1, <2>1 DEF Held
    <2>3. \A u \in Task : wr[u] = 0 => st'[u] = st[u]
        BY <1>1, <2>1, <2>2, EnqueueHome
    <2>4. /\ \A k \in Thread : call'[k] \in {"wake", "sent"} =>
                 waking'[k] # None /\ k \in waker'[waking'[k]]
          /\ \A k \in Thread : call'[k] \in {"wake", "clone"} => fault'[k] = None
        BY <1>15, <1>16, <2>1
    <2> QED  BY <1>1, <2>1, <2>3, <2>4 DEF Held
<1>10. CASE WakeWrite(h)
    <2> DEFINE t == waking[h]
    <2>1. /\ t \in Task /\ data' = [data EXCEPT ![wr[t]] = Append(@, t)]
          /\ Len(data[wr[t]]) < PipeCap /\ UNCHANGED <<wr, st, waker, waking>>
          /\ call[h] = "wake" /\ call' = [call EXCEPT ![h] = "sent"] /\ fault' = fault
        BY <1>1, <1>10 DEF WakeWrite, Waking, TypeOK
    <2>2. wr[t] # 0 /\ wr[t] \in Number
        BY <1>1, <2>1, BoundsType DEF Held, TypeOK, Number
    <2>3. \A n \in Number : data'[n] = IF n = wr[t] THEN Append(data[n], t) ELSE data[n]
        BY <1>2, <2>1
    <2> HIDE DEF t
    <2>4. \A n \in Number : /\ Len(Append(data[n], t)) = Len(data[n]) + 1
                            /\ Range(Append(data[n], t)) = Range(data[n]) \cup {t}
        BY <1>2, <2>1, AppendFacts, AppendProperties
    <2>5. Len(data[wr[t]]) + 1 <= PipeCap
        BY <1>2, <2>1, <2>2, BoundsType
    <2>7. \A n \in Number : Len(data[n]) <= PipeCap /\ \A u \in Range(data[n]) : wr[u] # 0
        BY <1>1 DEF Held
    <2>8. \A n \in Number : Len(data'[n]) <= PipeCap
        BY <2>3, <2>4, <2>5, <2>7
    <2>9. \A n \in Number : \A u \in Range(data'[n]) : wr[u] # 0
        BY <2>2, <2>3, <2>4, <2>7
    <2>6. \A n \in Number : Len(data'[n]) <= PipeCap /\ \A u \in Range(data'[n]) : wr[u] # 0
        BY <2>8, <2>9
    <2>10. /\ \A k \in Thread : call'[k] \in {"wake", "sent"} =>
                  waking'[k] # None /\ k \in waker'[waking'[k]]
           /\ \A k \in Thread : call'[k] \in {"wake", "clone"} => fault'[k] = None
        BY <1>15, <1>16, <2>1
    <2> QED  BY <1>1, <2>1, <2>6, <2>10 DEF Held
<1>11. CASE WakeFails(h)
    <2>1. /\ wr' = wr /\ data' = data /\ st' = st /\ waker' = waker /\ waking' = waking
          /\ call[h] = "wake" /\ call' = [call EXCEPT ![h] = "sent"]
          /\ \E v : fault' = [fault EXCEPT ![h] = v]
        BY <1>11 DEF WakeFails, Waking, exec
    <2>2. call'[h] = "sent" /\ \A g \in Thread : g # h => fault'[g] = fault[g]
        BY <1>15, <2>1
    <2>3. /\ \A k \in Thread : call'[k] \in {"wake", "sent"} =>
                 waking'[k] # None /\ k \in waker'[waking'[k]]
          /\ \A k \in Thread : call'[k] \in {"wake", "clone"} => fault'[k] = None
        BY <1>16, <2>1, <2>2
    <2> QED  BY <1>1, <2>1, <2>3 DEF Held
<1>17. CASE CloseWriter(h)
    <2>1. UNCHANGED <<wr, data, st, waker, waking, call, fault>>
        BY <1>17 DEF CloseWriter, refs
    <2> QED  BY <1>1, <2>1 DEF Held
<1>12. CASE ReadPipe(h)
    <2> DEFINE t == Head(data[no[h]])
    <2>1. /\ no[h] # 0 /\ data[no[h]] # <<>> /\ data' = [data EXCEPT ![no[h]] = Tail(@)]
          /\ Enqueue(h, t) \/ UNCHANGED st
          /\ UNCHANGED <<wr, waker, waking, call, fault>>
        BY <1>12 DEF ReadPipe, Idle, InCode
    <2>2. no[h] \in Number
        BY <1>1, <2>1, BoundsType DEF TypeOK, Number
    <2>3. /\ t \in Task /\ t \in Range(data[no[h]])
          /\ Range(Tail(data[no[h]])) \subseteq Range(data[no[h]])
          /\ Len(Tail(data[no[h]])) = Len(data[no[h]]) - 1
        BY <1>2, <2>1, <2>2, TailFacts, HeadTailProperties
    <2>4. \A n \in Number : data'[n] = IF n = no[h] THEN Tail(data[n]) ELSE data[n]
        BY <1>2, <2>1
    <2> HIDE DEF t
    <2>5. wr[t] # 0
        BY <1>1, <2>2, <2>3 DEF Held
    <2>6. \A u \in Task : wr[u] = 0 => st'[u] = st[u]
        BY <1>1, <2>1, <2>3, <2>5, EnqueueHome
    <2>7. Len(data[no[h]]) - 1 <= PipeCap
        BY <1>1, <1>2, <2>2, BoundsType DEF Held
    <2>10. \A n \in Number : Len(data'[n]) <= PipeCap
        BY <1>1, <2>3, <2>4, <2>7 DEF Held
    <2>11. \A n \in Number : Range(data'[n]) \subseteq Range(data[n])
        BY <2>3, <2>4
    <2>9. \A n \in Number : \A u \in Range(data'[n]) : wr[u] # 0
        BY <1>1, <2>11 DEF Held
    <2>8. \A n \in Number : Len(data'[n]) <= PipeCap /\ \A u \in Range(data'[n]) : wr[u] # 0
        BY <2>9, <2>10
    <2> QED  BY <1>1, <2>1, <2>6, <2>8 DEF Held
<1>13. CASE CloseReader(h)
    <2>1. /\ data' = [data EXCEPT ![old[h]] = <<>>]
          /\ UNCHANGED <<wr, st, waker, waking, call, fault>>
        BY <1>13 DEF CloseReader, refs
    <2>2. Len(<<>>) = 0 /\ Range(<<>>) = {}
        BY EmptyFacts
    <2>3. \A n \in Number : data'[n] = data[n] \/ data'[n] = <<>>
        BY <1>2, <2>1
    <2> QED  BY <1>1, <2>1, <2>2, <2>3, BoundsType DEF Held
<1>14. CASE ThreadExit(h) \/ \E n \in Number : Stop(h, n)
    <2>1. /\ st' = [t \in Task |-> IF at[t] = h /\ st[t] \in Queued THEN "out" ELSE st[t]]
          /\ UNCHANGED <<data, wr, waker, waking, call, fault>>
        BY <1>14 DEF ThreadExit, Stop, DropQueues, refs
    <2>2. \A u \in Task : st[u] = "new" => st'[u] = "new"
        BY <2>1 DEF Queued
    <2> QED  BY <1>1, <2>1, <2>2 DEF Held
<1> QED
    BY <1>3, <1>4, <1>5, <1>7, <1>8, <1>9, <1>10, <1>11, <1>12, <1>13, <1>14, <1>17 DEF Step

\* Each pointer that comes or goes brings or takes a count.
LEMMA CountStep ==
    ASSUME KInv, NEW h \in Thread, Step(h), waker' \in [Task -> SUBSET Thread]
    PROVE  weak' \in [Task -> Nat] /\ CountsKept'
<1> USE NamesAreNotMarks
<1> DEFINE W == [u \in Task |-> Cardinality(waker[u])]
           P == [u \in Task |-> Cardinality(Places(data, u))]
           Wn == [u \in Task |-> Cardinality(waker'[u])]
           Pn == [u \in Task |-> Cardinality(Places(data', u))]
           L == [u \in Task |-> Cardinality(Failing(waking, call, fault, u))]
           Ln == [u \in Task |-> Cardinality(Failing(waking', call', fault', u))]
           weakn == weak'
           Good == /\ weakn \in [Task -> Nat]
                   /\ \A u \in Task : weakn[u] >= Wn[u] + Pn[u] + Ln[u]
<1>1. TypeOK /\ Held
    BY DEF KInv
<1>2. /\ weak \in [Task -> Nat] /\ waker \in [Task -> SUBSET Thread]
      /\ data \in [Number -> Seq(Task)] /\ waking \in [Thread -> Task \cup {None}]
      /\ call \in [Thread -> {"none", "clone", "wake", "sent"}]
      /\ fault \in [Thread -> {None, "EPIPE", "EAGAIN"}]
    BY <1>1 DEF TypeOK
<1>0. \A w, k, f, u : Failing(w, k, f, u) \in SUBSET Thread
    BY DEF Failing
<1>3. /\ W \in [Task -> Nat] /\ P \in [Task -> Nat] /\ L \in [Task -> Nat]
      /\ Wn \in [Task -> Nat] /\ Pn \in [Task -> Nat] /\ Ln \in [Task -> Nat]
    <2>1. W \in [Task -> Nat]
        BY <1>2, WakersFinite
    <2>2. Wn \in [Task -> Nat]
        BY WakersFinite
    <2>3. L \in [Task -> Nat] /\ Ln \in [Task -> Nat]
        BY <1>0, WakersFinite
    <2> QED  BY <2>1, <2>2, <2>3, PlacesFinite
<1>4. \A u \in Task : weak[u] >= W[u] + P[u] + L[u]
    BY DEF KInv, CountsKept
<1>5. ASSUME weakn = weak, \A u \in Task : Wn[u] <= W[u] /\ Pn[u] <= P[u] /\ Ln[u] <= L[u]
      PROVE  Good
    <2> HIDE DEF W, P, L, Wn, Pn, Ln, weakn
    <2> SUFFICES ASSUME NEW u \in Task
                 PROVE  weak[u] >= Wn[u] + Pn[u] + Ln[u]
        BY <1>2, <1>5
    <2>1. /\ W[u] \in Nat /\ P[u] \in Nat /\ Wn[u] \in Nat /\ Pn[u] \in Nat
          /\ L[u] \in Nat /\ Ln[u] \in Nat /\ weak[u] \in Nat
        BY <1>2, <1>3
    <2> QED  BY <1>4, <1>5, <2>1
<1>6. ASSUME NEW t \in Task, weakn = [weak EXCEPT ![t] = @ + 1],
             \A u \in Task : Wn[u] + Pn[u] + Ln[u]
                                <= W[u] + P[u] + L[u] + (IF u = t THEN 1 ELSE 0)
      PROVE  Good
    <2> HIDE DEF W, P, L, Wn, Pn, Ln, weakn
    <2>1. \A u \in Task : weakn[u] = IF u = t THEN weak[u] + 1 ELSE weak[u]
        BY <1>2, <1>6
    <2> SUFFICES ASSUME NEW u \in Task
                 PROVE  weakn[u] >= Wn[u] + Pn[u] + Ln[u]
        BY <1>2, <1>6
    <2>2. /\ W[u] \in Nat /\ P[u] \in Nat /\ Wn[u] \in Nat /\ Pn[u] \in Nat
          /\ L[u] \in Nat /\ Ln[u] \in Nat /\ weak[u] \in Nat
        BY <1>2, <1>3
    <2> QED  BY <1>4, <1>6, <2>1, <2>2
<1>7. ASSUME NEW t \in Task, weakn = [weak EXCEPT ![t] = @ - 1],
             \A u \in Task : Wn[u] + Pn[u] + Ln[u]
                                <= W[u] + P[u] + L[u] - (IF u = t THEN 1 ELSE 0)
      PROVE  Good
    <2> HIDE DEF W, P, L, Wn, Pn, Ln, weakn
    <2>1. \A u \in Task : weakn[u] = IF u = t THEN weak[u] - 1 ELSE weak[u]
        BY <1>2, <1>7
    <2>2. \A u \in Task : weakn[u] \in Int /\ weakn[u] >= Wn[u] + Pn[u] + Ln[u]
        <3> SUFFICES ASSUME NEW u \in Task
                     PROVE  weakn[u] \in Int /\ weakn[u] >= Wn[u] + Pn[u] + Ln[u]
            OBVIOUS
        <3>1. /\ W[u] \in Nat /\ P[u] \in Nat /\ Wn[u] \in Nat /\ Pn[u] \in Nat
              /\ L[u] \in Nat /\ Ln[u] \in Nat /\ weak[u] \in Nat
            BY <1>2, <1>3
        <3> QED  BY <1>4, <1>7, <2>1, <3>1
    <2>3. \A u \in Task : weakn[u] \in Nat
        BY <1>3, <2>2
    <2>4. weakn \in [Task -> Nat]
        BY <1>2, <1>7, <2>1, <2>3
    <2> QED  BY <2>2, <2>4
<1>8. /\ data' = data => Pn = P
      /\ waker' = waker => Wn = W
      /\ waking' = waking /\ call' = call /\ fault' = fault => Ln = L
    OBVIOUS
<1>9. ASSUME NEW t \in Task, NEW g \in Thread, g \notin waker[t],
             waker' = [waker EXCEPT ![t] = @ \cup {g}]
      PROVE  \A u \in Task : Wn[u] = W[u] + (IF u = t THEN 1 ELSE 0)
    <2>1. \A u \in Task : waker'[u] = IF u = t THEN waker[t] \cup {g} ELSE waker[u]
        BY <1>2, <1>9
    <2>2. Cardinality(waker[t] \cup {g}) = Cardinality(waker[t]) + 1
        BY <1>2, <1>9, WakersFinite
    <2>3. \A u \in Task : W[u] \in Nat
        BY <1>3
    <2> SUFFICES ASSUME NEW u \in Task
                 PROVE  Wn[u] = W[u] + (IF u = t THEN 1 ELSE 0)
        OBVIOUS
    <2>4. CASE u = t
        BY <2>1, <2>2, <2>4
    <2>5. CASE u # t
        BY <2>1, <2>3, <2>5
    <2> QED  BY <2>4, <2>5
<1>10. ASSUME NEW t \in Task, h \in waker[t], waker' = [waker EXCEPT ![t] = @ \ {h}]
       PROVE  \A u \in Task : Wn[u] = W[u] - (IF u = t THEN 1 ELSE 0)
    <2>1. \A u \in Task : waker'[u] = IF u = t THEN waker[t] \ {h} ELSE waker[u]
        BY <1>2, <1>10
    <2>2. Cardinality(waker[t] \ {h}) = Cardinality(waker[t]) - 1
        BY <1>2, <1>10, WakersFinite
    <2>3. \A u \in Task : W[u] \in Nat
        BY <1>3
    <2> QED  BY <2>1, <2>2, <2>3
<1>11. Good => weak' \in [Task -> Nat] /\ CountsKept'
    BY DEF CountsKept
<1>23. ASSUME \A g \in Thread : g # h => /\ waking'[g] = waking[g] /\ call'[g] = call[g]
                                         /\ fault'[g] = fault[g],
              call'[h] # "sent" \/ fault'[h] = None
       PROVE  /\ \A u \in Task : Ln[u] <= L[u]
              /\ \A t \in Task : waking[h] = t /\ call[h] = "sent" /\ fault[h] # None =>
                                  Ln[t] < L[t]
    <2>1. \A u \in Task : Failing(waking', call', fault', u)
                            \subseteq Failing(waking, call, fault, u) \ {h}
        BY <1>23 DEF Failing
    <2>2. \A u \in Task : L[u] \in Nat /\ Ln[u] \in Nat
        BY <1>3
    <2>3. ASSUME NEW u \in Task
          PROVE  /\ Ln[u] <= L[u]
                 /\ h \in Failing(waking, call, fault, u) => Ln[u] <= L[u] - 1
        <3>1. IsFiniteSet(Failing(waking, call, fault, u))
            BY <1>0, WakersFinite
        <3>2. /\ Ln[u] <= Cardinality(Failing(waking, call, fault, u) \ {h})
              /\ IsFiniteSet(Failing(waking, call, fault, u) \ {h})
            BY <2>1, <3>1, FS_Subset, FS_RemoveElement
        <3>3. Cardinality(Failing(waking, call, fault, u) \ {h}) =
                  IF h \in Failing(waking, call, fault, u) THEN L[u] - 1 ELSE L[u]
            BY <3>1, FS_RemoveElement
        <3> HIDE DEF L, Ln
        <3> QED  BY <2>2, <3>2, <3>3
    <2>4. \A t \in Task : waking[h] = t /\ call[h] = "sent" /\ fault[h] # None =>
                            h \in Failing(waking, call, fault, t)
        BY DEF Failing
    <2> HIDE DEF L, Ln
    <2> QED  BY <2>2, <2>3, <2>4
<1>24. ASSUME NEW t \in Task, waking[h] = t, waking' = waking,
              \A g \in Thread : g # h => call'[g] = call[g] /\ fault'[g] = fault[g]
       PROVE  \A u \in Task : Ln[u] <= L[u] + (IF u = t THEN 1 ELSE 0)
    <2> SUFFICES ASSUME NEW u \in Task
                 PROVE  Ln[u] <= L[u] + (IF u = t THEN 1 ELSE 0)
        OBVIOUS
    <2>1. L[u] \in Nat /\ Ln[u] \in Nat
        BY <1>3
    <2>2. IsFiniteSet(Failing(waking, call, fault, u))
        BY <1>0, WakersFinite
    <2>3. CASE u = t
        <3>1. Failing(waking', call', fault', u) \subseteq Failing(waking, call, fault, u) \cup {h}
            BY <1>24 DEF Failing
        <3>2. /\ IsFiniteSet(Failing(waking, call, fault, u) \cup {h})
              /\ Cardinality(Failing(waking, call, fault, u) \cup {h}) <= L[u] + 1
            <4>1. Cardinality(Failing(waking, call, fault, u) \cup {h})
                      \in {Cardinality(Failing(waking, call, fault, u)),
                           Cardinality(Failing(waking, call, fault, u)) + 1}
                BY <2>2, FS_AddElement
            <4>2. L[u] = Cardinality(Failing(waking, call, fault, u))
                OBVIOUS
            <4>3. IsFiniteSet(Failing(waking, call, fault, u) \cup {h})
                BY <2>2, FS_AddElement
            <4> HIDE DEF L, Ln
            <4> QED  BY <2>1, <4>1, <4>2, <4>3
        <3>3. Ln[u] <= Cardinality(Failing(waking, call, fault, u) \cup {h})
              /\ Cardinality(Failing(waking, call, fault, u) \cup {h}) \in Nat
            BY <3>1, <3>2, FS_Subset, FS_CardinalityType
        <3> HIDE DEF L, Ln
        <3> QED  BY <2>1, <2>3, <3>2, <3>3
    <2>4. CASE u # t
        <3>1. Failing(waking', call', fault', u) \subseteq Failing(waking, call, fault, u)
            BY <1>24, <2>4 DEF Failing
        <3>2. Ln[u] <= L[u]
            BY <2>2, <3>1, FS_Subset
        <3> HIDE DEF L, Ln
        <3> QED  BY <2>1, <2>4, <3>2
    <2> QED  BY <2>3, <2>4
<1> HIDE DEF W, P, L, Wn, Pn, Ln, Good
<1> SUFFICES Good
    BY <1>11
<1>12. \A u \in Task : /\ W[u] \in Nat /\ P[u] \in Nat /\ L[u] \in Nat
                        /\ Wn[u] \in Nat /\ Pn[u] \in Nat /\ Ln[u] \in Nat
    BY <1>3
<1>13. ASSUME weak' = weak, waker' = waker, data' = data, \A u \in Task : Ln[u] <= L[u]
       PROVE  Good
    <2>1. \A u \in Task : Wn[u] <= W[u] /\ Pn[u] <= P[u]
        BY <1>8, <1>12, <1>13
    <2> QED  BY <1>5, <1>13, <2>1
<1>14. ASSUME NEW t \in Task,
              \/ Spawn(h, t) \/ StartPoll(h, t) \/ DropHandle(h, t)
              \/ WakeUpgrade(h, t) \/ CloneUpgrade(h, t)
              \/ \E ready \in BOOLEAN : EndPoll(h, t, ready)
       PROVE  Good
    <2>1. weak' = weak /\ waker' = waker /\ data' = data /\ fault' = fault
        BY <1>14 DEF Spawn, StartPoll, DropHandle, WakeUpgrade, CloneUpgrade, EndPoll, exec, refs
    <2>2. \/ waking' = waking /\ call' = call
          \/ /\ waking' = [waking EXCEPT ![h] = t]
             /\ \E v \in {"wake", "clone"} : call' = [call EXCEPT ![h] = v]
        BY <1>14 DEF Spawn, StartPoll, DropHandle, WakeUpgrade, CloneUpgrade, EndPoll
    <2>3. CASE waking' = waking /\ call' = call
        BY <1>8, <1>12, <1>13, <2>1, <2>3
    <2>4. ASSUME NEW v \in {"wake", "clone"}, waking' = [waking EXCEPT ![h] = t],
                 call' = [call EXCEPT ![h] = v]
          PROVE  Good
        <3>1. /\ call'[h] # "sent"
              /\ \A g \in Thread : g # h => waking'[g] = waking[g] /\ call'[g] = call[g]
            BY <1>2, <2>4
        <3> QED  BY <1>13, <1>23, <2>1, <3>1
    <2> QED  BY <2>2, <2>3, <2>4
<1>15. ASSUME NEW g \in Thread, CloneDone(h, g)
       PROVE  Good
    <2> DEFINE t == waking[h]
    <2>1. /\ t \in Task /\ data' = data /\ fault' = fault
          /\ waking' = [waking EXCEPT ![h] = None] /\ call' = [call EXCEPT ![h] = "none"]
          /\ waker' = [waker EXCEPT ![t] = @ \cup {g}]
          /\ weak' = [weak EXCEPT ![t] = IF g \in waker[t] THEN @ ELSE @ + 1]
        BY <1>2, <1>15 DEF CloneDone, exec
    <2>2. /\ call'[h] # "sent"
          /\ \A k \in Thread : k # h => waking'[k] = waking[k] /\ call'[k] = call[k]
        BY <1>2, <2>1
    <2>3. \A u \in Task : Ln[u] <= L[u]
        BY <1>23, <2>1, <2>2
    <2> HIDE DEF t
    <2>4. CASE g \in waker[t]
        <3>1. waker' = waker
            <4>1. waker[t] \cup {g} = waker[t]
                BY <2>4
            <4> QED  BY <1>2, <2>1, <4>1
        <3>2. weak' = weak
            BY <1>2, <2>1, <2>4
        <3> QED  BY <1>13, <2>1, <2>3, <3>1, <3>2
    <2>5. CASE g \notin waker[t]
        <3>1. weak' = [weak EXCEPT ![t] = @ + 1]
            BY <2>1, <2>5
        <3>2. Pn = P /\ \A u \in Task : Wn[u] = W[u] + (IF u = t THEN 1 ELSE 0)
            BY <1>8, <1>9, <2>1, <2>5
        <3>3. \A u \in Task : Wn[u] + Pn[u] + Ln[u]
                                   <= W[u] + P[u] + L[u] + (IF u = t THEN 1 ELSE 0)
            BY <1>12, <2>3, <3>2
        <3> QED  BY <1>6, <2>1, <3>1, <3>3
    <2> QED  BY <2>4, <2>5
<1>16. ASSUME NEW t \in Task, DropWaker(h, t)
       PROVE  Good
    <2>1. /\ h \in waker[t] /\ waker' = [waker EXCEPT ![t] = @ \ {h}]
          /\ weak' = [weak EXCEPT ![t] = @ - 1] /\ data' = data
          /\ waking' = waking /\ call' = call /\ fault' = fault
        BY <1>16 DEF DropWaker, exec
    <2>2. Pn = P /\ Ln = L /\ \A u \in Task : Wn[u] = W[u] - (IF u = t THEN 1 ELSE 0)
        BY <1>8, <1>10, <2>1
    <2>3. \A u \in Task : Wn[u] + Pn[u] + Ln[u]
                               <= W[u] + P[u] + L[u] - (IF u = t THEN 1 ELSE 0)
        BY <1>12, <2>2
    <2> QED  BY <1>7, <2>1, <2>3
<1>17. CASE CloseWriter(h) \/ ThreadExit(h) \/ \E n \in Number : Stop(h, n)
    <2>1. /\ weak' = weak /\ waker' = waker /\ data' = data
          /\ waking' = waking /\ call' = call /\ fault' = fault
        BY <1>17 DEF CloseWriter, ThreadExit, Stop, DropQueues, exec, refs
    <2> QED  BY <1>8, <1>12, <1>13, <2>1
<1>25. CASE WakeHere(h)
    <2>1. /\ weak' = weak /\ waker' = waker /\ data' = data /\ waking' = waking
          /\ call[h] = "wake" /\ call' = [call EXCEPT ![h] = "sent"] /\ fault' = fault
        BY <1>25 DEF WakeHere, Waking, exec, refs
    <2>2. /\ fault[h] = None
          /\ \A g \in Thread : g # h => call'[g] = call[g]
        BY <1>1, <1>2, <2>1 DEF Held
    <2> QED  BY <1>13, <1>23, <2>1, <2>2
<1>18. CASE WakeWrite(h)
    <2>0. waking[h] \in Task /\ wr[waking[h]] \in Number
        BY <1>1, <1>2, <1>18, BoundsType DEF WakeWrite, Waking, Held, TypeOK, Number
    <2>1. PICK t \in Task, n \in Number :
              /\ data' = [data EXCEPT ![n] = Append(@, t)] /\ Len(data[n]) < PipeCap
              /\ weak' = [weak EXCEPT ![t] = @ + 1] /\ waker' = waker
        BY <1>18, <2>0 DEF WakeWrite
    <2>2. /\ waking' = waking /\ fault' = fault /\ fault[h] = None
          /\ \A g \in Thread : g # h => call'[g] = call[g]
        BY <1>1, <1>2, <1>18 DEF WakeWrite, Waking, Held
    <2>3. Wn = W /\ \A u \in Task : Ln[u] <= L[u]
        BY <1>8, <1>23, <2>1, <2>2
    <2>4. \A u \in Task : Pn[u] = P[u] + (IF u = t THEN 1 ELSE 0)
        <3> SUFFICES ASSUME NEW u \in Task
                     PROVE  Cardinality(Places(data', u))
                                = Cardinality(Places(data, u)) + (IF u = t THEN 1 ELSE 0)
            BY DEF P, Pn
        <3>1. data \in [Number -> Seq(Task)] /\ Len(data[n]) < PipeCap
            BY <1>2, <2>1
        <3>2. data'[n] = Append(data[n], t) /\ \A m \in Number : m # n => data'[m] = data[m]
            BY <1>2, <2>1
        <3> QED  BY <3>1, <3>2, PlacesOfAppend
    <2>5. \A u \in Task : Wn[u] + Pn[u] + Ln[u]
                               <= W[u] + P[u] + L[u] + (IF u = t THEN 1 ELSE 0)
        BY <1>12, <2>3, <2>4
    <2> QED  BY <1>6, <2>1, <2>5
<1>19. CASE WakeFails(h)
    <2>1. /\ waking[h] \in Task /\ weak' = [weak EXCEPT ![waking[h]] = @ + 1]
          /\ waker' = waker /\ data' = data /\ waking' = waking
          /\ call' = [call EXCEPT ![h] = "sent"] /\ \E v : fault' = [fault EXCEPT ![h] = v]
        BY <1>2, <1>19 DEF WakeFails, Waking, exec
    <2>2. \A g \in Thread : g # h => call'[g] = call[g] /\ fault'[g] = fault[g]
        BY <1>2, <2>1
    <2>3. \A u \in Task : Ln[u] <= L[u] + (IF u = waking[h] THEN 1 ELSE 0)
        BY <1>24, <2>1, <2>2
    <2>4. \A u \in Task : Wn[u] + Pn[u] + Ln[u]
                               <= W[u] + P[u] + L[u] + (IF u = waking[h] THEN 1 ELSE 0)
        BY <1>8, <1>12, <2>1, <2>3
    <2> QED  BY <1>6, <2>1, <2>4
<1>20. ASSUME NEW byVal \in BOOLEAN, WakeDone(h, byVal)
       PROVE  Good
    <2> DEFINE t == waking[h]
    <2>1. /\ t \in Task /\ h \in waker[t] /\ data' = data /\ fault' = fault /\ call[h] = "sent"
          /\ waking' = [waking EXCEPT ![h] = None] /\ call' = [call EXCEPT ![h] = "none"]
        BY <1>1, <1>2, <1>20 DEF WakeDone, Held, exec
    <2>2. /\ waker' = [waker EXCEPT ![t] = IF byVal THEN @ \ {h} ELSE @]
          /\ weak' = [weak EXCEPT ![t] = IF byVal \/ fault[h] # None THEN @ - 1 ELSE @]
        BY <1>20 DEF WakeDone
    <2>3. /\ call'[h] # "sent"
          /\ \A k \in Thread : k # h => waking'[k] = waking[k] /\ call'[k] = call[k]
        BY <1>2, <2>1
    <2>4. /\ \A u \in Task : Ln[u] <= L[u]
          /\ fault[h] # None => Ln[t] < L[t]
        BY <1>23, <2>1, <2>3
    <2> HIDE DEF t
    <2>5. CASE byVal
        <3>1. waker' = [waker EXCEPT ![t] = @ \ {h}] /\ weak' = [weak EXCEPT ![t] = @ - 1]
            BY <2>2, <2>5
        <3>2. Pn = P /\ \A u \in Task : Wn[u] = W[u] - (IF u = t THEN 1 ELSE 0)
            BY <1>8, <1>10, <2>1, <3>1
        <3>3. \A u \in Task : Wn[u] + Pn[u] + Ln[u]
                                   <= W[u] + P[u] + L[u] - (IF u = t THEN 1 ELSE 0)
            BY <1>12, <2>4, <3>2
        <3> QED  BY <1>7, <2>1, <3>1, <3>3
    <2>6. CASE ~byVal
        <3>1. waker' = waker
            BY <1>2, <2>2, <2>6
        <3>2. CASE fault[h] # None
            <4>1. weak' = [weak EXCEPT ![t] = @ - 1]
                BY <2>2, <3>2
            <4>2. \A u \in Task : Wn[u] + Pn[u] + Ln[u]
                                       <= W[u] + P[u] + L[u] - (IF u = t THEN 1 ELSE 0)
                BY <1>8, <1>12, <2>1, <2>4, <3>1, <3>2
            <4> QED  BY <1>7, <2>1, <4>1, <4>2
        <3>3. CASE fault[h] = None
            <4>1. weak' = weak
                BY <1>2, <2>2, <2>6, <3>3
            <4> QED  BY <1>13, <2>1, <2>4, <3>1, <4>1
        <3> QED  BY <3>2, <3>3
    <2> QED  BY <2>5, <2>6
<1>21. CASE ReadPipe(h)
    <2> DEFINE n == no[h]
               t == Head(data[n])
    <2>1. /\ n # 0 /\ data[n] # <<>> /\ data' = [data EXCEPT ![n] = Tail(@)]
          /\ weak' = [weak EXCEPT ![t] = @ - 1] /\ waker' = waker
          /\ waking' = waking /\ call' = call /\ fault' = fault
        BY <1>21 DEF ReadPipe, Idle, InCode
    <2>2. n \in Number
        BY <1>1, <2>1, BoundsType DEF TypeOK, Number
    <2>3. Len(data[n]) <= PipeCap
        BY <1>1, <2>2 DEF Held
    <2>4. t \in Task
        BY <1>2, <2>1, <2>2, TailFacts
    <2> HIDE DEF n
    <2>5. \A u \in Task : Pn[u] <= P[u] - (IF u = t THEN 1 ELSE 0)
        <3> SUFFICES ASSUME NEW u \in Task
                     PROVE  Cardinality(Places(data', u))
                                <= Cardinality(Places(data, u)) - (IF u = t THEN 1 ELSE 0)
            BY DEF P, Pn
        <3>1. Cardinality(Places([data EXCEPT ![n] = Tail(@)], u))
                  <= Cardinality(Places(data, u)) - (IF u = t THEN 1 ELSE 0)
            BY <1>2, <2>1, <2>2, <2>3, PlacesOfTail
        <3> QED  BY <2>1, <3>1
    <2> HIDE DEF t
    <2>6. Wn = W /\ Ln = L
        BY <1>8, <2>1
    <2>7. \A u \in Task : Wn[u] + Pn[u] + Ln[u]
                               <= W[u] + P[u] + L[u] - (IF u = t THEN 1 ELSE 0)
        BY <1>12, <2>5, <2>6
    <2> QED  BY <1>7, <2>1, <2>4, <2>7
<1>22. CASE CloseReader(h)
    <2>1. /\ data' = [data EXCEPT ![old[h]] = <<>>] /\ weak' = weak /\ waker' = waker
          /\ waking' = waking /\ call' = call /\ fault' = fault
        BY <1>22 DEF CloseReader, refs
    <2>2. \A m \in Number : data'[m] = data[m] \/ data'[m] = <<>>
        BY <1>2, <2>1
    <2>3. Len(<<>>) = 0
        BY EmptyFacts
    <2>4. \A u \in Task : Places(data', u) \subseteq Places(data, u)
        BY <2>2, <2>3 DEF Places
    <2>5. \A u \in Task : Pn[u] <= P[u]
        BY <2>4, PlacesFinite, FS_Subset DEF P, Pn
    <2>6. \A u \in Task : Wn[u] <= W[u] /\ Ln[u] <= L[u]
        BY <1>8, <1>12, <2>1
    <2> QED  BY <1>5, <2>1, <2>5, <2>6
<1> QED
    BY <1>14, <1>15, <1>16, <1>17, <1>18, <1>19, <1>20, <1>21, <1>22, <1>25 DEF Step

LEMMA NextKept == HInv /\ HInv' /\ KInv /\ [Next]_vars => KInv'
<1> SUFFICES ASSUME HInv', KInv, [Next]_vars
             PROVE  KInv'
    OBVIOUS
<1>1. ASSUME NEW h \in Thread, Step(h)
      PROVE  KInv'
    <2>1. Types'
        BY DEF HInv
    <2>2. weak' \in [Task -> Nat] /\ CountsKept'
        BY <1>1, <2>1, CountStep DEF Types
    <2>3. TypeOK'
        BY <1>1, <2>1, <2>2, HeldTypes DEF KInv, Types, TypeOK
    <2> QED  BY <1>1, <2>2, <2>3, HeldStep DEF KInv
<1>2. CASE UNCHANGED vars
    <2>1. TypeOK' /\ Held'
        BY <1>2 DEF vars, exec, refs, history, KInv, TypeOK, Held
    <2>2. CountsKept'
        BY <1>2 DEF vars, exec, refs, KInv, CountsKept
    <2> QED  BY <2>1, <2>2 DEF KInv
<1> QED  BY <1>1, <1>2 DEF Next

(* The two invariants hold in every reachable state.                       *)
THEOREM WakeInvariant == Spec => [](HInv /\ KInv)
BY InitHome, NextHome, InitKept, NextKept, PTL DEF Spec

(* executor.rs:386 and 325: each waker and each pointer in a pipe has a    *)
(* count, so the allocation it refers to is kept, also with numbers that   *)
(* are given out again, writes that fail and the unwinding after them.     *)
THEOREM PointersAreKept == Spec => []PointersKept
<1>1. ASSUME KInv, NEW t \in Task
      PROVE  weak[t] >= Cardinality(waker[t]) + Cardinality(Pointers(t))
    <2>1. /\ weak[t] >= Cardinality(waker[t]) + Cardinality(Places(data, t))
                         + Cardinality(Failing(waking, call, fault, t))
          /\ weak[t] \in Nat /\ waker[t] \in SUBSET Thread
        BY <1>1 DEF KInv, CountsKept, TypeOK
    <2>2. Failing(waking, call, fault, t) \in SUBSET Thread
        BY DEF Failing
    <2>3. /\ Cardinality(waker[t]) \in Nat
          /\ Cardinality(Failing(waking, call, fault, t)) \in Nat
        BY <2>1, <2>2, WakersFinite
    <2>4. Cardinality(Pointers(t)) = Cardinality(Places(data, t))
          /\ Cardinality(Places(data, t)) \in Nat
        BY PlacesFinite DEF Pointers, Places
    <2> QED  BY <2>1, <2>3, <2>4
<1>2. KInv => PointersKept
    BY <1>1 DEF PointersKept
<1> QED  BY <1>2, WakeInvariant, PTL

(* The values of the variables; in particular weak counts are numbers, so  *)
(* no drop of a weak pointer finds the count at zero.                      *)
THEOREM WakeTypes == Spec => []TypeOK
<1>1. KInv => TypeOK
    BY DEF KInv
<1> QED  BY <1>1, WakeInvariant, PTL
=============================================================================
