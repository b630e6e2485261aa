------------------------ MODULE IntrusiveQueueProofs ------------------------
(***************************************************************************)
(* Proofs about IntrusiveQueue for any finite set of entries and any       *)
(* queues: the pointers always form the rings of some sequences, those     *)
(* are unique, and with them the lists implement FifoQueues.  Where a      *)
(* chain of pointers has to be followed, the proof takes the first         *)
(* position at which a claim fails.                                        *)
(***************************************************************************)
EXTENDS IntrusiveQueue, QueueLemmas, FiniteSetTheorems, WellFoundedInduction

\* The pointers l represent the sequences f.
Rings(l, f) ==
    /\ f \in [Queue -> Seq(Entry)]
    /\ \A q \in Queue : IsRing(l, q, f[q])
    /\ \A q, r \in Queue : q # r => Range(f[q]) \cap Range(f[r]) = {}
    /\ \A e \in Entry : IsQueued(l, e) <=> \E q \in Queue : e \in Range(f[q])

\* The sequences once e has been taken off whichever holds it.
Off(f, e) == [q \in Queue |-> RemoveFirst(f[q], e)]

QInv == TypeOK /\ CountsMatch /\ \E f : Rings(link, f)
-----------------------------------------------------------------------------
(* A set of numbers that is not empty has a least one. *)
LEMMA LeastNat ==
    ASSUME NEW T, T \subseteq Nat, T # {}
    PROVE  \E x \in T : \A y \in T : x <= y
<1> DEFINE R == OpToRel(<, Nat)
<1>1. IsWellFoundedOn(R, Nat)
    BY NatLessThanWellFounded
<1>2. \A a, b \in Nat : a < b => <<a, b>> \in R
    BY DEF OpToRel
<1> HIDE DEF R
<1>3. \E x \in T : \A y \in T : ~ (<<y, x>> \in R)
    BY <1>1, WFMin
<1>4. PICK x \in T : \A y \in T : ~ (<<y, x>> \in R)
    BY <1>3
<1>5. \A y \in T : x \in Nat /\ y \in Nat
    OBVIOUS
<1>6. \A y \in T : ~(y < x)
    BY <1>2, <1>4, <1>5
<1>7. \A y \in T : x <= y
    BY <1>5, <1>6
<1> QED  BY <1>7

(* The positions of a ring: the head at both ends, the entries between. *)
LEMMA AtFacts ==
    ASSUME NEW q \in Queue, NEW s \in Seq(Entry)
    PROVE  /\ Len(s) \in Nat
           /\ At(q, s, 0) = q /\ At(q, s, Len(s) + 1) = q
           /\ \A i \in 1..Len(s) : At(q, s, i) = s[i] /\ s[i] \in Entry /\ s[i] # q
           /\ \A i \in 0..Len(s) + 1 : At(q, s, i) \in Range(s) \cup {q}
           /\ \A i \in 0..Len(s) + 1 : At(q, s, i) \in Node
<1>1. Len(s) \in Nat /\ \A i \in 1..Len(s) : s[i] \in Entry
    BY LenProperties
<1>2. 0 \notin 1..Len(s) /\ Len(s) + 1 \notin 1..Len(s)
    BY <1>1
<1>3. At(q, s, 0) = q /\ At(q, s, Len(s) + 1) = q
    BY <1>2 DEF At
<1>4. \A i \in 1..Len(s) : At(q, s, i) = s[i] /\ s[i] \in Entry /\ s[i] # q
    BY <1>1, NodesAreDistinct DEF At
<1>5. \A i \in 1..Len(s) : s[i] \in Range(s)
    BY RangeIndex
<1>6. \A i \in 0..Len(s) + 1 : At(q, s, i) \in Range(s) \cup {q}
    BY <1>5 DEF At
<1>7. \A i \in 0..Len(s) + 1 : At(q, s, i) \in Node
    BY <1>1 DEF At, Node
<1> QED  BY <1>1, <1>3, <1>4, <1>6, <1>7

(* The head and the entries of a ring are different nodes. *)
LEMMA AtInjective ==
    ASSUME NEW q \in Queue, NEW s \in Seq(Entry), IsInjective(s)
    PROVE  /\ \A i, j \in 0..Len(s) : At(q, s, i) = At(q, s, j) => i = j
           /\ \A i, j \in 1..Len(s) + 1 : At(q, s, i) = At(q, s, j) => i = j
<1>1. \A i, j \in 1..Len(s) : s[i] = s[j] => i = j
    BY RangeIndex
<1>2. Len(s) \in Nat
    BY LenProperties
<1>3. \A i \in 0..Len(s) : i = 0 \/ i \in 1..Len(s)
    BY <1>2
<1>4. \A i \in 1..Len(s) + 1 : i = Len(s) + 1 \/ i \in 1..Len(s)
    BY <1>2
<1>5. \A i, j \in 0..Len(s) : At(q, s, i) = At(q, s, j) => i = j
    BY <1>1, <1>3, AtFacts
<1>6. \A i, j \in 1..Len(s) + 1 : At(q, s, i) = At(q, s, j) => i = j
    BY <1>1, <1>4, AtFacts
<1> QED  BY <1>5, <1>6

\* Of two rings from one head, the shorter leads as far as the longer.
LEMMA RingPrefix ==
    ASSUME NEW l, NEW q \in Queue, NEW s \in Seq(Entry), NEW t \in Seq(Entry),
           IsRing(l, q, s), IsRing(l, q, t)
    PROVE  Len(s) <= Len(t) /\ \A i \in 0..Len(s) + 1 : At(q, s, i) = At(q, t, i)
<1> DEFINE Same(i) == i <= Len(t) + 1 /\ At(q, s, i) = At(q, t, i)
           T == {i \in 0..Len(s) + 1 : ~Same(i)}
<1>1. Len(s) \in Nat /\ Len(t) \in Nat
    BY LenProperties
<1>2. T = {}
    <2> SUFFICES ASSUME T # {}
                 PROVE  FALSE
        OBVIOUS
    <2>1. T \subseteq Nat
        BY <1>1
    <2>2. PICK n \in T : \A y \in T : n <= y
        <3> HIDE DEF T
        <3> QED  BY <2>1, LeastNat
    <2>3. n \in 0..Len(s) + 1 /\ ~Same(n)
        OBVIOUS
    <2>4. Same(0)
        BY <1>1, AtFacts
    <2>5. n # 0
        BY <2>3, <2>4
    <2> DEFINE j == n - 1
    <2>6. j \in 0..Len(s) /\ j \in 0..Len(s) + 1 /\ n = j + 1 /\ ~(n <= j)
        BY <1>1, <2>3, <2>5
    <2> HIDE DEF Same
    <2>7. Same(j)
        BY <2>2, <2>6
    <2> HIDE DEF T, j
    <2>8. j # Len(t) + 1
        <3> SUFFICES ASSUME j = Len(t) + 1
                     PROVE  FALSE
            OBVIOUS
        <3>1. At(q, s, j) = q
            BY <2>7, AtFacts DEF Same
        <3>2. j \in 1..Len(s)
            BY <1>1, <2>6
        <3> QED  BY <3>1, <3>2, AtFacts
    <2>9. j \in 0..Len(t)
        BY <1>1, <2>6, <2>7, <2>8 DEF Same
    <2>10. l.prev[At(q, s, j)] = At(q, s, n)
        BY <2>6 DEF IsRing
    <2>11. l.prev[At(q, t, j)] = At(q, t, n)
        BY <2>6, <2>9 DEF IsRing
    <2>12. Same(n)
        BY <1>1, <2>6, <2>7, <2>9, <2>10, <2>11 DEF Same
    <2> QED  BY <2>3, <2>12
<1>3. \A i \in 0..Len(s) + 1 : Same(i)
    BY <1>2
<1>4. Len(s) + 1 \in 0..Len(s) + 1
    BY <1>1
<1> QED  BY <1>1, <1>3, <1>4

(* The pointers determine the sequence. *)
LEMMA RingUnique ==
    ASSUME NEW l, NEW q \in Queue, NEW s \in Seq(Entry), NEW t \in Seq(Entry),
           IsRing(l, q, s), IsRing(l, q, t)
    PROVE  s = t
<1>1. Len(s) = Len(t)
    <2>1. Len(s) <= Len(t) /\ Len(t) <= Len(s)
        BY RingPrefix
    <2> QED  BY <2>1, LenProperties
<1>2. \A i \in 1..Len(s) : At(q, s, i) = At(q, t, i)
    <2>1. Len(s) \in Nat
        BY LenProperties
    <2> QED  BY <2>1, RingPrefix
<1>3. \A i \in 1..Len(s) : s[i] = t[i]
    BY <1>1, <1>2, AtFacts
<1> QED  BY <1>1, <1>3, SeqEqual

(* A list is no longer than there are entries. *)
LEMMA SeqsAreLists ==
    /\ Lists \subseteq Seq(Entry)
    /\ \A s \in Seq(Entry) : IsInjective(s) => s \in Lists
<1>1. Cardinality(Entry) \in Nat
    BY EntriesAreFinite, FS_CardinalityType
<1>2. Lists \subseteq Seq(Entry)
    <2> SUFFICES ASSUME NEW n \in 0..Cardinality(Entry), NEW s \in [1..n -> Entry]
                 PROVE  s \in Seq(Entry)
        BY DEF Lists
    <2> QED  BY <1>1, SeqDef
<1>3. ASSUME NEW s \in Seq(Entry), IsInjective(s)
      PROVE  s \in Lists
    <2>1. Len(s) \in Nat /\ s \in [1..Len(s) -> Entry]
        BY LenProperties
    <2>2. \A i, j \in 1..Len(s) : s[i] = s[j] => i = j
        BY <1>3, RangeIndex
    <2>3. s \in Injection(1..Len(s), Entry)
        BY <2>1, <2>2 DEF Injection, IsInjective
    <2>4. Cardinality(1..Len(s)) <= Cardinality(Entry)
        BY <2>3, EntriesAreFinite, FS_Injection
    <2>5. Cardinality(1..Len(s)) = Len(s)
        BY <2>1, FS_Interval
    <2>6. Len(s) \in 0..Cardinality(Entry)
        BY <1>1, <2>1, <2>4, <2>5
    <2> QED  BY <2>1, <2>6 DEF Lists
<1> QED  BY <1>2, <1>3

(* Read from its head, a queue is the sequence its ring represents.        *)
LEMMA ReadRing ==
    ASSUME NEW l, NEW f, Rings(l, f), NEW q \in Queue
    PROVE  /\ f[q] \in Lists /\ IsRing(l, q, f[q])
           /\ f[q] = CHOOSE s \in Lists : IsRing(l, q, s)
<1> DEFINE c == CHOOSE s \in Lists : IsRing(l, q, s)
<1>1. f[q] \in Seq(Entry) /\ IsRing(l, q, f[q])
    BY DEF Rings
<1>2. f[q] \in Lists
    BY <1>1, SeqsAreLists DEF IsRing
<1>3. c \in Lists /\ IsRing(l, q, c)
    BY <1>1, <1>2
<1>4. c \in Seq(Entry)
    BY <1>3, SeqsAreLists
<1>5. c = f[q]
    <2> HIDE DEF c
    <2> QED  BY <1>1, <1>3, <1>4, RingUnique
<1> QED  BY <1>1, <1>2, <1>5

\* The refinement mapping.
lists == [q \in Queue |-> Chain(q)]

LEMMA ListsAre ==
    /\ \A f : Rings(link, f) => lists = f
    /\ \A f : Rings(link', f) => lists' = f
<1>1. ASSUME NEW f, Rings(link, f)
      PROVE  lists = f
    <2>1. \A q \in Queue : Chain(q) = f[q]
        BY <1>1, ReadRing DEF Chain
    <2> QED  BY <1>1, <2>1 DEF lists, Rings
<1>2. ASSUME NEW f, Rings(link', f)
      PROVE  lists' = f
    <2>1. \A q \in Queue : Chain(q)' = f[q]
        BY <1>2, ReadRing DEF Chain
    <2> QED  BY <1>2, <2>1 DEF lists, Rings
<1> QED  BY <1>1, <1>2
-----------------------------------------------------------------------------
\* Nodes of two rings differ.
LEMMA RingsApart ==
    ASSUME NEW l, NEW f, Rings(l, f), NEW q \in Queue, NEW r \in Queue, q # r,
           NEW i \in 0..Len(f[q]) + 1, NEW j \in 0..Len(f[r]) + 1
    PROVE  At(q, f[q], i) # At(r, f[r], j)
<1>1. f[q] \in Seq(Entry) /\ f[r] \in Seq(Entry) /\ Range(f[q]) \cap Range(f[r]) = {}
    BY DEF Rings
<1>2. Range(f[q]) \subseteq Entry /\ Range(f[r]) \subseteq Entry
    BY <1>1, RangeIndex
<1>3. At(q, f[q], i) \in Range(f[q]) \cup {q} /\ At(r, f[r], j) \in Range(f[r]) \cup {r}
    BY <1>1, AtFacts
<1> QED  BY <1>1, <1>2, <1>3, NodesAreDistinct

(* QueueEntry::unqueue: the entry leaves its ring, the other rings and the *)
(* order of the others stay.                                               *)
LEMMA UnqueueRings ==
    ASSUME NEW l \in Links, NEW f, Rings(l, f), NEW e \in Entry
    PROVE  /\ Unqueue(l, e) \in Links
           /\ Rings(Unqueue(l, e), Off(f, e))
           /\ \A x \in Entry : IsQueued(Unqueue(l, e), x) <=> IsQueued(l, x) /\ x # e
<1> DEFINE g == Off(f, e)
           m == Unqueue(l, e)
<1>1. \A q \in Queue : f[q] \in Seq(Entry) /\ IsRing(l, q, f[q]) /\ IsInjective(f[q])
    BY DEF Rings, IsRing
<1>2. \A q \in Queue : /\ g[q] \in Seq(Entry) /\ IsInjective(g[q])
                       /\ Range(g[q]) = Range(f[q]) \ {e}
                       /\ e \notin Range(f[q]) => g[q] = f[q]
    BY <1>1, RemoveFirstFacts DEF Off
<1>3. CASE ~IsQueued(l, e)
    <2>1. m = l
        BY <1>3 DEF Unqueue
    <2>2. \A q \in Queue : e \notin Range(f[q])
        BY <1>3 DEF Rings
    <2>3. g = f
        BY <1>2, <2>2 DEF Rings, Off
    <2> QED  BY <1>3, <2>1, <2>3
<1>4. CASE IsQueued(l, e)
    <2>1. PICK p \in Queue : e \in Range(f[p])
        BY <1>4 DEF Rings
    <2> DEFINE s == f[p]
               N == Len(s)
               t == g[p]
    <2>2. PICK k \in 1..N : s[k] = e
        BY <1>1, <2>1, RangeIndex
    <2>3. N \in Nat /\ s \in Seq(Entry) /\ IsInjective(s) /\ t \in Seq(Entry)
        BY <1>1, <1>2, LenProperties
    <2>4. /\ Len(t) = N - 1
          /\ \A i \in 1..N - 1 : t[i] = IF i < k THEN s[i] ELSE s[i + 1]
        BY <2>2, <2>3, RemoveFirstFacts DEF Off
    <2> DEFINE b == At(p, s, k - 1)
               a == At(p, s, k + 1)
    <2>5. At(p, s, k) = e
        BY <2>2, <2>3, AtFacts
    <2>6. l.prev[e] = a /\ l.next[e] = b
        <3>1. k \in 0..N /\ k - 1 \in 0..N /\ (k - 1) + 1 = k
            BY <2>3
        <3> QED  BY <1>1, <2>5, <3>1 DEF IsRing
    <2>7. a \in Node /\ b \in Node /\ b # e /\ a # e
        <3>1. k \in 0..N /\ k - 1 \in 0..N /\ k - 1 # k
            BY <2>3
        <3>2. k \in 1..N + 1 /\ k + 1 \in 1..N + 1 /\ k + 1 # k
            BY <2>3
        <3>3. k - 1 \in 0..N + 1 /\ k + 1 \in 0..N + 1
            BY <2>3
        <3> QED  BY <2>3, <2>5, <3>1, <3>2, <3>3, AtFacts, AtInjective
    <2>8. /\ l.prev \in [Node -> Node \cup {Null}]
          /\ l.next \in [Node -> Node \cup {Null}]
        BY DEF Links
    <2>9. e \in Node
        BY DEF Node
    <2>10. /\ m \in Links
           /\ \A n \in Node : m.prev[n] = IF n = e THEN Null ELSE IF n = b THEN a ELSE l.prev[n]
           /\ \A n \in Node : m.next[n] = IF n = a THEN b ELSE l.next[n]
        <3>1. m = [next |-> [l.next EXCEPT ![a] = b],
                   prev |-> [l.prev EXCEPT ![b] = a, ![e] = Null]]
            BY <1>4, <2>6 DEF Unqueue
        <3> HIDE DEF a, b, m
        <3>2. /\ m.prev = [l.prev EXCEPT ![b] = a, ![e] = Null]
              /\ m.next = [l.next EXCEPT ![a] = b]
            BY <3>1
        <3>3. /\ m.prev \in [Node -> Node \cup {Null}]
              /\ m.next \in [Node -> Node \cup {Null}]
            BY <2>7, <2>8, <2>9, <3>2
        <3>4. m \in Links
            BY <3>1, <3>2, <3>3 DEF Links
        <3> QED  BY <2>7, <2>8, <2>9, <3>2, <3>4
    <2> HIDE DEF m, g
    <2> DEFINE src(i) == IF i < k THEN i ELSE i + 1
    <2>11. \A i \in 0..N : At(p, t, i) = At(p, s, src(i))
        <3> SUFFICES ASSUME NEW i \in 0..N
                     PROVE  At(p, t, i) = At(p, s, src(i))
            OBVIOUS
        <3>1. CASE i = 0
            BY <2>3, <3>1, AtFacts
        <3>2. CASE i = N
            <4>1. At(p, t, N) = p
                BY <2>3, <2>4, AtFacts
            <4>2. src(i) = N + 1
                BY <2>3, <3>2
            <4> QED  BY <2>3, <3>2, <4>1, <4>2, AtFacts
        <3>3. CASE i # 0 /\ i # N
            <4>1. i \in 1..N - 1 /\ src(i) \in 1..N
                BY <2>3, <3>3
            <4>2. At(p, t, i) = t[i]
                BY <2>3, <2>4, <4>1, AtFacts
            <4>3. At(p, s, src(i)) = s[src(i)]
                BY <2>3, <4>1, AtFacts
            <4> QED  BY <2>4, <4>1, <4>2, <4>3
        <3> QED  BY <3>1, <3>2, <3>3
    <2>12. IsRing(m, p, t)
        <3> SUFFICES ASSUME NEW i \in 0..N - 1
                     PROVE  /\ m.prev[At(p, t, i)] = At(p, t, i + 1)
                            /\ m.next[At(p, t, i + 1)] = At(p, t, i)
            BY <1>2, <2>4 DEF IsRing
        <3>1. i \in 0..N /\ i + 1 \in 0..N /\ i \in Nat
            BY <2>3
        <3> DEFINE x == src(i)
                   y == src(i + 1)
        <3>2. /\ At(p, t, i) = At(p, s, x)
              /\ At(p, t, i + 1) = At(p, s, y)
            BY <2>11, <3>1
        <3>3. /\ x \in 0..N /\ x # k /\ y \in 1..N + 1 /\ y # k
              /\ x = k - 1 <=> y = k + 1
              /\ x # k - 1 => y = x + 1
              /\ k - 1 \in 0..N /\ k \in 0..N /\ k + 1 \in 1..N + 1
            BY <2>3, <3>1
        <3> HIDE DEF x, y
        <3>4. At(p, s, x) \in Node /\ At(p, s, y) \in Node
            <4>1. x \in 0..N + 1 /\ y \in 0..N + 1
                BY <2>3, <3>3
            <4> QED  BY <2>3, <4>1, AtFacts
        <3>5. At(p, s, x) # e /\ (At(p, s, x) = b <=> x = k - 1)
            BY <2>3, <2>5, <3>3, AtInjective
        <3>6. At(p, s, y) = a <=> y = k + 1
            BY <2>3, <3>3, AtInjective
        <3>7. CASE x = k - 1
            BY <2>10, <3>2, <3>3, <3>4, <3>5, <3>6, <3>7
        <3>8. CASE x # k - 1
            <4>1. l.prev[At(p, s, x)] = At(p, s, y) /\ l.next[At(p, s, y)] = At(p, s, x)
                BY <1>1, <3>3, <3>8 DEF IsRing
            <4> QED  BY <2>10, <3>2, <3>3, <3>4, <3>5, <3>6, <3>8, <4>1
        <3> QED  BY <3>7, <3>8
    <2>13. ASSUME NEW r \in Queue, r # p
           PROVE  g[r] = f[r] /\ IsRing(m, r, g[r])
        <3>1. e \notin Range(f[r])
            BY <2>1, <2>13 DEF Rings
        <3>2. g[r] = f[r] /\ f[r] \in Seq(Entry) /\ IsRing(l, r, f[r])
            BY <1>1, <1>2, <3>1
        <3>3. \A i \in 0..Len(f[r]) + 1 : /\ At(r, f[r], i) \in Node
                                          /\ At(r, f[r], i) \notin {a, b, e}
            <4>1. k - 1 \in 0..N + 1 /\ k \in 0..N + 1 /\ k + 1 \in 0..N + 1
                BY <2>3
            <4> QED  BY <2>5, <2>13, <3>2, <4>1, AtFacts, RingsApart
        <3>4. Len(f[r]) \in Nat
            BY <3>2, LenProperties
        <3>5. \A i \in 0..Len(f[r]) : i \in 0..Len(f[r]) + 1 /\ i + 1 \in 0..Len(f[r]) + 1
            BY <3>4
        <3>6. IsRing(m, r, f[r])
            BY <2>10, <3>2, <3>3, <3>5 DEF IsRing
        <3> QED  BY <3>2, <3>6
    <2>14. \A x \in Entry : IsQueued(m, x) <=> IsQueued(l, x) /\ x # e
        <3>1. \A x \in Entry : x \in Node
            BY DEF Node
        <3>2. a # Null
            BY <2>7, NodesAreDistinct DEF Node
        <3>3. b \in Entry => IsQueued(l, b)
            <4> SUFFICES ASSUME b \in Entry
                         PROVE  IsQueued(l, b)
                OBVIOUS
            <4>1. k - 1 \in 0..N + 1
                BY <2>3
            <4>2. b \in Range(s)
                BY <2>3, <4>1, AtFacts, NodesAreDistinct
            <4> QED  BY <4>2 DEF Rings
        <3> QED  BY <2>7, <2>10, <3>1, <3>2, <3>3 DEF IsQueued
    <2>15. Rings(m, g)
        <3>1. g \in [Queue -> Seq(Entry)]
            BY <1>2 DEF g, Off
        <3>2. \A q \in Queue : IsRing(m, q, g[q])
            BY <2>12, <2>13
        <3>3. \A q, r \in Queue : q # r => Range(g[q]) \cap Range(g[r]) = {}
            BY <1>2 DEF Rings
        <3>4. \A x \in Entry : IsQueued(m, x) <=> \E q \in Queue : x \in Range(g[q])
            BY <1>2, <2>14 DEF Rings
        <3> QED  BY <3>1, <3>2, <3>3, <3>4 DEF Rings
    <2> QED  BY <2>10, <2>14, <2>15 DEF m, g
<1> QED  BY <1>3, <1>4

(* The pointer writes of push(): the entry comes last.                     *)
LEMMA LinkRings ==
    ASSUME NEW l \in Links, NEW f, Rings(l, f), NEW q \in Queue, NEW e \in Entry,
           ~IsQueued(l, e)
    PROVE  /\ LinkAfterHead(l, q, e) \in Links
           /\ Rings(LinkAfterHead(l, q, e), [f EXCEPT ![q] = Append(@, e)])
           /\ \A x \in Entry : IsQueued(LinkAfterHead(l, q, e), x) <=> IsQueued(l, x) \/ x = e
<1> DEFINE s == f[q]
           N == Len(s)
           t == Append(s, e)
           z == At(q, s, N)
           g == [f EXCEPT ![q] = t]
           m == LinkAfterHead(l, q, e)
<1>1. \A r \in Queue : f[r] \in Seq(Entry) /\ IsRing(l, r, f[r]) /\ IsInjective(f[r])
    BY DEF Rings, IsRing
<1>2. \A r \in Queue : e \notin Range(f[r])
    BY DEF Rings
<1>3. N \in Nat /\ s \in Seq(Entry) /\ IsInjective(s)
    BY <1>1, LenProperties
<1>4. /\ t \in Seq(Entry) /\ IsInjective(t) /\ Range(t) = Range(s) \cup {e}
      /\ Len(t) = N + 1 /\ t[N + 1] = e
      /\ \A i \in 1..N : t[i] = s[i]
    BY <1>2, <1>3, AppendFacts, AppendProperties
<1>5. /\ g \in [Queue -> Seq(Entry)] /\ g[q] = t
      /\ \A r \in Queue : r # q => g[r] = f[r]
    BY <1>4 DEF Rings
<1>6. \A r \in Queue : \A i \in 0..Len(f[r]) + 1 : At(r, f[r], i) \in Node /\ At(r, f[r], i) # e
    <2> SUFFICES ASSUME NEW r \in Queue, NEW i \in 0..Len(f[r]) + 1
                 PROVE  At(r, f[r], i) \in Node /\ At(r, f[r], i) # e
        OBVIOUS
    <2>1. At(r, f[r], i) \in Range(f[r]) \cup {r} /\ At(r, f[r], i) \in Node
        BY <1>1, AtFacts
    <2> QED  BY <1>2, <2>1, NodesAreDistinct
<1>7. N \in 0..N + 1 /\ N \in 0..N /\ N + 1 \in 0..N + 1
    BY <1>3
<1>8. z \in Node /\ z # e /\ e \in Node /\ q \in Node /\ q # e
    BY <1>6, <1>7, NodesAreDistinct DEF Node
<1>9. l.next[q] = z
    <2>1. l.next[At(q, s, N + 1)] = At(q, s, N)
        BY <1>1, <1>7 DEF IsRing
    <2> QED  BY <1>3, <2>1, AtFacts
<1>10. /\ l.prev \in [Node -> Node \cup {Null}]
       /\ l.next \in [Node -> Node \cup {Null}]
    BY DEF Links
<1> HIDE DEF g, z, t
<1>11. /\ m \in Links
       /\ \A n \in Node : m.prev[n] = IF n = z THEN e ELSE IF n = e THEN q ELSE l.prev[n]
       /\ \A n \in Node : m.next[n] = IF n = q THEN e ELSE IF n = e THEN z ELSE l.next[n]
    <2>1. m = [next |-> [l.next EXCEPT ![e] = z, ![q] = e],
               prev |-> [l.prev EXCEPT ![e] = q, ![z] = e]]
        BY <1>9 DEF LinkAfterHead
    <2> HIDE DEF m
    <2>2. /\ m.prev = [l.prev EXCEPT ![e] = q, ![z] = e]
          /\ m.next = [l.next EXCEPT ![e] = z, ![q] = e]
        BY <2>1
    <2>3. /\ m.prev \in [Node -> Node \cup {Null}]
          /\ m.next \in [Node -> Node \cup {Null}]
        BY <1>8, <1>10, <2>2
    <2>4. m \in Links
        BY <2>1, <2>2, <2>3 DEF Links
    <2> QED  BY <1>8, <1>10, <2>2, <2>4
<1> HIDE DEF m
<1>12. /\ \A i \in 0..N : At(q, t, i) = At(q, s, i)
       /\ At(q, t, N + 1) = e /\ At(q, t, N + 2) = q
    <2>1. At(q, t, 0) = q /\ At(q, t, (N + 1) + 1) = q
        BY <1>4, AtFacts
    <2>2. N + 1 \in 1..N + 1 /\ (N + 1) + 1 = N + 2
        BY <1>3
    <2>3. At(q, t, N + 1) = e
        BY <1>4, <2>2, AtFacts
    <2>4. ASSUME NEW i \in 1..N
          PROVE  At(q, t, i) = At(q, s, i)
        <3>1. i \in 1..N + 1
            BY <1>3
        <3> QED  BY <1>3, <1>4, <3>1, AtFacts
    <2>5. \A i \in 0..N : i = 0 \/ i \in 1..N
        BY <1>3
    <2> QED  BY <1>3, <2>1, <2>2, <2>3, <2>4, <2>5, AtFacts
<1>13. IsRing(m, q, t)
    <2> SUFFICES ASSUME NEW i \in 0..N + 1
                 PROVE  /\ m.prev[At(q, t, i)] = At(q, t, i + 1)
                        /\ m.next[At(q, t, i + 1)] = At(q, t, i)
        BY <1>4 DEF IsRing
    <2>1. At(q, s, 0) = q /\ At(q, s, N + 1) = q
        BY <1>3, AtFacts
    <2>2. CASE i \in 0..N - 1
        <3>1. /\ i \in 0..N /\ i + 1 \in 0..N /\ i + 1 \in 1..N /\ i # N /\ i + 1 # 0
              /\ i \in 0..N + 1 /\ i + 1 \in 0..N + 1 /\ 0 \in 0..N
            BY <1>3, <2>2
        <3>2. At(q, s, i) # z /\ At(q, s, i + 1) # q
            BY <1>3, <1>7, <2>1, <3>1, AtInjective DEF z
        <3>3. /\ l.prev[At(q, s, i)] = At(q, s, i + 1)
              /\ l.next[At(q, s, i + 1)] = At(q, s, i)
            BY <1>1, <3>1 DEF IsRing
        <3> QED  BY <1>6, <1>11, <1>12, <3>1, <3>2, <3>3
    <2>3. CASE i = N
        BY <1>7, <1>8, <1>11, <1>12, <2>3 DEF z
    <2>4. CASE i = N + 1
        <3>1. i + 1 = N + 2
            BY <1>3, <2>4
        <3> QED  BY <1>8, <1>11, <1>12, <2>4, <3>1
    <2> QED  BY <1>3, <2>2, <2>3, <2>4
<1>14. ASSUME NEW r \in Queue, r # q
       PROVE  IsRing(m, r, f[r])
    <2>1. Len(f[r]) \in Nat /\ f[r] \in Seq(Entry)
        BY <1>1, LenProperties
    <2>2. \A i \in 0..Len(f[r]) + 1 : At(r, f[r], i) # z /\ At(r, f[r], i) # q
        <3>1. At(q, s, N + 1) = q
            BY <1>3, AtFacts
        <3> QED  BY <1>7, <1>14, <3>1, RingsApart DEF z
    <2>3. \A i \in 0..Len(f[r]) : i \in 0..Len(f[r]) + 1 /\ i + 1 \in 0..Len(f[r]) + 1
        BY <2>1
    <2> QED  BY <1>1, <1>6, <1>11, <2>2, <2>3 DEF IsRing
<1>15. \A x \in Entry : IsQueued(m, x) <=> IsQueued(l, x) \/ x = e
    <2>1. \A x \in Entry : x \in Node
        BY DEF Node
    <2>2. z \in Entry => IsQueued(l, z)
        <3> SUFFICES ASSUME z \in Entry
                     PROVE  IsQueued(l, z)
            OBVIOUS
        <3>1. z \in Range(s)
            BY <1>3, <1>7, AtFacts, NodesAreDistinct DEF z
        <3> QED  BY <3>1 DEF Rings
    <2>3. e # Null /\ q # Null
        BY NodesAreDistinct
    <2> QED  BY <1>8, <1>11, <2>1, <2>2, <2>3 DEF IsQueued
<1>16. Rings(m, g)
    <2>1. \A r \in Queue : IsRing(m, r, g[r])
        BY <1>5, <1>13, <1>14
    <2>2. \A r \in Queue : Range(g[r]) = IF r = q THEN Range(f[r]) \cup {e} ELSE Range(f[r])
        BY <1>4, <1>5
    <2> HIDE DEF s
    <2>3. ASSUME NEW r \in Queue, NEW p \in Queue, r # p
          PROVE  Range(g[r]) \cap Range(g[p]) = {}
        <3>1. Range(f[r]) \cap Range(f[p]) = {} /\ e \notin Range(f[r]) /\ e \notin Range(f[p])
            BY <1>2, <2>3 DEF Rings
        <3> QED  BY <2>2, <2>3, <3>1
    <2>4. \A x \in Entry : IsQueued(m, x) <=> \E r \in Queue : x \in Range(g[r])
        BY <1>15, <2>2 DEF Rings
    <2> QED  BY <1>5, <2>1, <2>3, <2>4 DEF Rings
<1> QED  BY <1>11, <1>15, <1>16 DEF m, g, t

(* pop(): before the head is the first of the sequence, and taking it off  *)
(* leaves the tail.                                                        *)
LEMMA FirstOfRing ==
    ASSUME NEW l, NEW f, Rings(l, f), NEW q \in Queue, NEW e, e = l.prev[q]
    PROVE  /\ IsEmpty(l, q) <=> f[q] = <<>>
           /\ ~IsEmpty(l, q) =>
                 /\ e \in Entry /\ e = Head(f[q]) /\ IsQueued(l, e)
                 /\ Off(f, e) = [f EXCEPT ![q] = Tail(@)]
<1> DEFINE s == f[q]
<1>1. /\ \A r \in Queue : f[r] \in Seq(Entry) /\ IsInjective(f[r])
      /\ IsRing(l, q, s) /\ s \in Seq(Entry) /\ f \in [Queue -> Seq(Entry)]
    BY DEF Rings, IsRing
<1>2. Len(s) \in Nat
    BY <1>1, LenProperties
<1>3. e = At(q, s, 1)
    <2>1. 0 \in 0..Len(s) /\ 0 + 1 = 1
        BY <1>2
    <2>2. l.prev[At(q, s, 0)] = At(q, s, 1)
        BY <1>1, <2>1 DEF IsRing
    <2> QED  BY <1>1, <2>2, AtFacts
<1>4. CASE s = <<>>
    <2>1. Len(s) = 0
        BY <1>4, EmptySeq
    <2>2. At(q, s, 1) = q
        BY <1>1, <2>1, AtFacts
    <2> QED  BY <1>3, <1>4, <2>2 DEF IsEmpty
<1>5. CASE s # <<>>
    <2>1. Len(s) \in Nat \ {0} /\ 1 \in 1..Len(s)
        BY <1>1, <1>5, EmptySeq
    <2>2. e = s[1] /\ e \in Entry /\ e # q
        BY <1>1, <1>3, <2>1, AtFacts
    <2>3. e = Head(s) /\ e \in Range(s)
        BY <1>1, <2>1, <2>2, RangeIndex
    <2>4. IsQueued(l, e)
        BY <2>2, <2>3 DEF Rings
    <2>5. \A r \in Queue : r # q => e \notin Range(f[r])
        BY <2>3 DEF Rings
    <2>6. RemoveFirst(s, e) = Tail(s)
        <3>1. /\ RemoveFirst(s, e) \in Seq(Entry)
              /\ Len(RemoveFirst(s, e)) = Len(s) - 1
              /\ \A i \in 1..Len(s) - 1 :
                    RemoveFirst(s, e)[i] = IF i < 1 THEN s[i] ELSE s[i + 1]
            BY <1>1, <2>1, <2>2, RemoveFirstFacts
        <3>2. /\ Tail(s) \in Seq(Entry) /\ Len(Tail(s)) = Len(s) - 1
              /\ \A i \in 1..Len(Tail(s)) : Tail(s)[i] = s[i + 1]
            BY <1>1, <1>5, HeadTailProperties
        <3>3. \A i \in 1..Len(s) - 1 : RemoveFirst(s, e)[i] = Tail(s)[i]
            BY <2>1, <3>1, <3>2
        <3> QED  BY <3>1, <3>2, <3>3, SeqEqual
    <2>7. \A r \in Queue : r # q => RemoveFirst(f[r], e) = f[r]
        BY <1>1, <2>5, RemoveFirstFacts
    <2>8. Off(f, e) = [f EXCEPT ![q] = Tail(@)]
        BY <1>1, <2>6, <2>7 DEF Off
    <2> QED  BY <1>5, <2>2, <2>3, <2>4, <2>8 DEF IsEmpty
<1> QED  BY <1>4, <1>5
-----------------------------------------------------------------------------
(* Queue::new and QueueEntry::new: every queue is empty. *)
LEMMA InitQueues == Init => QInv /\ Fifo!Init
<1> SUFFICES ASSUME Init
             PROVE  QInv /\ Fifo!Init
    OBVIOUS
<1> DEFINE f == [q \in Queue |-> <<>>]
<1>1. link \in Links
    BY DEF Init, Links, Node
<1>2. TypeOK
    BY <1>1 DEF Init, TypeOK
<1>3. \A e \in Entry : ~IsQueued(link, e)
    BY NodesAreDistinct DEF Init, IsQueued, Node
<1>4. CountsMatch
    BY <1>3 DEF Init, CountsMatch
<1>5. /\ <<>> \in Seq(Entry) /\ Len(<<>>) = 0 /\ Range(<<>>) = {} /\ IsInjective(<<>>)
    BY EmptyFacts
<1>6. ASSUME NEW q \in Queue
      PROVE  IsRing(link, q, <<>>)
    <2>1. At(q, <<>>, 0) = q /\ At(q, <<>>, 0 + 1) = q
        BY <1>5, AtFacts
    <2>2. link.prev[q] = q /\ link.next[q] = q
        BY <1>6 DEF Init, Node
    <2>3. \A i \in 0..0 : i = 0
        OBVIOUS
    <2> QED  BY <1>5, <2>1, <2>2, <2>3 DEF IsRing
<1>7. Rings(link, f)
    BY <1>3, <1>5, <1>6 DEF Rings
<1>8. lists = f
    BY <1>7, ListsAre
<1> QED  BY <1>2, <1>4, <1>7, <1>8 DEF QInv, Fifo!Init, Init, lists

LEMMA SameRemoveFirst == \A s, e : Fifo!RemoveFirst(s, e) = RemoveFirst(s, e)
BY DEF Fifo!RemoveFirst, RemoveFirst, Fifo!RemoveAt, RemoveAt, Fifo!SelectInSeq,
       SelectInSeq, Fifo!Min, Min

(* Every method keeps the rings and the counts, and is the operation of    *)
(* FifoQueues with its name, whose bookkeeping of references it implements *)
(* by leaking and dropping one.                                            *)
LEMMA NextQueues == QInv /\ [Next]_vars => QInv' /\ [Fifo!Next]_(Fifo!fvars)
<1> SUFFICES ASSUME QInv, [Next]_vars
             PROVE  QInv' /\ [Fifo!Next]_(Fifo!fvars)
    OBVIOUS
<1> PICK f : Rings(link, f)
    BY DEF QInv
<1>1. /\ link \in Links /\ live \subseteq Queue
      /\ strong \in [Entry -> Nat] /\ held \in [Entry -> Nat]
      /\ \A e \in Entry : strong[e] = held[e] + (IF IsQueued(link, e) THEN 1 ELSE 0)
    BY DEF QInv, TypeOK, CountsMatch
<1>2. lists = f /\ f \in [Queue -> Seq(Entry)]
    BY ListsAre DEF Rings
<1>3. \A g : Rings(link', g) => lists' = g
    BY ListsAre
<1>4. ASSUME NEW e \in Entry
      PROVE  Fifo!Without(e) = Off(f, e)
    BY <1>2, SameRemoveFirst DEF Fifo!Without, Off, lists
<1>5. ASSUME NEW q \in Queue, NEW e \in Entry, Push(q, e)
      PROVE  QInv' /\ Fifo!Push(q, e)
    <2> DEFINE l == Unqueue(link, e)
               g == [Off(f, e) EXCEPT ![q] = Append(@, e)]
    <2>1. /\ l \in Links /\ Rings(l, Off(f, e))
          /\ \A x \in Entry : IsQueued(l, x) <=> IsQueued(link, x) /\ x # e
        BY <1>1, UnqueueRings
    <2>2. /\ link' \in Links /\ Rings(link', g)
          /\ \A x \in Entry : IsQueued(link', x) <=> IsQueued(link, x) \/ x = e
        <3> HIDE DEF l
        <3>1. link' = LinkAfterHead(l, q, e)
            BY <1>5 DEF Push, l
        <3> QED  BY <2>1, <3>1, LinkRings
    <2> HIDE DEF g, l
    <2>3. TypeOK' /\ CountsMatch'
        BY <1>1, <1>5, <2>2 DEF Push, TypeOK, CountsMatch
    <2>4. lists' = g
        BY <1>3, <2>2
    <2>5. Fifo!Push(q, e)
        BY <1>4, <1>5, <2>4 DEF Push, Fifo!Push, lists, g
    <2> QED  BY <2>2, <2>3, <2>5 DEF QInv
<1>6. ASSUME NEW q \in Queue, NEW e, e = link.prev[q], ~IsEmpty(link, q),
             link' = Unqueue(link, e)
      PROVE  /\ e \in Entry /\ e = Head(lists[q]) /\ lists[q] # <<>>
             /\ IsQueued(link, e)
             /\ link' \in Links /\ Rings(link', [f EXCEPT ![q] = Tail(@)])
             /\ \A x \in Entry : IsQueued(link', x) <=> IsQueued(link, x) /\ x # e
             /\ lists' = [lists EXCEPT ![q] = Tail(@)]
    <2>1. /\ f[q] # <<>> /\ e \in Entry /\ e = Head(f[q]) /\ IsQueued(link, e)
          /\ Off(f, e) = [f EXCEPT ![q] = Tail(@)]
        BY <1>6, FirstOfRing
    <2>2. /\ link' \in Links /\ Rings(link', Off(f, e))
          /\ \A x \in Entry : IsQueued(link', x) <=> IsQueued(link, x) /\ x # e
        BY <1>1, <1>6, <2>1, UnqueueRings
    <2> QED  BY <1>2, <1>3, <2>1, <2>2
<1>7. ASSUME NEW q \in Queue, Pop(q)
      PROVE  QInv' /\ Fifo!Pop(q)
    <2> DEFINE e == link.prev[q]
    <2>1. /\ e \in Entry /\ e = Head(lists[q]) /\ lists[q] # <<>>
          /\ IsQueued(link, e)
          /\ link' \in Links /\ Rings(link', [f EXCEPT ![q] = Tail(@)])
          /\ \A x \in Entry : IsQueued(link', x) <=> IsQueued(link, x) /\ x # e
          /\ lists' = [lists EXCEPT ![q] = Tail(@)]
        BY <1>6, <1>7 DEF Pop
    <2>2. q \in live /\ held' = [held EXCEPT ![e] = @ + 1] /\ UNCHANGED <<strong, live>>
        BY <1>7 DEF Pop
    <2> HIDE DEF e
    <2>3. TypeOK' /\ CountsMatch'
        BY <1>1, <2>1, <2>2 DEF TypeOK, CountsMatch
    <2>4. Fifo!Pop(q)
        BY <2>1, <2>2 DEF Fifo!Pop, lists
    <2> QED  BY <2>1, <2>3, <2>4 DEF QInv
<1>8. ASSUME NEW q \in Queue, DropPop(q)
      PROVE  QInv' /\ Fifo!DropPop(q)
    <2> DEFINE e == link.prev[q]
    <2>1. /\ e \in Entry /\ e = Head(lists[q]) /\ lists[q] # <<>>
          /\ IsQueued(link, e)
          /\ link' \in Links /\ Rings(link', [f EXCEPT ![q] = Tail(@)])
          /\ \A x \in Entry : IsQueued(link', x) <=> IsQueued(link, x) /\ x # e
          /\ lists' = [lists EXCEPT ![q] = Tail(@)]
        BY <1>6, <1>8 DEF DropPop
    <2>2. q \notin live /\ strong' = [strong EXCEPT ![e] = @ - 1] /\ UNCHANGED <<held, live>>
        BY <1>8 DEF DropPop
    <2> HIDE DEF e
    <2>3. TypeOK' /\ CountsMatch'
        BY <1>1, <2>1, <2>2 DEF TypeOK, CountsMatch
    <2>4. Fifo!DropPop(q)
        BY <2>1, <2>2 DEF Fifo!DropPop, lists
    <2> QED  BY <2>1, <2>3, <2>4 DEF QInv
<1>9. ASSUME NEW e \in Entry, Release(e)
      PROVE  QInv' /\ Fifo!Release(e)
    <2>1. /\ link' \in Links /\ Rings(link', Off(f, e))
          /\ \A x \in Entry : IsQueued(link', x) <=> IsQueued(link, x) /\ x # e
        BY <1>1, <1>9, UnqueueRings DEF Release
    <2>2. TypeOK' /\ CountsMatch'
        BY <1>1, <1>9, <2>1 DEF Release, TypeOK, CountsMatch
    <2>3. lists' = Off(f, e)
        BY <1>3, <2>1
    <2>4. Fifo!Release(e)
        BY <1>4, <1>9, <2>3 DEF Release, Fifo!Release, lists
    <2> QED  BY <2>1, <2>2, <2>4 DEF QInv
<1>10. ASSUME link' = link
       PROVE  lists' = lists /\ Rings(link', f) /\ link' \in Links
    BY <1>1, <1>2, <1>3, <1>10
<1>11. ASSUME NEW q \in Queue, DropQueue(q)
       PROVE  QInv' /\ Fifo!DropQueue(q)
    <2>1. TypeOK' /\ CountsMatch'
        BY <1>1, <1>11 DEF DropQueue, TypeOK, CountsMatch
    <2> QED  BY <1>10, <1>11, <2>1 DEF DropQueue, QInv, Fifo!DropQueue, lists
<1>12. ASSUME NEW e \in Entry, CloneRef(e)
       PROVE  QInv' /\ Fifo!CloneRef(e)
    <2>1. TypeOK' /\ CountsMatch'
        BY <1>1, <1>12 DEF CloneRef, TypeOK, CountsMatch
    <2> QED  BY <1>10, <1>12, <2>1 DEF CloneRef, QInv, Fifo!CloneRef, lists
<1>13. ASSUME NEW e \in Entry, DropRef(e)
       PROVE  QInv' /\ Fifo!DropRef(e)
    <2>1. TypeOK' /\ CountsMatch'
        BY <1>1, <1>13 DEF DropRef, TypeOK, CountsMatch
    <2> QED  BY <1>10, <1>13, <2>1 DEF DropRef, QInv, Fifo!DropRef, lists
<1>14. CASE UNCHANGED vars
    <2>1. TypeOK' /\ CountsMatch'
        BY <1>1, <1>14 DEF vars, TypeOK, CountsMatch
    <2> QED  BY <1>10, <1>14, <2>1 DEF vars, QInv, Fifo!fvars, lists
<1> QED
    BY <1>5, <1>7, <1>8, <1>9, <1>11, <1>12, <1>13, <1>14 DEF Next, Fifo!Next

(* The types, the counts and the rings hold in every reachable state.      *)
THEOREM QueueInvariant == Spec => []QInv
BY InitQueues, NextQueues, PTL DEF Spec

(* The pointers and counts keep their types: no count falls below zero,    *)
(* and no pointer that is followed is null.                                *)
THEOREM QueueTypes == Spec => []TypeOK
<1>1. QInv => TypeOK
    BY DEF QInv
<1> QED  BY <1>1, QueueInvariant, PTL

(* queue.rs with_entry/from_entry: a list owns one reference to each entry *)
(* linked on it, so no linked entry is freed.                              *)
THEOREM CountsAreOwners == Spec => []CountsMatch
<1>1. QInv => CountsMatch
    BY DEF QInv
<1> QED  BY <1>1, QueueInvariant, PTL

(* queue.rs push/pop/release: the pointers of a queue form one ring, and   *)
(* an entry is on one at most.                                             *)
THEOREM PointersFormRings == Spec => []ListsAreRings
<1>1. QInv => ListsAreRings
    <2> SUFFICES ASSUME NEW f, Rings(link, f)
                 PROVE  ListsAreRings
        BY DEF QInv
    <2>1. \A q \in Queue : f[q] \in Lists /\ IsRing(link, q, f[q]) /\ Chain(q) = f[q]
        BY ReadRing DEF Chain
    <2> QED  BY <2>1 DEF Rings, ListsAreRings
<1> QED  BY <1>1, QueueInvariant, PTL

(* The linked lists are the FIFO queues the executor relies on: each       *)
(* method of queue.rs does what FifoQueues promises.                       *)
THEOREM ImplementsFifo == Spec => RefinesFifo
BY InitQueues, NextQueues, QueueInvariant, PTL DEF Spec, RefinesFifo, Fifo!Spec
=============================================================================
