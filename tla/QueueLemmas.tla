---------------------------- MODULE QueueLemmas -----------------------------
(***************************************************************************)
(* What the sequence operators the queues and the call stack are modelled  *)
(* with do to the elements of a sequence, for sequences of any length.     *)
(***************************************************************************)
EXTENDS Naturals, Sequences, SequencesExt, SequenceTheorems, TLAPS

(* The elements of a sequence are the values at its positions. *)
LEMMA RangeIndex ==
    ASSUME NEW S, NEW s \in Seq(S)
    PROVE  /\ Range(s) \subseteq S
           /\ \A x : x \in Range(s) <=> \E i \in 1..Len(s) : s[i] = x
           /\ IsInjective(s) <=> \A i, j \in 1..Len(s) : s[i] = s[j] => i = j
<1>1. DOMAIN s = 1..Len(s) /\ \A i \in 1..Len(s) : s[i] \in S
    BY LenProperties
<1> QED  BY <1>1 DEF Range, IsInjective

LEMMA EmptyFacts ==
    ASSUME NEW S
    PROVE  <<>> \in Seq(S) /\ Len(<<>>) = 0 /\ Range(<<>>) = {} /\ IsInjective(<<>>)
<1>1. <<>> \in Seq(S) /\ Len(<<>>) = 0
    BY EmptySeq
<1>2. \A i \in 1..Len(<<>>) : FALSE
    BY <1>1
<1> QED  BY <1>1, <1>2, RangeIndex

(* Queue::push on an entry that is on no queue: the new element comes      *)
(* last, the others stay where they are.                                   *)
LEMMA AppendFacts ==
    ASSUME NEW S, NEW s \in Seq(S), NEW e \in S
    PROVE  /\ Append(s, e) \in Seq(S)
           /\ Range(Append(s, e)) = Range(s) \cup {e}
           /\ IsInjective(s) /\ e \notin Range(s) => IsInjective(Append(s, e))
<1>1. /\ Append(s, e) \in Seq(S)
      /\ Len(Append(s, e)) = Len(s) + 1
      /\ \A i \in 1..Len(s) : Append(s, e)[i] = s[i]
      /\ Append(s, e)[Len(s) + 1] = e
    BY AppendProperties
<1>2. Len(s) \in Nat
    BY LenProperties
<1> DEFINE a == Append(s, e)
<1>3. /\ \A x : x \in Range(s) <=> \E i \in 1..Len(s) : s[i] = x
      /\ IsInjective(s) <=> \A i, j \in 1..Len(s) : s[i] = s[j] => i = j
    BY RangeIndex
<1>4. /\ \A x : x \in Range(a) <=> \E i \in 1..Len(a) : a[i] = x
      /\ IsInjective(a) <=> \A i, j \in 1..Len(a) : a[i] = a[j] => i = j
    BY <1>1, RangeIndex
<1> HIDE DEF a
<1>5. \A i \in 1..Len(s) + 1 : i \in 1..Len(s) \/ i = Len(s) + 1
    BY <1>2
<1>6. Range(a) = Range(s) \cup {e}
    <2>1. ASSUME NEW x \in Range(a)  PROVE x \in Range(s) \cup {e}
        BY <1>1, <1>3, <1>4, <1>5 DEF a
    <2>2. ASSUME NEW x \in Range(s)  PROVE x \in Range(a)
        <3>1. PICK i \in 1..Len(s) : s[i] = x
            BY <1>3
        <3>2. i \in 1..Len(a) /\ a[i] = x
            BY <3>1, <1>1, <1>2 DEF a
        <3> QED  BY <3>2, <1>4
    <2>3. e \in Range(a)
        <3>1. Len(a) \in 1..Len(a) /\ a[Len(a)] = e
            BY <1>1, <1>2 DEF a
        <3> QED  BY <3>1, <1>4
    <2> QED  BY <2>1, <2>2, <2>3
<1>7. ASSUME IsInjective(s), e \notin Range(s)
      PROVE  IsInjective(a)
    <2>1. ASSUME NEW i \in 1..Len(a), NEW j \in 1..Len(a), a[i] = a[j]
          PROVE  i = j
        <3>1. \A k \in 1..Len(s) : s[k] # e
            BY <1>3, <1>7
        <3> QED  BY <1>1, <1>3, <1>5, <1>7, <2>1, <3>1 DEF a
    <2> QED  BY <2>1, <1>4
<1> QED  BY <1>1, <1>6, <1>7 DEF a

(* Queue::pop: the first element goes, the others keep their order.        *)
LEMMA TailFacts ==
    ASSUME NEW S, NEW s \in Seq(S), s # <<>>
    PROVE  /\ Tail(s) \in Seq(S) /\ Head(s) \in S /\ Head(s) \in Range(s)
           /\ Range(s) = Range(Tail(s)) \cup {Head(s)}
           /\ IsInjective(s) => IsInjective(Tail(s)) /\ Head(s) \notin Range(Tail(s))
<1>1. /\ Head(s) \in S /\ Tail(s) \in Seq(S)
      /\ Len(Tail(s)) = Len(s) - 1
      /\ \A i \in 1..Len(Tail(s)) : Tail(s)[i] = s[i + 1]
    BY HeadTailProperties
<1>2. Len(s) \in Nat \ {0} /\ Head(s) = s[1]
    BY EmptySeq
<1>3. Head(s) \in Range(s)
    BY <1>2, RangeIndex
<1> DEFINE u == Tail(s)
<1>4. /\ \A x : x \in Range(s) <=> \E i \in 1..Len(s) : s[i] = x
      /\ IsInjective(s) <=> \A i, j \in 1..Len(s) : s[i] = s[j] => i = j
    BY RangeIndex
<1>5. /\ \A x : x \in Range(u) <=> \E i \in 1..Len(u) : u[i] = x
      /\ IsInjective(u) <=> \A i, j \in 1..Len(u) : u[i] = u[j] => i = j
    BY <1>1, RangeIndex
<1>6. \A i \in 1..Len(u) : i + 1 \in 1..Len(s) /\ i + 1 # 1 /\ u[i] = s[i + 1]
    BY <1>1, <1>2
<1>7. \A i \in 1..Len(s) : i # 1 => i - 1 \in 1..Len(u) /\ u[i - 1] = s[i]
    BY <1>1, <1>2
<1>8. Range(u) \subseteq Range(s)
    BY <1>4, <1>5, <1>6
<1> HIDE DEF u
<1>9. ASSUME NEW x \in Range(s)
      PROVE  x \in Range(u) \cup {Head(s)}
    <2>1. PICK i \in 1..Len(s) : s[i] = x
        BY <1>4
    <2>2. CASE i = 1
        BY <2>1, <2>2, <1>2
    <2>3. CASE i # 1
        BY <2>1, <2>3, <1>5, <1>7
    <2> QED  BY <2>2, <2>3
<1>10. ASSUME IsInjective(s)
       PROVE  IsInjective(u) /\ Head(s) \notin Range(u)
    <2>1. ASSUME NEW i \in 1..Len(u), NEW j \in 1..Len(u), u[i] = u[j]
          PROVE  i = j
        <3>1. i + 1 = j + 1
            BY <2>1, <1>4, <1>6, <1>10
        <3> QED  BY <3>1
    <2>2. \A i \in 1..Len(u) : u[i] # s[1]
        <3>1. 1 \in 1..Len(s)
            BY <1>2
        <3> QED  BY <3>1, <1>4, <1>6, <1>10
    <2> QED  BY <2>1, <2>2, <1>2, <1>5
<1> QED  BY <1>1, <1>3, <1>8, <1>9, <1>10 DEF u

(* Returning from a poll: the last frame goes.                             *)
LEMMA FrontFacts ==
    ASSUME NEW S, NEW s \in Seq(S), s # <<>>
    PROVE  /\ Front(s) \in Seq(S) /\ Last(s) \in S
           /\ Len(s) \in Nat \ {0}
           /\ Len(Front(s)) = Len(s) - 1
           /\ \A i \in 1..Len(Front(s)) : Front(s)[i] = s[i]
<1>1. Len(s) \in Nat \ {0} /\ \A i \in 1..Len(s) : s[i] \in S
    BY EmptySeq, LenProperties
<1> DEFINE m == Len(s) - 1
<1>2. m \in Nat /\ \A i \in 1..m : s[i] \in S
    BY <1>1
<1>4. /\ SubSeq(s, 1, m) \in Seq(S)
      /\ Len(SubSeq(s, 1, m)) = IF 1 <= m THEN m - 1 + 1 ELSE 0
      /\ \A i \in 1..(m - 1 + 1) : SubSeq(s, 1, m)[i] = s[1 + i - 1]
    <2> HIDE DEF m
    <2> QED  BY <1>2, SubSeqProperties
<1> HIDE DEF m
<1>5. Len(SubSeq(s, 1, m)) = m
    <2>1. CASE m = 0
        BY <2>1, <1>4
    <2>2. CASE m # 0
        BY <2>2, <1>2, <1>4
    <2> QED  BY <2>1, <2>2
<1>6. \A i \in 1..m : SubSeq(s, 1, m)[i] = s[i]
    BY <1>2, <1>4
<1> QED  BY <1>1, <1>4, <1>5, <1>6 DEF Front, Last, m

(* QueueEntry::unqueue, Queue::release: when no element occurs twice, one  *)
(* element goes and the others keep their order.                           *)
LEMMA RemoveFirstFacts ==
    ASSUME NEW S, NEW s \in Seq(S), NEW e, IsInjective(s)
    PROVE  /\ RemoveFirst(s, e) \in Seq(S)
           /\ Range(RemoveFirst(s, e)) = Range(s) \ {e}
           /\ IsInjective(RemoveFirst(s, e))
           /\ e \notin Range(s) => RemoveFirst(s, e) = s
           /\ \A k \in 1..Len(s) : s[k] = e =>
                /\ Len(RemoveFirst(s, e)) = Len(s) - 1
                /\ \A i \in 1..Len(s) - 1 :
                     RemoveFirst(s, e)[i] = IF i < k THEN s[i] ELSE s[i + 1]
<1>1. /\ Len(s) \in Nat
      /\ \A i \in 1..Len(s) : s[i] \in S
    BY LenProperties
<1>2. /\ \A x : x \in Range(s) <=> \E i \in 1..Len(s) : s[i] = x
      /\ \A i, j \in 1..Len(s) : s[i] = s[j] => i = j
    BY RangeIndex
<1>3. CASE e \notin Range(s)
    BY <1>2, <1>3 DEF RemoveFirst
<1>4. CASE e \in Range(s)
    <2>1. PICK k \in 1..Len(s) : s[k] = e
        BY <1>2, <1>4
    <2>2. \A j \in 1..Len(s) : s[j] = e => j = k
        BY <1>2, <2>1
    <2> DEFINE r == RemoveFirst(s, e)
               p == SubSeq(s, 1, k - 1)
               q == SubSeq(s, k + 1, Len(s))
    <2>3. r = p \o q
        <3>1. SelectInSeq(s, LAMBDA v : v = e) = k
            <4>1. {i \in 1..Len(s) : s[i] = e} = {k}
                BY <2>1, <2>2
            <4>2. Min({k}) = k
                BY <1>1 DEF Min
            <4> QED  BY <4>1, <4>2 DEF SelectInSeq
        <3> QED  BY <2>1, <3>1 DEF RemoveFirst, RemoveAt
    <2> HIDE DEF r
    <2>4. /\ p \in Seq(S) /\ Len(p) = k - 1
          /\ \A i \in 1..k - 1 : p[i] = s[i]
        <3>1. \A i \in 1..k - 1 : s[i] \in S
            BY <1>1
        <3>2. /\ p \in Seq(S)
              /\ Len(p) = IF 1 <= k - 1 THEN (k - 1) - 1 + 1 ELSE 0
              /\ \A i \in 1..((k - 1) - 1 + 1) : p[i] = s[1 + i - 1]
            <4> DEFINE m == k - 1
            <4>1. m \in Int /\ \A i \in 1..m : s[i] \in S
                BY <3>1
            <4> HIDE DEF m
            <4>2. /\ SubSeq(s, 1, m) \in Seq(S)
                  /\ Len(SubSeq(s, 1, m)) = IF 1 <= m THEN m - 1 + 1 ELSE 0
                  /\ \A i \in 1..(m - 1 + 1) : SubSeq(s, 1, m)[i] = s[1 + i - 1]
                BY <4>1, SubSeqProperties
            <4> QED  BY <4>2 DEF m
        <3> QED  BY <3>2
    <2>5. /\ q \in Seq(S) /\ Len(q) = Len(s) - k
          /\ \A i \in 1..Len(s) - k : q[i] = s[k + i]
        <3> DEFINE l == k + 1
                   n == Len(s)
        <3>1. /\ l \in Int /\ n \in Int
              /\ \A i \in l..n : s[i] \in S
            BY <1>1
        <3>2. /\ SubSeq(s, l, n) \in Seq(S)
              /\ Len(SubSeq(s, l, n)) = IF l <= n THEN n - l + 1 ELSE 0
              /\ \A i \in 1..(n - l + 1) : SubSeq(s, l, n)[i] = s[l + i - 1]
            <4> HIDE DEF l, n
            <4> QED  BY <3>1, SubSeqProperties
        <3> QED  BY <3>2, <1>1
    <2> HIDE DEF p, q
    <2>6. /\ r \in Seq(S) /\ Len(r) = Len(s) - 1
          /\ \A i \in 1..Len(s) - 1 : r[i] = IF i < k THEN s[i] ELSE s[i + 1]
        <3>1. /\ p \o q \in Seq(S)
              /\ Len(p \o q) = Len(p) + Len(q)
              /\ \A i \in 1..Len(p) + Len(q) : (p \o q)[i] =
                     IF i <= Len(p) THEN p[i] ELSE q[i - Len(p)]
            BY <2>4, <2>5, ConcatProperties
        <3>2. Len(r) = Len(s) - 1
            BY <1>1, <2>3, <2>4, <2>5, <3>1
        <3>3. ASSUME NEW i \in 1..Len(s) - 1
              PROVE  r[i] = IF i < k THEN s[i] ELSE s[i + 1]
            <4>1. i \in 1..Len(p) + Len(q)
                BY <1>1, <2>4, <2>5
            <4>2. CASE i < k
                BY <4>1, <4>2, <1>1, <2>3, <2>4, <3>1
            <4>3. CASE ~(i < k)
                <5>1. i - (k - 1) \in 1..Len(s) - k /\ k + (i - (k - 1)) = i + 1
                    BY <4>3, <1>1
                <5> QED  BY <4>1, <4>3, <5>1, <1>1, <2>3, <2>4, <2>5, <3>1
            <4> QED  BY <4>2, <4>3
        <3> QED  BY <2>3, <3>1, <3>2, <3>3
    <2>7. /\ \A x : x \in Range(r) <=> \E i \in 1..Len(r) : r[i] = x
          /\ IsInjective(r) <=> \A i, j \in 1..Len(r) : r[i] = r[j] => i = j
        BY <2>6, RangeIndex
    <2> DEFINE src(i) == IF i < k THEN i ELSE i + 1
    <2>8. \A i \in 1..Len(r) :
             src(i) \in 1..Len(s) /\ src(i) # k /\ r[i] = s[src(i)]
        BY <1>1, <2>6
    <2>9. \A i, j \in 1..Len(r) : src(i) = src(j) => i = j
        BY <1>1, <2>6
    <2>10. \A j \in 1..Len(s) : j # k => \E i \in 1..Len(r) : src(i) = j
        <3> SUFFICES ASSUME NEW j \in 1..Len(s), j # k
                     PROVE  \E i \in 1..Len(r) : src(i) = j
            OBVIOUS
        <3>1. CASE j < k
            <4>1. j \in 1..Len(r) /\ src(j) = j
                BY <3>1, <1>1, <2>6
            <4> QED  BY <4>1
        <3>2. CASE j > k
            <4>1. j - 1 \in 1..Len(r) /\ src(j - 1) = j
                BY <3>2, <1>1, <2>6
            <4> QED  BY <4>1
        <3> QED  BY <3>1, <3>2
    <2> HIDE DEF src
    <2>11. Range(r) = Range(s) \ {e}
        <3>1. ASSUME NEW x \in Range(r)  PROVE x \in Range(s) \ {e}
            BY <3>1, <1>2, <2>1, <2>7, <2>8
        <3>2. ASSUME NEW x \in Range(s), x # e  PROVE x \in Range(r)
            <4>1. PICK j \in 1..Len(s) : s[j] = x
                BY <1>2
            <4>2. PICK i \in 1..Len(r) : src(i) = j
                BY <2>1, <2>10, <3>2, <4>1
            <4> QED  BY <4>1, <4>2, <2>7, <2>8
        <3> QED  BY <3>1, <3>2
    <2>12. IsInjective(r)
        BY <1>2, <2>7, <2>8, <2>9
    <2>13. \A j \in 1..Len(s) : s[j] = e => j = k
        BY <2>2
    <2> QED  BY <1>4, <2>6, <2>11, <2>12, <2>13 DEF r
<1> QED  BY <1>3, <1>4
-----------------------------------------------------------------------------
(* The order of two elements. *)

Before(s, a, b) == \E i, j \in 1..Len(s) : i < j /\ s[i] = a /\ s[j] = b

(* Nothing is before the first element, the last one is before nothing.    *)
LEMMA EndFacts ==
    ASSUME NEW S, NEW s \in Seq(S), IsInjective(s), NEW a, NEW b, Before(s, a, b)
    PROVE  s # <<>> /\ b # Head(s) /\ a # Last(s) /\ a \in Range(s) /\ b \in Range(s) /\ a # b
<1>1. PICK i \in 1..Len(s), j \in 1..Len(s) : i < j /\ s[i] = a /\ s[j] = b
    BY DEF Before
<1>2. Len(s) \in Nat /\ \A k, l \in 1..Len(s) : s[k] = s[l] => k = l
    BY RangeIndex, LenProperties
<1>3. s # <<>>
    BY <1>1, <1>2, EmptySeq
<1>4. /\ Head(s) = s[1] /\ 1 \in 1..Len(s) /\ Len(s) \in 1..Len(s)
      /\ Last(s) = s[Len(s)] /\ j # 1 /\ i # Len(s)
    BY <1>1, <1>2, <1>3, EmptySeq DEF Last
<1>5. a \in Range(s) /\ b \in Range(s)
    BY <1>1, RangeIndex
<1> QED  BY <1>1, <1>2, <1>3, <1>4, <1>5

(* Queue::push adds after the elements there are. *)
LEMMA BeforeAppend ==
    ASSUME NEW S, NEW s \in Seq(S), NEW e \in S, NEW a
    PROVE  /\ \A b : Before(s, a, b) => Before(Append(s, e), a, b)
           /\ a \in Range(s) => Before(Append(s, e), a, e)
           /\ Last(Append(s, e)) = e
<1> DEFINE r == Append(s, e)
<1>1. /\ Len(s) \in Nat /\ Len(r) = Len(s) + 1
      /\ \A i \in 1..Len(s) : r[i] = s[i]
      /\ r[Len(s) + 1] = e
    BY AppendProperties, LenProperties
<1>2. r \in Seq(S) /\ r # <<>>
    BY <1>1, AppendProperties, EmptySeq
<1> HIDE DEF r
<1>3. \A i \in 1..Len(s) : i \in 1..Len(r) /\ i < Len(s) + 1
    BY <1>1
<1>4. Len(s) + 1 \in 1..Len(r)
    BY <1>1
<1>5. ASSUME NEW b, Before(s, a, b)
      PROVE  Before(r, a, b)
    <2>1. PICK i \in 1..Len(s), j \in 1..Len(s) : i < j /\ s[i] = a /\ s[j] = b
        BY <1>5 DEF Before
    <2> QED  BY <1>1, <1>3, <2>1 DEF Before
<1>6. ASSUME a \in Range(s)
      PROVE  Before(r, a, e)
    <2>1. PICK i \in 1..Len(s) : s[i] = a
        BY <1>6, RangeIndex
    <2> QED  BY <1>1, <1>3, <1>4, <2>1 DEF Before
<1>7. Last(r) = e
    BY <1>1 DEF Last
<1> QED  BY <1>5, <1>6, <1>7 DEF r

(* QueueEntry::unqueue and Queue::pop leave the others in their order.     *)
LEMMA BeforeRemove ==
    ASSUME NEW S, NEW s \in Seq(S), NEW e, IsInjective(s), NEW a, NEW b,
           Before(s, a, b), a # e, b # e
    PROVE  Before(RemoveFirst(s, e), a, b)
<1> DEFINE r == RemoveFirst(s, e)
<1>1. PICK i \in 1..Len(s), j \in 1..Len(s) : i < j /\ s[i] = a /\ s[j] = b
    BY DEF Before
<1>2. CASE e \notin Range(s)
    <2>1. r = s
        BY <1>2, RemoveFirstFacts
    <2> QED  BY <2>1
<1>3. CASE e \in Range(s)
    <2>1. PICK k \in 1..Len(s) : s[k] = e
        BY <1>3, RangeIndex
    <2>2. /\ Len(s) \in Nat /\ Len(r) = Len(s) - 1
          /\ \A n \in 1..Len(s) - 1 : r[n] = IF n < k THEN s[n] ELSE s[n + 1]
        BY <2>1, RemoveFirstFacts, LenProperties
    <2> HIDE DEF r
    <2>3. i # k /\ j # k
        BY <1>1, <2>1
    <2> DEFINE m == IF i < k THEN i ELSE i - 1
               n == IF j < k THEN j ELSE j - 1
    <2>4. /\ m \in 1..Len(r) /\ r[m] = a
          /\ n \in 1..Len(r) /\ r[n] = b
          /\ m < n
        <3>1. m \in 1..Len(s) - 1 /\ (m < k => m = i) /\ (~(m < k) => m + 1 = i)
            BY <1>1, <2>1, <2>2, <2>3
        <3>2. n \in 1..Len(s) - 1 /\ (n < k => n = j) /\ (~(n < k) => n + 1 = j)
            BY <1>1, <2>1, <2>2, <2>3
        <3>3. m < n
            BY <1>1, <2>1, <2>2, <2>3
        <3> HIDE DEF m, n
        <3> QED  BY <1>1, <2>2, <3>1, <3>2, <3>3
    <2> HIDE DEF m, n
    <2>5. Before(r, a, b)
        BY <2>4 DEF Before
    <2> QED  BY <2>5 DEF r
<1> QED  BY <1>2, <1>3

LEMMA BeforeTail ==
    ASSUME NEW S, NEW s \in Seq(S), IsInjective(s), NEW a, NEW b,
           Before(s, a, b), a # Head(s)
    PROVE  Before(Tail(s), a, b)
<1> DEFINE r == Tail(s)
<1>1. PICK i \in 1..Len(s), j \in 1..Len(s) : i < j /\ s[i] = a /\ s[j] = b
    BY DEF Before
<1>2. s # <<>>
    BY EndFacts
<1>3. /\ Len(s) \in Nat \ {0} /\ Head(s) = s[1]
      /\ Len(r) = Len(s) - 1 /\ \A k \in 1..Len(r) : r[k] = s[k + 1]
    BY <1>2, HeadTailProperties, EmptySeq
<1> HIDE DEF r
<1>4. i # 1 /\ j # 1
    BY <1>1, <1>3
<1>5. i - 1 \in 1..Len(r) /\ j - 1 \in 1..Len(r) /\ i - 1 < j - 1
    BY <1>1, <1>3, <1>4
<1>6. r[i - 1] = a /\ r[j - 1] = b
    BY <1>1, <1>3, <1>5
<1>7. Before(r, a, b)
    BY <1>5, <1>6 DEF Before
<1> QED  BY <1>7 DEF r
=============================================================================
