--------------------------- MODULE MempoolProofs ----------------------------
(***************************************************************************)
(* Facts about the operators of Mempool, and the facts about sequences and *)
(* sets of naturals that they and the other proof modules rest on.         *)
(***************************************************************************)
EXTENDS Mempool, SequenceTheorems, FiniteSetTheorems, WellFoundedInduction, TLAPS

-----------------------------------------------------------------------------
(* Sequences *)

\* A function on 1 .. n with values in S is a sequence over S.
LEMMA FunctionIsSeq ==
  ASSUME NEW S, NEW n \in Nat, NEW f \in [1 .. n -> S]
  PROVE  f \in Seq(S) /\ Len(f) = n
BY SeqDef, LenProperties

\* A prefix of a sequence, cut at its length, is a sequence over the same set.
LEMMA PrefixType ==
  ASSUME NEW S, NEW s \in Seq(S), NEW k \in Nat
  PROVE  SubSeq(s, 1, IF k < Len(s) THEN k ELSE Len(s)) \in Seq(S)
<1> DEFINE m == IF k < Len(s) THEN k ELSE Len(s)
<1>1. m \in Int /\ m <= Len(s)
  BY LenProperties
<1>2. \A i \in 1 .. m : s[i] \in S
  BY <1>1, LenProperties, ElementOfSeq
<1> QED
  BY <1>1, <1>2, SubSeqProperties

\* So is what follows a prefix.
LEMMA SuffixType ==
  ASSUME NEW S, NEW s \in Seq(S), NEW k \in Nat
  PROVE  SubSeq(s, k + 1, Len(s)) \in Seq(S)
<1>1. \A i \in k + 1 .. Len(s) : s[i] \in S
  BY LenProperties, ElementOfSeq
<1> QED
  BY <1>1, LenProperties, SubSeqProperties

\* A non-empty set of naturals has a least element.
LEMMA LeastElement ==
  ASSUME NEW S \in SUBSET Nat, S # {}
  PROVE  \E i \in S : \A j \in S : i <= j
<1> DEFINE R == {ss \in Nat \X Nat : ss[1] < ss[2]}
<1>1. IsWellFoundedOn(R, Nat)
  BY NatLessThanWellFounded, Zenon DEF OpToRel
<1>2. PICK i \in S : \A j \in S : ~ (<<j, i>> \in R)
  BY <1>1, WFMin
<1>3. \A j \in S : ~ (j < i)
  BY <1>2
<1> QED
  BY <1>3

\* In a set of positions with at least k elements there is a k-th one.
LEMMA NthExists ==
  ASSUME NEW n \in Nat, NEW S, \A j \in S : j \in Nat /\ 1 <= j /\ j <= n,
         NEW k \in Nat, 1 <= k, k <= Cardinality(S)
  PROVE  Nth(S, k) \in S /\ Cardinality({j \in S : j <= Nth(S, k)}) = k
<1> DEFINE Below(i) == {j \in S : j <= i}
<1>1. IsFiniteSet(S) /\ Cardinality(S) \in Nat
  <2>1. IsFiniteSet(1 .. n) /\ S \in SUBSET (1 .. n)
    BY FS_Interval
  <2> QED
    BY <2>1, FS_Subset, FS_CardinalityType
<1>2. \A i \in Int : IsFiniteSet(Below(i)) /\ Cardinality(Below(i)) \in Nat
  BY <1>1, FS_Subset, FS_CardinalityType
<1> DEFINE T == {i \in Nat : 1 <= i /\ i <= n /\ k <= Cardinality(Below(i))}
<1>3. n \in T
  <2>1. Below(n) = S
    OBVIOUS
  <2>2. S # {}
    BY FS_EmptySet
  <2> QED
    BY <2>1, <2>2
<1>4. PICK i \in T : \A j \in T : i <= j
  <2>1. T \in SUBSET Nat /\ T # {}
    BY <1>3
  <2> HIDE DEF T
  <2> QED
    BY <2>1, LeastElement
<1>5. Cardinality(Below(i - 1)) < k
  <2>1. CASE i = 1
    <3>1. Below(i - 1) = {}
      BY <2>1
    <3> QED
      BY <3>1, FS_EmptySet
  <2>2. CASE i # 1
    BY <1>2, <1>4, <2>2
  <2> QED
    BY <2>1, <2>2
<1>6. i \in S
  <2>1. ASSUME i \notin S PROVE Below(i) = Below(i - 1)
    BY <2>1
  <2> QED
    BY <1>2, <1>4, <1>5, <2>1
<1>7. Cardinality(Below(i)) = k
  <2>1. \A j \in S : j <= i <=> j <= i - 1 \/ j = i
    OBVIOUS
  <2>2. Below(i) = Below(i - 1) \cup {i}
    BY <1>6, <2>1
  <2>3. i \notin Below(i - 1) /\ IsFiniteSet(Below(i - 1))
    BY <1>2
  <2>4. Cardinality(Below(i)) = Cardinality(Below(i - 1)) + 1
    <3> HIDE DEF Below
    <3> QED
      BY <2>2, <2>3, FS_AddElement
  <2>5. Cardinality(Below(i)) \in Nat /\ Cardinality(Below(i - 1)) \in Nat
    BY <1>2
  <2> HIDE DEF Below
  <2> QED
    BY <1>4, <1>5, <2>4, <2>5
<1> QED
  BY <1>6, <1>7 DEF Nth

\* What is left of a sequence at some of its positions is a sequence over the same set.
LEMMA ElementsAtType ==
  ASSUME NEW T, NEW s \in Seq(T), NEW S, \A i \in S : i \in DOMAIN s
  PROVE  ElementsAt(s, S) \in Seq(T)
<1>1. Len(s) \in Nat /\ DOMAIN s = 1 .. Len(s)
  BY LenProperties
<1>2. \A i \in S : i \in Nat /\ 1 <= i /\ i <= Len(s)
  BY <1>1
<1>3. Cardinality(S) \in Nat
  <2>1. IsFiniteSet(1 .. Len(s)) /\ S \in SUBSET (1 .. Len(s))
    BY <1>1, FS_Interval
  <2> QED
    BY <2>1, FS_Subset, FS_CardinalityType
<1>4. \A k \in 1 .. Cardinality(S) : s[Nth(S, k)] \in T
  <2> TAKE k \in 1 .. Cardinality(S)
  <2>1. k \in Nat /\ 1 <= k /\ k <= Cardinality(S)
    BY <1>3
  <2>2. Nth(S, k) \in S
    BY <1>1, <1>2, <2>1, NthExists
  <2> QED
    BY <1>1, <2>2, ElementOfSeq
<1>5. ElementsAt(s, S) \in [1 .. Cardinality(S) -> T]
  BY <1>4 DEF ElementsAt
<1> QED
  BY <1>3, <1>5, FunctionIsSeq

-----------------------------------------------------------------------------
(* The pool *)

\* A pool stays a pool when a transaction is pushed: the clean-up of push finds a
\* remembered hash to forget, because it comes right after one was added.
LEMMA PushType ==
  ASSUME NEW T, NEW mp \in MemPools(T), NEW t \in T
  PROVE  Push(mp, t) \in MemPools(T)
<1> DEFINE q == Append(mp.queue, t)
           o == Append(mp.seen_order, t)
           longer == [queue |-> q, seen |-> mp.seen \cup {t}, seen_order |-> o]
<1>1. q \in Seq(T) /\ o \in Seq(T) /\ o # << >>
  BY AppendProperties DEF MemPools
<1>2. Head(o) \in T /\ Tail(o) \in Seq(T)
  BY <1>1, HeadTailProperties
<1>3. longer \in MemPools(T)
  BY <1>1 DEF MemPools
<1>4. [longer EXCEPT !.seen = @ \ {Head(longer.seen_order)},
                     !.seen_order = Tail(@)] \in MemPools(T)
  BY <1>1, <1>2 DEF MemPools
<1>5. Forget(longer) \in MemPools(T)
  BY <1>3, <1>4 DEF Forget
<1> QED
  BY <1>5 DEF Push

\* What is taken out of a pool is a sequence of its transactions, and leaves a pool.
LEMMA PopType ==
  ASSUME NEW T, NEW mp \in MemPools(T), NEW count \in Nat
  PROVE  FirstMany(mp, count) \in Seq(T) /\ PopMany(mp, count) \in MemPools(T)
<1>1. mp.queue \in Seq(T)
  BY DEF MemPools
<1>2. FirstMany(mp, count) \in Seq(T)
  BY <1>1, PrefixType DEF FirstMany
<1>3. SubSeq(mp.queue, count + 1, Len(mp.queue)) \in Seq(T)
  BY <1>1, SuffixType
<1> QED
  BY <1>2, <1>3 DEF PopMany, MemPools

\* So does what is removed because a block includes it.
LEMMA RemoveIncludedType ==
  ASSUME NEW T, NEW mp \in MemPools(T), NEW txs
  PROVE  RemoveIncluded(mp, txs) \in MemPools(T)
<1> DEFINE included == {txs[i] : i \in DOMAIN txs}
           S == {i \in DOMAIN mp.queue : mp.queue[i] \notin included}
<1>1. mp.queue \in Seq(T)
  BY DEF MemPools
<1>2. ElementsAt(mp.queue, S) \in Seq(T)
  <2>1. \A i \in S : i \in DOMAIN mp.queue
    OBVIOUS
  <2> HIDE DEF S
  <2> QED
    BY <1>1, <2>1, ElementsAtType
<1>3. RemoveIncluded(mp, txs) = [mp EXCEPT !.queue = ElementsAt(mp.queue, S)]
  BY DEF RemoveIncluded
<1> HIDE DEF S
<1> QED
  BY <1>2, <1>3 DEF MemPools

-----------------------------------------------------------------------------
(* What the pool keeps *)

Queued(mp) == {mp.queue[i] : i \in DOMAIN mp.queue}

\* Every position of S is the k-th one for some k.
LEMMA NthOnto ==
  ASSUME NEW n \in Nat, NEW S, \A j \in S : j \in Nat /\ 1 <= j /\ j <= n, NEW i \in S
  PROVE  \E k \in 1 .. Cardinality(S) : Nth(S, k) = i
<1> DEFINE Below(x) == {j \in S : j <= x}
           k == Cardinality(Below(i))
<1>1. IsFiniteSet(S) /\ Cardinality(S) \in Nat
  <2>1. IsFiniteSet(1 .. n) /\ S \in SUBSET (1 .. n)
    BY FS_Interval
  <2> QED
    BY <2>1, FS_Subset, FS_CardinalityType
<1>2. \A x \in S : /\ IsFiniteSet(Below(x)) /\ Cardinality(Below(x)) \in Nat
                   /\ Cardinality(Below(x)) <= Cardinality(S)
  <2> TAKE x \in S
  <2>1. Below(x) \in SUBSET S
    OBVIOUS
  <2> HIDE DEF Below
  <2> QED
    BY <1>1, <2>1, FS_Subset, FS_CardinalityType
<1>3. \A x, y \in S : x < y => Cardinality(Below(x)) < Cardinality(Below(y))
  <2> SUFFICES ASSUME NEW x \in S, NEW y \in S, x < y
               PROVE  Cardinality(Below(x)) < Cardinality(Below(y))
    OBVIOUS
  <2>1. Below(x) \in SUBSET Below(y) /\ y \in Below(y) /\ y \notin Below(x)
    OBVIOUS
  <2> HIDE DEF Below
  <2>2. Cardinality(Below(x)) <= Cardinality(Below(y))
    BY <1>2, <2>1, FS_Subset
  <2>3. Cardinality(Below(x)) # Cardinality(Below(y))
    BY <1>2, <2>1, FS_Subset
  <2> QED
    BY <1>2, <2>2, <2>3
<1>4. k \in Nat /\ 1 <= k /\ k <= Cardinality(S)
  <2>1. i \in Below(i)
    OBVIOUS
  <2> HIDE DEF Below
  <2> QED
    BY <1>2, <2>1, FS_EmptySet
<1>5. Nth(S, k) \in S /\ Cardinality(Below(Nth(S, k))) = k
  <2> HIDE DEF k
  <2> QED
    BY <1>4, NthExists
<1>6. Nth(S, k) = i
  <2> DEFINE x == Nth(S, k)
  <2>1. x \in S /\ Cardinality(Below(x)) = Cardinality(Below(i))
    BY <1>5
  <2> HIDE DEF x, k
  <2>2. Cardinality(Below(x)) \in Nat /\ x \in Nat /\ i \in Nat
    BY <1>2, <2>1
  <2>3. ~(x < i) /\ ~(i < x)
    <3> HIDE DEF Below
    <3> QED
      BY <1>2, <1>3, <2>1, <2>2
  <2>4. x = i
    BY <2>2, <2>3
  <2> QED
    BY <2>4 DEF x
<1> QED
  BY <1>1, <1>4, <1>6

\* push adds its transaction to the queue when it remembers it, and drops none.
LEMMA PushKeeps ==
  ASSUME NEW T, NEW mp \in MemPools(T), NEW t \in T
  PROVE  /\ Queued(mp) \subseteq Queued(Push(mp, t))
         /\ \A x \in Push(mp, t).seen : x \in mp.seen \/ x \in Queued(Push(mp, t))
<1> DEFINE q == Append(mp.queue, t)
           longer == [queue |-> q, seen |-> mp.seen \cup {t},
                      seen_order |-> Append(mp.seen_order, t)]
<1>1. CASE ~Accepts(mp, t)
  BY <1>1 DEF Push
<1>2. CASE Accepts(mp, t)
  <2>1. Push(mp, t) = Forget(longer)
    BY <1>2 DEF Push
  <2>2. Push(mp, t).queue = q /\ Push(mp, t).seen \subseteq mp.seen \cup {t}
    BY <2>1 DEF Forget
  <2>3. /\ Len(mp.queue) \in Nat /\ DOMAIN mp.queue = 1 .. Len(mp.queue)
        /\ DOMAIN q = 1 .. Len(mp.queue) + 1
        /\ q[Len(mp.queue) + 1] = t
        /\ \A i \in 1 .. Len(mp.queue) : q[i] = mp.queue[i]
    BY AppendProperties, LenProperties DEF MemPools
  <2> HIDE DEF q
  <2>4. Queued(mp) \subseteq {q[i] : i \in DOMAIN q}
    BY <2>3 DEF Queued
  <2>5. t \in {q[i] : i \in DOMAIN q}
    BY <2>3
  <2> QED
    BY <2>2, <2>4, <2>5 DEF Queued
<1> QED
  BY <1>1, <1>2

\* A queued transaction is popped or stays queued.
LEMMA PopKeeps ==
  ASSUME NEW T, NEW mp \in MemPools(T), NEW count \in Nat
  PROVE  /\ PopMany(mp, count).seen = mp.seen
         /\ \A t \in Queued(mp) :
              \/ t \in Queued(PopMany(mp, count))
              \/ \E i \in DOMAIN FirstMany(mp, count) : t = FirstMany(mp, count)[i]
<1> DEFINE q == mp.queue
           m == IF count < Len(q) THEN count ELSE Len(q)
           rest == SubSeq(q, count + 1, Len(q))
<1>1. q \in Seq(T) /\ Len(q) \in Nat /\ DOMAIN q = 1 .. Len(q)
  BY LenProperties DEF MemPools
<1>2. /\ PopMany(mp, count) = [mp EXCEPT !.queue = rest]
      /\ FirstMany(mp, count) = SubSeq(q, 1, m)
  BY DEF PopMany, FirstMany
<1>3. PopMany(mp, count).seen = mp.seen /\ PopMany(mp, count).queue = rest
  BY <1>2 DEF MemPools
<1> HIDE DEF q
<1>4. \A i \in 1 .. Len(q) : q[i] \in T
  BY <1>1, ElementOfSeq
<1>5. /\ DOMAIN SubSeq(q, 1, m) = 1 .. m
      /\ \A i \in 1 .. m : SubSeq(q, 1, m)[i] = q[i]
  BY <1>1, <1>4, SubSeqProperties
<1>6. \A i \in count + 1 .. Len(q) : i - count \in DOMAIN rest /\ rest[i - count] = q[i]
  BY <1>1, <1>4, SubSeqProperties
<1> HIDE DEF rest
<1>7. ASSUME NEW i \in 1 .. Len(q)
      PROVE  q[i] \in {rest[k] : k \in DOMAIN rest} \/ i \in 1 .. m
  BY <1>1, <1>6
<1>8. \A t \in Queued(mp) : t \in {rest[k] : k \in DOMAIN rest} \/ \E i \in 1 .. m : t = q[i]
  BY <1>1, <1>7 DEF Queued, q
<1> HIDE DEF m
<1>9. Queued(PopMany(mp, count)) = {rest[k] : k \in DOMAIN rest}
  BY <1>3 DEF Queued
<1>10. \A i \in 1 .. m : i \in DOMAIN FirstMany(mp, count) /\ FirstMany(mp, count)[i] = q[i]
  BY <1>2, <1>5
<1>11. ASSUME NEW t \in Queued(mp)
       PROVE  \/ t \in Queued(PopMany(mp, count))
              \/ \E i \in DOMAIN FirstMany(mp, count) : t = FirstMany(mp, count)[i]
  BY <1>8, <1>9, <1>10
<1> QED
  BY <1>3, <1>11

\* A queued transaction is in the block or stays queued.
LEMMA RemoveKeeps ==
  ASSUME NEW T, NEW mp \in MemPools(T), NEW txs
  PROVE  /\ RemoveIncluded(mp, txs).seen = mp.seen
         /\ \A t \in Queued(mp) :
              \/ t \in Queued(RemoveIncluded(mp, txs))
              \/ \E i \in DOMAIN txs : t = txs[i]
<1> DEFINE included == {txs[i] : i \in DOMAIN txs}
           q == mp.queue
           S == {i \in DOMAIN q : q[i] \notin included}
           left == ElementsAt(q, S)
<1>1. Len(q) \in Nat /\ DOMAIN q = 1 .. Len(q)
  BY LenProperties DEF MemPools
<1>2. RemoveIncluded(mp, txs).seen = mp.seen /\ RemoveIncluded(mp, txs).queue = left
  BY DEF RemoveIncluded, MemPools
<1>3. \A j \in S : j \in Nat /\ 1 <= j /\ j <= Len(q)
  BY <1>1
<1>4. ASSUME NEW i \in S PROVE \E k \in DOMAIN left : left[k] = q[i]
  <2> HIDE DEF S
  <2>1. PICK k \in 1 .. Cardinality(S) : Nth(S, k) = i
    BY <1>1, <1>3, NthOnto
  <2> QED
    BY <2>1 DEF ElementsAt
<1>5. \A i \in DOMAIN q : q[i] \in included \/ \E k \in DOMAIN left : left[k] = q[i]
  <2> HIDE DEF left
  <2> QED
    BY <1>4
<1> HIDE DEF left, S
<1> QED
  BY <1>2, <1>5 DEF Queued

=============================================================================
