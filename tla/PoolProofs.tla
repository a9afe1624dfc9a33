----------------------------- MODULE PoolProofs ------------------------------
(***************************************************************************)
(* Theorems about the pool alone: what it remembers is the window of the   *)
(* transactions accepted last, so none is accepted again too early, and    *)
(* its queue is what is left of the accepted ones, in their order.  And    *)
(* about the blocks made of it: calc_merkle_root, level by level, computes *)
(* the tree over their transactions, and its result tells lists apart.     *)
(***************************************************************************)
EXTENDS MempoolMachine, MempoolProofs

-----------------------------------------------------------------------------
(* The window of remembered transactions *)

\* What is remembered when n were accepted
Kept(n) == IF n < MAX_SEEN THEN n ELSE MAX_SEEN

Apart(a) == \A i, j \in DOMAIN a : i < j /\ a[i] = a[j] => j - i > MAX_SEEN

\* o holds the last transactions of a.
Window(o, a) ==
  /\ Len(o) = Kept(Len(a))
  /\ \A i \in 1 .. Len(o) : o[i] = a[Len(a) - Len(o) + i]

Remembers(p, a) ==
  /\ Apart(a)
  /\ Window(p.seen_order, a)
  /\ p.seen = {p.seen_order[i] : i \in DOMAIN p.seen_order}
  /\ IsFiniteSet(p.seen) /\ Cardinality(p.seen) = Len(p.seen_order)

LEMMA RemembersIntro ==
  ASSUME NEW p, NEW a, NEW o, NEW k,
         p.seen_order = o, Apart(a), Window(o, a),
         DOMAIN o = 1 .. k, Len(o) = k, p.seen = {o[i] : i \in 1 .. k},
         IsFiniteSet(p.seen), Cardinality(p.seen) = k
  PROVE  Remembers(p, a)
BY DEF Remembers

LEMMA WindowIsSuffix ==
  ASSUME NEW T, NEW a \in Seq(T), NEW o \in Seq(T), Window(o, a)
  PROVE  o = SubSeq(a, Len(a) - Kept(Len(a)) + 1, Len(a))
<1> DEFINE n == Len(a)
           k == Kept(n)
           s == SubSeq(a, n - k + 1, n)
<1>1. n \in Nat /\ k \in Nat /\ k <= n /\ Len(o) = k
  BY LenProperties, MempoolAssumption DEF Kept, Window
<1>2. \A i \in n - k + 1 .. n : a[i] \in T
  BY <1>1, ElementOfSeq
<1>3. n - k + 1 \in Int /\ n \in Int
  BY <1>1
<1> HIDE DEF k, n
<1>4. /\ s \in Seq(T)
      /\ Len(s) = IF n - k + 1 <= n THEN n - (n - k + 1) + 1 ELSE 0
      /\ \A i \in 1 .. n - (n - k + 1) + 1 : s[i] = a[n - k + 1 + i - 1]
  BY <1>2, <1>3, SubSeqProperties
<1> HIDE DEF s
<1>5. Len(s) = k /\ n - (n - k + 1) + 1 = k
  BY <1>1, <1>4
<1>6. \A i \in 1 .. k : n - k + 1 + i - 1 = n - k + i
  BY <1>1
<1>7. \A i \in 1 .. k : s[i] = a[n - k + i]
  BY <1>4, <1>5, <1>6
<1>8. \A i \in 1 .. k : o[i] = a[n - k + i]
  BY <1>1 DEF Window, n
<1>9. o = s
  BY <1>1, <1>4, <1>5, <1>7, <1>8, SeqEqual
<1> QED
  BY <1>9 DEF s, k, n

\* An accepted transaction is far from its earlier acceptance, because it is not in
\* the window.
LEMMA ApartGrows ==
  ASSUME NEW T, NEW p \in MemPools(T), NEW a \in Seq(T), NEW t \in T,
         Remembers(p, a), Accepts(p, t)
  PROVE  Apart(Append(a, t))
<1> DEFINE n == Len(a)
           o == p.seen_order
           b == Append(a, t)
<1>1. /\ n \in Nat /\ MAX_SEEN \in Nat /\ DOMAIN a = 1 .. n
      /\ b \in Seq(T) /\ DOMAIN b = 1 .. n + 1 /\ b[n + 1] = t
      /\ \A i \in 1 .. n : b[i] = a[i]
  <2>1. b \in Seq(T) /\ Len(b) = n + 1
    BY AppendProperties
  <2> QED
    BY <2>1, AppendProperties, LenProperties, MempoolAssumption
<1>2. Len(o) \in Nat /\ DOMAIN o = 1 .. Len(o) /\ Len(o) = Kept(n)
  BY LenProperties DEF MemPools, Remembers, Window
<1>3. \A i \in 1 .. Len(o) : o[i] = a[n - Len(o) + i]
  BY DEF Remembers, Window
<1>4. \A i \in DOMAIN o : o[i] # t
  BY DEF Remembers, Accepts
<1> HIDE DEF n, o, b
<1>5. ASSUME NEW i \in 1 .. n, n - Len(o) < i
      PROVE  a[i] # t
  <2>1. i - (n - Len(o)) \in 1 .. Len(o) /\ n - Len(o) + (i - (n - Len(o))) = i
    BY <1>1, <1>2, <1>5
  <2>2. o[i - (n - Len(o))] = a[i]
    BY <1>3, <2>1
  <2> QED
    BY <1>2, <1>4, <2>1, <2>2
<1>6. ASSUME NEW i \in 1 .. n, a[i] = t
      PROVE  n + 1 - i > MAX_SEEN
  <2>1. i <= n - Len(o)
    BY <1>1, <1>2, <1>5, <1>6
  <2>2. Len(o) = MAX_SEEN
    BY <1>1, <1>2, <2>1 DEF Kept
  <2> QED
    BY <1>1, <2>1, <2>2
<1>7. ASSUME NEW i \in 1 .. n + 1, NEW j \in 1 .. n + 1, i < j, b[i] = b[j]
      PROVE  j - i > MAX_SEEN
  <2>1. i \in 1 .. n /\ b[i] = a[i]
    BY <1>1, <1>7
  <2>2. CASE j = n + 1
    <3>1. a[i] = t
      BY <1>1, <1>7, <2>1, <2>2
    <3>2. n + 1 - i > MAX_SEEN
      BY <1>6, <2>1, <3>1
    <3> QED
      BY <1>1, <2>1, <2>2, <3>2
  <2>3. CASE j # n + 1
    <3>1. j \in 1 .. n /\ b[j] = a[j]
      BY <1>1, <1>7, <2>3
    <3> QED
      BY <1>1, <1>7, <2>1, <3>1 DEF Remembers, Apart
  <2> QED
    BY <2>2, <2>3
<1> QED
  BY <1>1, <1>7 DEF Apart, b

\* push keeps the window, whether or not it has to forget a hash.
LEMMA PushRemembers ==
  ASSUME NEW T, NEW p \in MemPools(T), NEW a \in Seq(T), NEW t \in T, MAX_SEEN > 0,
         Remembers(p, a), Accepts(p, t)
  PROVE  Remembers(Push(p, t), Append(a, t))
<1> DEFINE n == Len(a)
           o == p.seen_order
           k == Len(o)
           b == Append(a, t)
           r == Append(o, t)
           longer == [queue |-> Append(p.queue, t), seen |-> p.seen \cup {t},
                      seen_order |-> r]
           x == Push(p, t)
<1>0. MAX_SEEN \in Nat /\ x = Forget(longer)
  BY MempoolAssumption DEF Push
<1>1. /\ n \in Nat /\ Len(b) = n + 1 /\ b[n + 1] = t
      /\ \A i \in 1 .. n : b[i] = a[i]
  BY AppendProperties, LenProperties
<1>2. o \in Seq(T) /\ r \in Seq(T)
  BY AppendProperties DEF MemPools
<1>3. /\ k \in Nat /\ DOMAIN o = 1 .. k /\ k = Kept(n) /\ k <= n
  BY <1>0, <1>1, <1>2, LenProperties DEF Remembers, Window, Kept
<1>4. /\ Len(r) = k + 1 /\ DOMAIN r = 1 .. k + 1 /\ r[k + 1] = t /\ r # << >>
      /\ \A i \in 1 .. k : r[i] = o[i]
  BY <1>2, AppendProperties, LenProperties
<1>5. \A i \in 1 .. k : o[i] = a[n - k + i]
  BY DEF Remembers, Window
<1>6. Apart(b)
  BY ApartGrows
<1>7. /\ p.seen = {o[i] : i \in 1 .. k} /\ t \notin p.seen
      /\ IsFiniteSet(p.seen) /\ Cardinality(p.seen) = k
  BY <1>3 DEF Remembers, Accepts
<1>8. /\ longer.seen = p.seen \cup {t} /\ longer.seen_order = r
      /\ IsFiniteSet(longer.seen) /\ Cardinality(longer.seen) = k + 1
  BY <1>7, FS_AddElement
<1>9. longer.seen = {r[i] : i \in 1 .. k + 1}
  <2> HIDE DEF longer, r, o, k
  <2> QED
    BY <1>3, <1>4, <1>7, <1>8
<1>10. \A i \in 1 .. k + 1 : r[i] = b[n - k + i]
  <2> HIDE DEF r, o, k, b, n, longer
  <2> TAKE i \in 1 .. k + 1
  <2>1. CASE i = k + 1
    BY <1>1, <1>3, <1>4, <2>1
  <2>2. CASE i # k + 1
    <3>1. i \in 1 .. k /\ n - k + i \in 1 .. n
      BY <1>1, <1>3, <2>2
    <3> QED
      BY <1>1, <1>4, <1>5, <3>1
  <2> QED
    BY <2>1, <2>2
<1> HIDE DEF n, o, k, b, r, x, longer
<1>11. ASSUME k + 1 <= MAX_SEEN
       PROVE  Remembers(x, b)
  <2>1. x = longer
    BY <1>0, <1>3, <1>8, <1>11 DEF Forget
  <2>2. x.seen_order = r /\ x.seen = longer.seen
    BY <1>8, <2>1
  <2>3. k = n
    BY <1>0, <1>1, <1>3, <1>11 DEF Kept
  <2>4. Len(r) = Kept(Len(b)) /\ Len(b) - Len(r) = n - k
    BY <1>0, <1>1, <1>4, <1>11, <2>3 DEF Kept
  <2>5. Window(r, b)
    BY <1>4, <1>10, <2>4 DEF Window
  <2> QED
    <3>1. x.seen = {r[i] : i \in 1 .. k + 1}
      BY <1>9, <2>2
    <3>2. IsFiniteSet(x.seen) /\ Cardinality(x.seen) = k + 1
      BY <1>8, <2>2
    <3>3. x.seen_order = r /\ DOMAIN r = 1 .. k + 1 /\ Len(r) = k + 1
      BY <1>4, <2>2
    <3> QED
      BY <1>6, <2>5, <3>1, <3>2, <3>3, RemembersIntro, Zenon
<1>12. ASSUME MAX_SEEN < k + 1
       PROVE  Remembers(x, b)
  <2>1. k = MAX_SEEN /\ Kept(n + 1) = k
    BY <1>0, <1>1, <1>3, <1>12 DEF Kept
  <2>2. x = [longer EXCEPT !.seen = longer.seen \ {Head(longer.seen_order)},
                           !.seen_order = Tail(longer.seen_order)]
    BY <1>0, <1>3, <1>8, <1>12 DEF Forget
  <2>3. x.seen = longer.seen \ {r[1]} /\ x.seen_order = Tail(r)
    <3>1. Head(r) = r[1]
      BY <1>2, <1>4
    <3> QED
      BY <1>8, <2>2, <3>1
  <2> DEFINE tail == Tail(r)
  <2>4. /\ tail \in Seq(T) /\ Len(tail) = k /\ DOMAIN tail = 1 .. k
        /\ \A i \in 1 .. k : tail[i] = r[i + 1]
    <3>1. /\ tail \in Seq(T) /\ Len(tail) = Len(r) - 1
          /\ \A i \in 1 .. Len(tail) : tail[i] = r[i + 1]
      BY <1>2, <1>4, HeadTailProperties
    <3>2. Len(tail) = k
      BY <1>3, <1>4, <3>1
    <3> QED
      BY <3>1, <3>2, LenProperties
  <2> HIDE DEF tail
  <2>5. Window(tail, b)
    <3>1. \A i \in 1 .. k : i + 1 \in 1 .. k + 1 /\ n - k + (i + 1) = n + 1 - k + i
      BY <1>1, <1>3
    <3>2. \A i \in 1 .. k : tail[i] = b[n + 1 - k + i]
      BY <1>10, <2>4, <3>1
    <3>3. Len(tail) = Kept(Len(b)) /\ Len(b) - Len(tail) = n + 1 - k
      BY <1>1, <2>1, <2>4
    <3> QED
      BY <2>4, <3>2, <3>3 DEF Window
  <2>6. ASSUME NEW i \in 2 .. k + 1
        PROVE  r[i] # r[1]
    <3>0. n \in Nat /\ k \in Nat /\ k <= n /\ k = MAX_SEEN
      BY <1>1, <1>3, <2>1
    <3>1. /\ n - k + 1 \in 1 .. n + 1 /\ n - k + i \in 1 .. n + 1
          /\ n - k + 1 < n - k + i /\ (n - k + i) - (n - k + 1) <= MAX_SEEN
      BY <3>0
    <3>2. DOMAIN b = 1 .. n + 1
      BY <1>1, AppendProperties, LenProperties DEF b
    <3>3. b[n - k + 1] # b[n - k + i]
      <4>1. n - k + 1 \in DOMAIN b /\ n - k + i \in DOMAIN b
        BY <3>1, <3>2
      <4>2. ~((n - k + i) - (n - k + 1) > MAX_SEEN)
        BY <1>0, <3>0, <3>1
      <4> QED
        BY <1>6, <3>1, <4>1, <4>2 DEF Apart
    <3> QED
      BY <1>3, <1>10, <3>3
  <2>7. x.seen = {tail[i] : i \in 1 .. k}
    <3>1. \A i \in 1 .. k : i + 1 \in 2 .. k + 1
      BY <1>3
    <3>2. \A i \in 2 .. k + 1 : i \in 1 .. k + 1 /\ i - 1 \in 1 .. k /\ (i - 1) + 1 = i
      BY <1>3
    <3>3. \A i \in 1 .. k + 1 : i = 1 \/ i \in 2 .. k + 1
      BY <1>3
    <3>4. {tail[i] : i \in 1 .. k} = {r[i] : i \in 2 .. k + 1}
      BY <2>4, <3>1, <3>2
    <3>5. {r[i] : i \in 2 .. k + 1} = {r[i] : i \in 1 .. k + 1} \ {r[1]}
      BY <2>6, <3>2, <3>3
    <3> QED
      BY <1>9, <2>3, <3>4, <3>5
  <2>8. IsFiniteSet(x.seen) /\ Cardinality(x.seen) = k
    <3>1. 1 \in 1 .. k + 1
      BY <1>3
    <3>2. r[1] \in longer.seen
      BY <1>9, <3>1
    <3>3. /\ IsFiniteSet(longer.seen \ {r[1]})
          /\ Cardinality(longer.seen \ {r[1]}) = Cardinality(longer.seen) - 1
      BY <1>8, <3>2, FS_RemoveElement
    <3> QED
      BY <1>3, <1>8, <2>3, <3>3
  <2> QED
    <3>1. x.seen_order = tail /\ DOMAIN tail = 1 .. k /\ Len(tail) = k
      BY <2>3, <2>4 DEF tail
    <3> QED
      BY <1>6, <2>5, <2>7, <2>8, <3>1, RemembersIntro, Zenon
<1>13. Remembers(x, b)
  BY <1>0, <1>3, <1>11, <1>12
<1> QED
  BY <1>13 DEF x, b

-----------------------------------------------------------------------------
(* The order of the queue *)

\* q is what is left of a: at gives the position of each element.
Placed(q, a, at) ==
  /\ at \in [DOMAIN q -> DOMAIN a]
  /\ \A i, j \in DOMAIN at : i < j => at[i] < at[j]
  /\ \A i \in DOMAIN at : q[i] = a[at[i]]

InOrder(q, a) == \E at : Placed(q, a, at)

LEMMA PushInOrder ==
  ASSUME NEW T, NEW q \in Seq(T), NEW a \in Seq(T), NEW t \in T, InOrder(q, a)
  PROVE  InOrder(Append(q, t), Append(a, t))
<1> DEFINE m == Len(q)
           n == Len(a)
           r == Append(q, t)
           b == Append(a, t)
<1>1. PICK at : Placed(q, a, at)
  BY DEF InOrder
<1>2. /\ m \in Nat /\ DOMAIN q = 1 .. m /\ DOMAIN r = 1 .. m + 1 /\ r[m + 1] = t
      /\ \A i \in 1 .. m : r[i] = q[i]
  BY AppendProperties, LenProperties
<1>3. /\ n \in Nat /\ DOMAIN a = 1 .. n /\ DOMAIN b = 1 .. n + 1 /\ b[n + 1] = t
      /\ \A i \in 1 .. n : b[i] = a[i]
  BY AppendProperties, LenProperties
<1> HIDE DEF m, n, r, b
<1> DEFINE new == [i \in 1 .. m + 1 |-> IF i = m + 1 THEN n + 1 ELSE at[i]]
<1>4. \A i \in 1 .. m : at[i] \in 1 .. n /\ q[i] = a[at[i]]
  BY <1>1, <1>2, <1>3 DEF Placed
<1>5. new \in [1 .. m + 1 -> 1 .. n + 1]
  BY <1>2, <1>3, <1>4
<1>6. \A i \in 1 .. m + 1 : i # m + 1 => i \in 1 .. m
  BY <1>2
<1>7. ASSUME NEW i \in 1 .. m + 1, NEW j \in 1 .. m + 1, i < j
      PROVE  new[i] < new[j]
  <2>1. i \in 1 .. m /\ i # m + 1
    BY <1>2, <1>7
  <2>2. CASE j = m + 1
    BY <1>3, <1>4, <2>1, <2>2
  <2>3. CASE j # m + 1
    BY <1>1, <1>2, <1>6, <1>7, <2>1, <2>3 DEF Placed
  <2> QED
    BY <2>2, <2>3
<1>8. \A i \in 1 .. m + 1 : r[i] = b[new[i]]
  BY <1>2, <1>3, <1>4, <1>6
<1> HIDE DEF new
<1>9. Placed(r, b, new)
  BY <1>2, <1>3, <1>5, <1>7, <1>8 DEF Placed
<1> QED
  BY <1>9 DEF InOrder, r, b

\* A part of the queue that keeps its order is in order: f gives its positions.
LEMMA PartInOrder ==
  ASSUME NEW q, NEW a, NEW r, NEW f \in [DOMAIN r -> DOMAIN q], InOrder(q, a),
         \A i, j \in DOMAIN r : i < j => f[i] < f[j],
         \A i \in DOMAIN r : r[i] = q[f[i]]
  PROVE  InOrder(r, a)
<1>1. PICK at : Placed(q, a, at)
  BY DEF InOrder
<1> DEFINE new == [i \in DOMAIN r |-> at[f[i]]]
<1>2. Placed(r, a, new)
  BY <1>1 DEF Placed
<1> QED
  BY <1>2 DEF InOrder

LEMMA PopInOrder ==
  ASSUME NEW T, NEW q \in Seq(T), NEW a, NEW count \in Nat, InOrder(q, a)
  PROVE  /\ InOrder(SubSeq(q, count + 1, Len(q)), a)
         /\ Len(SubSeq(q, count + 1, Len(q))) <= Len(q)
<1> DEFINE n == Len(q)
           r == SubSeq(q, count + 1, n)
<1>1. n \in Nat /\ DOMAIN q = 1 .. n
  BY LenProperties
<1>2. r \in Seq(T) /\ \A i \in count + 1 .. n : q[i] \in T
  BY <1>1, SuffixType, ElementOfSeq
<1>3. /\ Len(r) = IF count + 1 <= n THEN n - (count + 1) + 1 ELSE 0
      /\ \A i \in 1 .. n - (count + 1) + 1 : r[i] = q[count + 1 + i - 1]
  BY <1>1, <1>2, SubSeqProperties
<1>4. DOMAIN r = 1 .. Len(r) /\ Len(r) \in Nat
  BY <1>2, LenProperties
<1> HIDE DEF n, r
<1>5. Len(r) <= n
  BY <1>1, <1>3
<1>6. \A i \in DOMAIN r : /\ i \in 1 .. n - (count + 1) + 1
                          /\ count + 1 + i - 1 = count + i /\ count + i \in 1 .. n
  BY <1>1, <1>3, <1>4
<1> DEFINE f == [i \in DOMAIN r |-> count + i]
<1>7. f \in [DOMAIN r -> DOMAIN q]
  BY <1>1, <1>6
<1>8. \A i \in DOMAIN r : r[i] = q[f[i]]
  BY <1>3, <1>6
<1>9. \A i, j \in DOMAIN r : i < j => f[i] < f[j]
  BY <1>4
<1> HIDE DEF f
<1>10. InOrder(r, a)
  BY <1>7, <1>8, <1>9, PartInOrder
<1> QED
  BY <1>5, <1>10 DEF n, r

LEMMA PositionsFinite ==
  ASSUME NEW n \in Nat, NEW S, \A j \in S : j \in Nat /\ 1 <= j /\ j <= n
  PROVE  IsFiniteSet(S) /\ Cardinality(S) \in Nat /\ Cardinality(S) <= n
<1>1. S \in SUBSET (1 .. n)
  OBVIOUS
<1>2. IsFiniteSet(1 .. n) /\ Cardinality(1 .. n) = IF 1 > n THEN 0 ELSE n - 1 + 1
  <2>1. 1 \in Int /\ n \in Int
    OBVIOUS
  <2> QED
    BY <2>1, FS_Interval
<1>3. IsFiniteSet(S) /\ Cardinality(S) <= Cardinality(1 .. n)
  BY <1>1, <1>2, FS_Subset
<1>4. Cardinality(S) \in Nat
  BY <1>3, FS_CardinalityType
<1>5. Cardinality(1 .. n) = n
  BY <1>2
<1> QED
  BY <1>3, <1>4, <1>5

LEMMA NthIncreases ==
  ASSUME NEW n \in Nat, NEW S, \A j \in S : j \in Nat /\ 1 <= j /\ j <= n,
         NEW k \in 1 .. Cardinality(S), NEW l \in 1 .. Cardinality(S), k < l
  PROVE  Nth(S, k) < Nth(S, l)
<1> DEFINE Below(i) == {j \in S : j <= i}
           x == Nth(S, k)
           y == Nth(S, l)
<1>1. IsFiniteSet(S) /\ Cardinality(S) \in Nat
  BY PositionsFinite
<1>2. k \in Nat /\ l \in Nat /\ 1 <= k /\ 1 <= l /\ k <= Cardinality(S) /\ l <= Cardinality(S)
  BY <1>1
<1>3. x \in S /\ Cardinality(Below(x)) = k
  BY <1>2, NthExists
<1>4. y \in S /\ Cardinality(Below(y)) = l
  BY <1>2, NthExists
<1> HIDE DEF x, y
<1>5. ASSUME ~(x < y) PROVE FALSE
  <2>1. y <= x
    BY <1>3, <1>4, <1>5
  <2>2. Below(y) \in SUBSET Below(x) /\ Below(x) \in SUBSET S
    BY <1>3, <1>4, <2>1
  <2> HIDE DEF Below
  <2>3. IsFiniteSet(Below(x))
    BY <1>1, <2>2, FS_Subset
  <2>4. Cardinality(Below(y)) <= Cardinality(Below(x))
    BY <2>2, <2>3, FS_Subset
  <2> QED
    BY <1>2, <1>3, <1>4, <2>4
<1> QED
  BY <1>5 DEF x, y

LEMMA RemoveInOrder ==
  ASSUME NEW T, NEW q \in Seq(T), NEW a, InOrder(q, a), NEW S \in SUBSET DOMAIN q
  PROVE  InOrder(ElementsAt(q, S), a) /\ Len(ElementsAt(q, S)) <= Len(q)
<1> DEFINE n == Len(q)
           r == ElementsAt(q, S)
           c == Cardinality(S)
<1>1. n \in Nat /\ DOMAIN q = 1 .. n
  BY LenProperties
<1>2. c \in Nat /\ c <= n
  <2>1. \A j \in S : j \in Nat /\ 1 <= j /\ j <= n
    BY <1>1
  <2> QED
    BY <1>1, <2>1, PositionsFinite
<1>3. DOMAIN r = 1 .. c /\ \A k \in 1 .. c : r[k] = q[Nth(S, k)]
  BY DEF ElementsAt
<1>4. Len(r) = c
  <2>1. r \in Seq(T)
    BY ElementsAtType
  <2>2. Len(r) \in Nat /\ DOMAIN r = 1 .. Len(r)
    BY <2>1, LenProperties
  <2> QED
    BY <1>2, <1>3, <2>2
<1>5. \A j \in S : j \in Nat /\ 1 <= j /\ j <= n
  BY <1>1
<1>6. \A k \in 1 .. c : k \in Nat /\ 1 <= k /\ k <= c
  BY <1>2
<1>7. \A k \in 1 .. c : Nth(S, k) \in S
  BY <1>1, <1>5, <1>6, NthExists
<1>8. \A k, l \in 1 .. c : k < l => Nth(S, k) < Nth(S, l)
  BY <1>1, <1>5, NthIncreases
<1> DEFINE f == [k \in DOMAIN r |-> Nth(S, k)]
<1> HIDE DEF r, c, n
<1>9. /\ f \in [DOMAIN r -> DOMAIN q]
      /\ \A k, l \in DOMAIN r : k < l => f[k] < f[l]
      /\ \A k \in DOMAIN r : r[k] = q[f[k]]
  BY <1>3, <1>7, <1>8
<1> HIDE DEF f
<1>10. InOrder(r, a)
  BY <1>9, PartInOrder
<1> QED
  BY <1>2, <1>4, <1>10 DEF r, n

-----------------------------------------------------------------------------
(* The pool as a state machine *)

QueueInv == InOrder(mp.queue, accepted) /\ Len(mp.queue) <= MAX_MEMPOOL

PoolInv == TypeOK /\ Remembers(mp, accepted) /\ QueueInv

LEMMA PoolInit == Init => PoolInv
<1> SUFFICES ASSUME Init PROVE PoolInv
  OBVIOUS
<1>1. /\ mp.queue = << >> /\ mp.seen = {} /\ mp.seen_order = << >> /\ accepted = << >>
      /\ mp \in MemPools(Trx)
  BY DEF Init, EmptyPool, MemPools
<1>2. TypeOK
  BY <1>1 DEF TypeOK
<1>3. Remembers(mp, accepted)
  <2>1. IsFiniteSet({}) /\ Cardinality({}) = 0
    BY FS_EmptySet
  <2>2. Apart(<< >>) /\ Window(<< >>, << >>)
    BY MachineAssumption, MempoolAssumption DEF Apart, Window, Kept
  <2>3. {} = {<< >>[i] : i \in DOMAIN << >>} /\ Len(<< >>) = 0
    OBVIOUS
  <2> QED
    BY <1>1, <2>1, <2>2, <2>3 DEF Remembers
<1>4. QueueInv
  <2>1. Placed(<< >>, << >>, << >>)
    BY DEF Placed
  <2> QED
    BY <1>1, <2>1, MempoolAssumption DEF QueueInv, InOrder
<1> QED
  BY <1>2, <1>3, <1>4 DEF PoolInv

\* What is not about the hashes does not touch what is remembered.
LEMMA RemembersKept ==
  ASSUME NEW p, NEW q, NEW a, Remembers(p, a), q.seen = p.seen, q.seen_order = p.seen_order
  PROVE  Remembers(q, a)
BY DEF Remembers

LEMMA PoolPushed ==
  ASSUME PoolInv, NEW t \in Trx, Pushed(t)
  PROVE  PoolInv'
<1>0. mp \in MemPools(Trx) /\ accepted \in Seq(Trx) /\ mp' = Push(mp, t)
  BY DEF PoolInv, TypeOK, Pushed
<1>1. CASE ~Accepts(mp, t)
  BY <1>0, <1>1 DEF Push, Pushed, PoolInv, TypeOK, QueueInv
<1>2. CASE Accepts(mp, t)
  <2>1. accepted' = Append(accepted, t)
    BY <1>2 DEF Pushed
  <2>2. TypeOK'
    BY <1>0, <2>1, PushType, AppendProperties DEF TypeOK
  <2>3. Remembers(mp', accepted')
    BY <1>0, <1>2, <2>1, PushRemembers, MachineAssumption DEF PoolInv
  <2>4. mp'.queue = Append(mp.queue, t)
    BY <1>0, <1>2 DEF Push, Forget
  <2>5. QueueInv'
    <3>1. mp.queue \in Seq(Trx)
      BY <1>0 DEF MemPools
    <3>2. InOrder(mp'.queue, accepted')
      BY <1>0, <2>1, <2>4, <3>1, PushInOrder DEF PoolInv, QueueInv
    <3>3. Len(mp'.queue) = Len(mp.queue) + 1 /\ Len(mp.queue) \in Nat
      BY <2>4, <3>1, AppendProperties, LenProperties
    <3>4. Len(mp.queue) + 1 <= MAX_MEMPOOL
      BY <1>2, <3>3, MempoolAssumption DEF Accepts
    <3> QED
      BY <3>2, <3>3, <3>4 DEF QueueInv
  <2> QED
    BY <2>2, <2>3, <2>5 DEF PoolInv
<1> QED
  BY <1>1, <1>2

LEMMA PoolPopped ==
  ASSUME PoolInv, NEW count \in 1 .. MAX_MEMPOOL, Popped(count)
  PROVE  PoolInv'
<1>0. /\ mp \in MemPools(Trx) /\ accepted \in Seq(Trx) /\ mp.queue \in Seq(Trx)
      /\ mp' = PopMany(mp, count) /\ accepted' = accepted
      /\ count \in Nat /\ Len(mp.queue) \in Nat
  BY MempoolAssumption, LenProperties DEF PoolInv, TypeOK, Popped, MemPools
<1>1. TypeOK'
  BY <1>0, PopType DEF TypeOK
<1>2. /\ mp'.queue = SubSeq(mp.queue, count + 1, Len(mp.queue))
      /\ mp'.seen = mp.seen /\ mp'.seen_order = mp.seen_order
  BY <1>0 DEF PopMany, MemPools
<1>3. Remembers(mp', accepted')
  BY <1>0, <1>2, RemembersKept DEF PoolInv
<1>4. InOrder(mp'.queue, accepted') /\ Len(mp'.queue) <= Len(mp.queue)
  BY <1>0, <1>2, PopInOrder DEF PoolInv, QueueInv
<1>5. Len(mp'.queue) \in Nat
  BY <1>1, LenProperties DEF TypeOK, MemPools
<1>6. QueueInv'
  BY <1>0, <1>4, <1>5, MempoolAssumption DEF PoolInv, QueueInv
<1> QED
  BY <1>1, <1>3, <1>6 DEF PoolInv

LEMMA PoolIncluded ==
  ASSUME PoolInv, NEW txs, Included(txs)
  PROVE  PoolInv'
<1> DEFINE left == {i \in DOMAIN mp.queue : mp.queue[i] \notin {txs[j] : j \in DOMAIN txs}}
<1>0. /\ mp \in MemPools(Trx) /\ accepted \in Seq(Trx) /\ mp.queue \in Seq(Trx)
      /\ mp' = RemoveIncluded(mp, txs) /\ accepted' = accepted
      /\ Len(mp.queue) \in Nat
  BY LenProperties DEF PoolInv, TypeOK, Included, MemPools
<1>1. TypeOK'
  BY <1>0, RemoveIncludedType DEF TypeOK
<1>2. /\ mp'.queue = ElementsAt(mp.queue, left)
      /\ mp'.seen = mp.seen /\ mp'.seen_order = mp.seen_order
  BY <1>0 DEF RemoveIncluded, MemPools
<1>3. Remembers(mp', accepted')
  BY <1>0, <1>2, RemembersKept DEF PoolInv
<1>4. left \in SUBSET DOMAIN mp.queue
  OBVIOUS
<1> HIDE DEF left
<1>5. InOrder(mp'.queue, accepted') /\ Len(mp'.queue) <= Len(mp.queue)
  BY <1>0, <1>2, <1>4, RemoveInOrder DEF PoolInv, QueueInv
<1>6. Len(mp'.queue) \in Nat
  BY <1>1, LenProperties DEF TypeOK, MemPools
<1>7. QueueInv'
  BY <1>0, <1>5, <1>6, MempoolAssumption DEF PoolInv, QueueInv
<1> QED
  BY <1>1, <1>3, <1>7 DEF PoolInv

LEMMA PoolStep ==
  ASSUME PoolInv, [Next]_vars
  PROVE  PoolInv'
<1>1. CASE UNCHANGED vars
  BY <1>1 DEF PoolInv, TypeOK, QueueInv, vars
<1>2. CASE Next
  BY <1>2, PoolPushed, PoolPopped, PoolIncluded DEF Next
<1> QED
  BY <1>1, <1>2

\* The types, the window and the order together are inductive.
THEOREM PoolInductive == Spec => []PoolInv
<1>1. PoolInv /\ [Next]_vars => PoolInv'
  BY PoolStep
<1> QED
  BY <1>1, PoolInit, PTL DEF Spec

\* The remembered hashes are those of the transactions accepted last, in the set and
\* in the order of forgetting alike.
THEOREM RemembersWindow == Spec => []SeenIsWindow
<1>1. ASSUME PoolInv PROVE SeenIsWindow
  <2>1. accepted \in Seq(Trx) /\ mp.seen_order \in Seq(Trx)
    BY <1>1 DEF PoolInv, TypeOK, MemPools
  <2>2. Window(mp.seen_order, accepted)
    BY <1>1 DEF PoolInv, Remembers
  <2>3. mp.seen_order = SubSeq(accepted, Len(accepted) - Kept(Len(accepted)) + 1, Len(accepted))
    BY <2>1, <2>2, WindowIsSuffix
  <2> QED
    BY <1>1, <2>3 DEF PoolInv, Remembers, SeenIsWindow, Kept
<1> QED
  BY <1>1, PoolInductive, PTL

\* The pool accepts nothing again before MAX_SEEN others have been accepted.
THEOREM NothingRepeatsEarly == Spec => []NoEarlyRepeat
<1>1. PoolInv => NoEarlyRepeat
  BY DEF PoolInv, Remembers, Apart, NoEarlyRepeat
<1> QED
  BY <1>1, PoolInductive, PTL

\* The queue keeps the order of acceptance and its limit.
THEOREM QueueKeepsOrder == Spec => []QueueInOrder
<1>1. PoolInv => QueueInOrder
  BY DEF PoolInv, QueueInv, InOrder, Placed, QueueInOrder
<1> QED
  BY <1>1, PoolInductive, PTL

-----------------------------------------------------------------------------
(* Recursion over the levels of a tree *)

\* Induction, for a set in place of a predicate
LEMMA Induction ==
  ASSUME NEW S, 0 \in S, \A n \in Nat : n \in S => n + 1 \in S
  PROVE  \A n \in Nat : n \in S
<1> SUFFICES ASSUME Nat \ S # {} PROVE FALSE
  OBVIOUS
<1>1. PICK i \in Nat \ S : \A j \in Nat \ S : i <= j
  <2>1. Nat \ S \in SUBSET Nat
    OBVIOUS
  <2> QED
    BY <2>1, LeastElement
<1>2. i # 0 /\ i - 1 \in Nat /\ (i - 1) + 1 = i /\ ~(i <= i - 1)
  BY <1>1
<1>3. i - 1 \in S
  BY <1>1, <1>2
<1> QED
  BY <1>1, <1>2, <1>3

\* What calc_merkle_root does with a level, and the same as Subtree has it: in w leaves
\* more there is a second half or not.
Halved(level) == IF Len(level) > 1 THEN NextLevel(level) ELSE level

Joined(s, w, t) == [i \in Nat |-> <<t[i], IF i + w < Len(s) THEN t[i + w] ELSE t[i]>>]

\* The three recursions of Merkle as one, on the width of a tree, the hashes of a level
\* and the subtrees that begin at each leaf
Start(s) == <<1, s, [i \in Nat |-> s[i + 1]]>>

Turn(s, x) == <<2 * x[1], Halved(x[2]), Joined(s, x[1], x[3])>>

Run(s, n, g) == g[0] = Start(s) /\ \A k \in Nat : k < n => g[k + 1] = Turn(s, g[k])

LEMMA RunExists ==
  ASSUME NEW s
  PROVE  \A n \in Nat : \E g : Run(s, n, g)
<1> DEFINE S == {n \in Nat : \E g : Run(s, n, g)}
<1>1. 0 \in S
  <2>1. PICK g : g = [k \in {0} |-> Start(s)]
    OBVIOUS
  <2>2. Run(s, 0, g)
    BY <2>1 DEF Run
  <2> QED
    BY <2>2
<1>2. ASSUME NEW n \in Nat, n \in S PROVE n + 1 \in S
  <2>1. PICK g : Run(s, n, g)
    BY <1>2
  <2>2. PICK h : h = [k \in 0 .. n + 1 |-> IF k <= n THEN g[k] ELSE Turn(s, g[n])]
    OBVIOUS
  <2>3. h[n + 1] = Turn(s, g[n]) /\ \A k \in Nat : k <= n => h[k] = g[k]
    BY <2>2
  <2>4. h[0] = Start(s)
    BY <2>1, <2>3 DEF Run
  <2>5. ASSUME NEW k \in Nat, k < n + 1 PROVE h[k + 1] = Turn(s, h[k])
    <3>1. CASE k < n
      <4>1. k + 1 <= n /\ k + 1 \in Nat /\ k <= n
        BY <3>1
      <4> QED
        BY <2>1, <2>3, <3>1, <4>1 DEF Run
    <3>2. CASE k = n
      BY <2>3, <3>2
    <3> QED
      BY <2>5, <3>1, <3>2
  <2>6. Run(s, n + 1, h)
    BY <2>4, <2>5 DEF Run
  <2> QED
    BY <2>6
<1> HIDE DEF S
<1>3. \A n \in Nat : n \in S
  BY <1>1, <1>2, Induction
<1> QED
  BY <1>3 DEF S

LEMMA RunsAgree ==
  ASSUME NEW s, NEW m \in Nat, NEW n \in Nat, NEW g, NEW h, Run(s, m, g), Run(s, n, h)
  PROVE  \A k \in Nat : k <= m /\ k <= n => g[k] = h[k]
<1> DEFINE S == {k \in Nat : k <= m /\ k <= n => g[k] = h[k]}
<1>1. 0 \in S
  BY DEF Run
<1>2. ASSUME NEW k \in Nat, k \in S PROVE k + 1 \in S
  <2> SUFFICES ASSUME k + 1 <= m, k + 1 <= n PROVE g[k + 1] = h[k + 1]
    OBVIOUS
  <2>1. k < m /\ k < n /\ g[k] = h[k]
    BY <1>2
  <2>2. g[k + 1] = Turn(s, g[k]) /\ h[k + 1] = Turn(s, h[k])
    BY <2>1 DEF Run
  <2> QED
    BY <2>1, <2>2
<1> HIDE DEF S
<1>3. \A k \in Nat : k \in S
  BY <1>1, <1>2, Induction
<1> QED
  BY <1>3 DEF S

Endless(s, f) == f[0] = Start(s) /\ \A k \in Nat : f[k + 1] = Turn(s, f[k])

LEMMA Recursion == ASSUME NEW s PROVE \E f : Endless(s, f)
<1> DEFINE part(n) == CHOOSE g : Run(s, n, g)
<1>1. \A n \in Nat : Run(s, n, part(n))
  BY RunExists
<1> HIDE DEF part
<1>2. PICK f : f = [n \in Nat |-> part(n)[n]]
  OBVIOUS
<1>3. f[0] = Start(s)
  BY <1>1, <1>2 DEF Run
<1>4. ASSUME NEW k \in Nat PROVE f[k + 1] = Turn(s, f[k])
  <2>1. k + 1 \in Nat /\ k < k + 1 /\ k <= k + 1 /\ k <= k
    OBVIOUS
  <2>2. PICK g, h : g = part(k) /\ h = part(k + 1)
    OBVIOUS
  <2>3. Run(s, k, g) /\ Run(s, k + 1, h)
    BY <1>1, <2>1, <2>2
  <2>4. g[k] = h[k]
    BY <2>1, <2>3, RunsAgree
  <2>5. h[k + 1] = Turn(s, h[k])
    BY <2>1, <2>3 DEF Run
  <2>6. f[k + 1] = h[k + 1] /\ f[k] = g[k]
    BY <1>2, <2>1, <2>2
  <2> QED
    BY <2>4, <2>5, <2>6
<1> QED
  BY <1>3, <1>4 DEF Endless

Parts(s, f) ==
  /\ f[0][1] = 1 /\ f[0][2] = s /\ f[0][3] = [i \in Nat |-> s[i + 1]]
  /\ \A k \in Nat : /\ f[k + 1][1] = 2 * f[k][1] /\ f[k + 1][2] = Halved(f[k][2])
                   /\ f[k + 1][3] = Joined(s, f[k][1], f[k][3])

LEMMA TurnParts ==
  ASSUME NEW s, NEW f, Endless(s, f)
  PROVE  Parts(s, f)
<1>1. f[0][1] = 1 /\ f[0][2] = s /\ f[0][3] = [i \in Nat |-> s[i + 1]]
  BY DEF Endless, Start
<1>2. ASSUME NEW k \in Nat
      PROVE  /\ f[k + 1][1] = 2 * f[k][1] /\ f[k + 1][2] = Halved(f[k][2])
             /\ f[k + 1][3] = Joined(s, f[k][1], f[k][3])
  <2>1. PICK x, a, b, c : x = f[k] /\ a = 2 * x[1] /\ b = Halved(x[2]) /\ c = Joined(s, x[1], x[3])
    OBVIOUS
  <2>2. f[k + 1] = <<a, b, c>>
    BY <2>1 DEF Endless, Turn
  <2> QED
    BY <2>1, <2>2
<1> QED
  BY <1>1, <1>2 DEF Parts

\* The three functions of Merkle satisfy their definitions.
LEMMA LeavesAre == Leaves[0] = 1 /\ \A k \in Nat : Leaves[k + 1] = 2 * Leaves[k]
<1>1. PICK f : Endless(<< >>, f)
  BY Recursion
<1>2. PICK g : g = [k \in Nat |-> f[k][1]]
  OBVIOUS
<1>3. g[0] = 1 /\ \A k \in Nat : g[k + 1] = 2 * g[k]
  <2>1. f[0][1] = 1 /\ \A k \in Nat : f[k + 1][1] = 2 * f[k][1]
    <3>1. Parts(<< >>, f)
      BY <1>1, TurnParts
    <3> QED
      BY <3>1 DEF Parts
  <2> QED
    BY <1>2, <2>1
<1>4. g = [k \in Nat |-> IF k = 0 THEN 1 ELSE 2 * g[k - 1]]
  <2>1. \A k \in Nat : g[k] = IF k = 0 THEN 1 ELSE 2 * g[k - 1]
    <3> SUFFICES ASSUME NEW k \in Nat, k # 0 PROVE g[k] = 2 * g[k - 1]
      BY <1>3
    <3>1. k - 1 \in Nat /\ (k - 1) + 1 = k
      OBVIOUS
    <3> QED
      BY <1>3, <3>1
  <2> QED
    BY <1>2, <2>1
<1>5. Leaves = [k \in Nat |-> IF k = 0 THEN 1 ELSE 2 * Leaves[k - 1]]
  BY <1>4 DEF Leaves
<1> QED
  <2> SUFFICES ASSUME NEW k \in Nat PROVE Leaves[0] = 1 /\ Leaves[k + 1] = 2 * Leaves[k]
    OBVIOUS
  <2>1. k + 1 \in Nat /\ k + 1 # 0 /\ (k + 1) - 1 = k
    OBVIOUS
  <2> QED
    BY <1>5, <2>1

\* The levels that calc_merkle_root computes
LevelsOf(s, L) ==
  L[0] = s /\ \A k \in Nat : L[k + 1] = Halved(L[k])

LEMMA RootIs ==
  ASSUME NEW s, s # << >>
  PROVE  \E L : LevelsOf(s, L) /\ calc_merkle_root(s) = L[Len(s)][1]
<1> DEFINE Is(g) == g = [k \in Nat |-> IF k = 0 THEN s
                                  ELSE LET level == g[k - 1]
                                       IN  IF Len(level) > 1 THEN NextLevel(level) ELSE level]
<1> DEFINE L == CHOOSE g : Is(g)
<1>1. PICK f : Endless(s, f)
  BY Recursion
<1>2. PICK g : g = [k \in Nat |-> f[k][2]]
  OBVIOUS
<1>3. g[0] = s /\ \A k \in Nat : g[k + 1] = Halved(g[k])
  <2>1. f[0][2] = s /\ \A k \in Nat : f[k + 1][2] = Halved(f[k][2])
    <3>1. Parts(s, f)
      BY <1>1, TurnParts
    <3> QED
      BY <3>1 DEF Parts
  <2> QED
    BY <1>2, <2>1
<1>4. Is(g)
  <2>1. \A k \in Nat : g[k] = IF k = 0 THEN s ELSE Halved(g[k - 1])
    <3> SUFFICES ASSUME NEW k \in Nat, k # 0 PROVE g[k] = Halved(g[k - 1])
      BY <1>3
    <3>1. k - 1 \in Nat /\ (k - 1) + 1 = k
      OBVIOUS
    <3> QED
      BY <1>3, <3>1
  <2>2. g = [k \in Nat |-> IF k = 0 THEN s ELSE Halved(g[k - 1])]
    BY <1>2, <2>1
  <2> QED
    BY <2>2 DEF Halved
<1>5. Is(L)
  BY <1>4
<1>6. LevelsOf(s, L)
  <2>1. L = [k \in Nat |-> IF k = 0 THEN s ELSE Halved(L[k - 1])]
    BY <1>5 DEF Halved
  <2> HIDE DEF L
  <2> SUFFICES ASSUME NEW k \in Nat PROVE L[0] = s /\ L[k + 1] = Halved(L[k])
    BY DEF LevelsOf
  <2>2. k + 1 \in Nat /\ k + 1 # 0 /\ (k + 1) - 1 = k
    OBVIOUS
  <2> QED
    BY <2>1, <2>2
<1>7. calc_merkle_root(s) = L[Len(s)][1]
  BY DEF calc_merkle_root
<1> QED
  BY <1>6, <1>7

\* The subtrees that the tree of s is made of
SubtreesOf(s, T) ==
  T[0] = [i \in Nat |-> s[i + 1]] /\ \A k \in Nat : T[k + 1] = Joined(s, Leaves[k], T[k])

LEMMA SubtreeIs == ASSUME NEW s PROVE SubtreesOf(s, Subtree(s))
<1> DEFINE Is(g) ==
      g = [k \in Nat |->
            [i \in Nat |->
              IF k = 0 THEN s[i + 1]
              ELSE LET middle == i + Leaves[k - 1]
                       left == g[k - 1][i]
                   IN  <<left, IF middle < Len(s) THEN g[k - 1][middle] ELSE left>>]]
<1> DEFINE Grows(g) == g = [k \in Nat |-> IF k = 0 THEN [i \in Nat |-> s[i + 1]]
                                       ELSE Joined(s, Leaves[k - 1], g[k - 1])]
<1>1. PICK f : Endless(s, f)
  BY Recursion
<1>2. PICK w, g : w = [k \in Nat |-> f[k][1]] /\ g = [k \in Nat |-> f[k][3]]
  OBVIOUS
<1>3. /\ w[0] = 1 /\ \A k \in Nat : w[k + 1] = 2 * w[k]
      /\ g[0] = [i \in Nat |-> s[i + 1]] /\ \A k \in Nat : g[k + 1] = Joined(s, w[k], g[k])
  <2>1. Parts(s, f)
    BY <1>1, TurnParts
  <2> QED
    BY <1>2, <2>1 DEF Parts
<1>4. \A k \in Nat : w[k] = Leaves[k]
  <2> DEFINE S == {k \in Nat : w[k] = Leaves[k]}
  <2>1. 0 \in S /\ \A k \in Nat : k \in S => k + 1 \in S
    BY <1>3, LeavesAre
  <2> HIDE DEF S
  <2>2. \A k \in Nat : k \in S
    BY <2>1, Induction
  <2> QED
    BY <2>2 DEF S
<1>5. Grows(g)
  <2>1. \A k \in Nat : g[k] = IF k = 0 THEN [i \in Nat |-> s[i + 1]]
                            ELSE Joined(s, Leaves[k - 1], g[k - 1])
    <3> SUFFICES ASSUME NEW k \in Nat, k # 0 PROVE g[k] = Joined(s, Leaves[k - 1], g[k - 1])
      BY <1>3
    <3>1. k - 1 \in Nat /\ (k - 1) + 1 = k
      OBVIOUS
    <3>2. g[(k - 1) + 1] = Joined(s, w[k - 1], g[k - 1])
      BY <1>3, <3>1
    <3> QED
      BY <1>4, <3>1, <3>2
  <2> QED
    BY <1>2, <2>1
<1>6. \A h : Is(h) <=> Grows(h)
  BY DEF Joined
<1>7. Grows(CHOOSE h : Is(h))
  BY <1>5, <1>6
<1>8. Grows(Subtree(s))
  BY <1>7 DEF Subtree
<1> QED
  <2> DEFINE T == Subtree(s)
  <2>1. T = [k \in Nat |-> IF k = 0 THEN [i \in Nat |-> s[i + 1]]
                          ELSE Joined(s, Leaves[k - 1], T[k - 1])]
    BY <1>8
  <2> HIDE DEF T
  <2> SUFFICES ASSUME NEW k \in Nat
               PROVE  T[0] = [i \in Nat |-> s[i + 1]] /\ T[k + 1] = Joined(s, Leaves[k], T[k])
    BY DEF SubtreesOf, T
  <2>2. k + 1 \in Nat /\ k + 1 # 0 /\ (k + 1) - 1 = k
    OBVIOUS
  <2> QED
    BY <2>1, <2>2

-----------------------------------------------------------------------------
(* The root is that of the tree. *)

LEMMA LeavesGrow == \A k \in Nat : Leaves[k] \in Nat /\ k < Leaves[k]
<1> DEFINE S == {k \in Nat : Leaves[k] \in Nat /\ k < Leaves[k]}
<1>1. 0 \in S
  BY LeavesAre
<1>2. ASSUME NEW k \in Nat, k \in S PROVE k + 1 \in S
  <2>1. Leaves[k + 1] = 2 * Leaves[k]
    BY LeavesAre
  <2> QED
    BY <1>2, <2>1
<1> HIDE DEF S
<1>3. \A k \in Nat : k \in S
  BY <1>1, <1>2, Induction
<1> QED
  BY <1>3 DEF S

LEMMA DepthIs ==
  ASSUME NEW n \in Nat
  PROVE  /\ Depth(n) \in Nat /\ Depth(n) <= n /\ n <= Leaves[Depth(n)]
         /\ \A c \in Nat : c < Depth(n) => Leaves[c] < n
<1> DEFINE S == {k \in Nat : n <= Leaves[k]}
<1>1. n \in S /\ S \in SUBSET Nat
  BY LeavesGrow
<1>2. PICK d \in S : \A k \in S : d <= k
  BY <1>1, LeastElement
<1>3. d \in 0 .. n /\ Leaves[d] >= n
  BY <1>1, <1>2, LeavesGrow
<1>4. \A c \in 0 .. d - 1 : Leaves[c] < n
  <2> SUFFICES ASSUME NEW c \in 0 .. d - 1 PROVE Leaves[c] < n
    OBVIOUS
  <2>1. c \in Nat /\ c < d /\ Leaves[c] \in Nat /\ c \notin S
    BY <1>2, LeavesGrow
  <2> QED
    BY <2>1
<1> DEFINE Is(e) == Leaves[e] >= n /\ \A c \in 0 .. e - 1 : Leaves[c] < n
<1>5. \E e \in 0 .. n : Is(e)
  BY <1>3, <1>4
<1>6. Depth(n) \in 0 .. n /\ Is(Depth(n))
  BY <1>5 DEF Depth
<1> QED
  BY <1>6, LeavesGrow

\* What follows a level of m hashes, of which the last is repeated where m is odd
PairsOf(S, level, m, next, h) ==
  /\ next \in Seq(S \X S) /\ Len(next) = h
  /\ \A j \in Nat : j < h =>
       next[j + 1] = <<level[2 * j + 1],
                       IF 2 * j + 1 < m THEN level[2 * j + 2] ELSE level[2 * j + 1]>>

LEMMA HalvedIs ==
  ASSUME NEW S, NEW level \in Seq(S), NEW m \in Nat, m = Len(level), 1 < m,
         NEW h \in Nat, 2 * h = m \/ 2 * h = m + 1
  PROVE  PairsOf(S, level, m, Halved(level), h)
<1> DEFINE full == Padded(level)
<1>1. /\ full \in Seq(S) /\ Len(full) = 2 * h
      /\ \A i \in 1 .. m : full[i] = level[i]
      /\ 2 * h = m + 1 => full[m + 1] = level[m]
  <2>0. level[m] \in S
    BY ElementOfSeq
  <2>1. CASE 2 * h = m
    <3>1. m % 2 # 1
      BY <2>1
    <3> QED
      BY <2>1, <3>1 DEF Padded
  <2>2. CASE 2 * h = m + 1
    <3>1. m % 2 = 1
      BY <2>2
    <3>2. full = Append(level, level[m])
      BY <3>1 DEF Padded
    <3> QED
      BY <2>0, <2>2, <3>2, AppendProperties
  <2> QED
    BY <2>1, <2>2
<1> HIDE DEF full
<1>2. Len(full) \div 2 = h
  BY <1>1
<1>3. Halved(level) = [i \in 1 .. h |-> <<full[2 * i - 1], full[2 * i]>>]
  BY <1>2 DEF Halved, NextLevel, hash_pair, full
<1>4. ASSUME NEW i \in 1 .. h PROVE full[2 * i - 1] \in S /\ full[2 * i] \in S
  <2>1. 2 * i - 1 \in 1 .. Len(full) /\ 2 * i \in 1 .. Len(full)
    BY <1>1
  <2> QED
    BY <1>1, <2>1, ElementOfSeq
<1>5. Halved(level) \in [1 .. h -> S \X S]
  BY <1>3, <1>4
<1>6. Halved(level) \in Seq(S \X S) /\ Len(Halved(level)) = h
  BY <1>5, FunctionIsSeq
<1>7. ASSUME NEW j \in Nat, j < h
      PROVE  Halved(level)[j + 1] =
               <<level[2 * j + 1],
                 IF 2 * j + 1 < m THEN level[2 * j + 2] ELSE level[2 * j + 1]>>
  <2>1. /\ j + 1 \in 1 .. h /\ 2 * (j + 1) - 1 = 2 * j + 1 /\ 2 * (j + 1) = 2 * j + 2
        /\ 2 * j + 1 \in 1 .. m
    BY <1>7
  <2>2. Halved(level)[j + 1] = <<full[2 * j + 1], full[2 * j + 2]>>
    BY <1>3, <2>1
  <2>3. full[2 * j + 1] = level[2 * j + 1]
    BY <1>1, <2>1
  <2>4. CASE 2 * j + 1 < m
    <3>1. 2 * j + 2 \in 1 .. m
      BY <2>4
    <3> QED
      BY <1>1, <2>2, <2>3, <2>4, <3>1
  <2>5. CASE ~(2 * j + 1 < m)
    <3>1. 2 * j + 1 = m /\ 2 * h = m + 1 /\ 2 * j + 2 = m + 1
      BY <1>7, <2>5
    <3> QED
      BY <1>1, <2>2, <2>3, <2>5, <3>1
  <2> QED
    BY <2>4, <2>5
<1>8. PICK next : next = Halved(level)
  OBVIOUS
<1>9. /\ next \in Seq(S \X S) /\ Len(next) = h
      /\ \A j \in Nat : j < h =>
           next[j + 1] = <<level[2 * j + 1],
                           IF 2 * j + 1 < m THEN level[2 * j + 2] ELSE level[2 * j + 1]>>
  BY <1>6, <1>7, <1>8
<1>10. PairsOf(S, level, m, next, h)
  BY <1>9 DEF PairsOf
<1> QED
  BY <1>8, <1>10

\* A level of m hashes, each the root of w leaves, covers n leaves.
Covers(m, w, n) == n <= m * w /\ (m - 1) * w < n

\* The level k, and the subtrees that its hashes are the roots of
LevelIsRow(s, L, T, k) ==
  \E S : \E m \in Nat :
    /\ L[k] \in Seq(S) /\ Len(L[k]) = m /\ Covers(m, Leaves[k], Len(s))
    /\ \A i \in Nat : i < m => L[k][i + 1] = T[k][i * Leaves[k]]

LEMMA Monotone ==
  ASSUME NEW a \in Int, NEW b \in Int, NEW w \in Nat, a <= b
  PROVE  a * w <= b * w
OBVIOUS

LEMMA HalfCovers ==
  ASSUME NEW m \in Nat, NEW w \in Nat, NEW n \in Nat, NEW h \in Nat,
         Covers(m, w, n), 2 * h = m \/ 2 * h = m + 1
  PROVE  Covers(h, 2 * w, n)
<1>1. h * (2 * w) = (2 * h) * w /\ (h - 1) * (2 * w) = (2 * h - 2) * w
  OBVIOUS
<1>2. m * w <= (2 * h) * w
  BY Monotone
<1>3. (2 * h - 2) * w <= (m - 1) * w
  <2>1. 2 * h - 2 \in Int /\ m - 1 \in Int /\ 2 * h - 2 <= m - 1
    OBVIOUS
  <2> QED
    BY <2>1, Monotone
<1>4. /\ m * w \in Int /\ (2 * h) * w \in Int /\ (2 * h - 2) * w \in Int
      /\ (m - 1) * w \in Int
  OBVIOUS
<1> HIDE DEF Covers
<1>5. n <= m * w /\ (m - 1) * w < n
  BY DEF Covers
<1>6. n <= (2 * h) * w /\ (2 * h - 2) * w < n
  BY <1>2, <1>3, <1>4, <1>5
<1> QED
  BY <1>1, <1>6 DEF Covers

\* There is a second half exactly where calc_merkle_root has a second hash.
LEMMA SecondHalf ==
  ASSUME NEW m \in Nat, NEW w \in Nat, NEW n \in Nat, Covers(m, w, n), NEW j \in Nat
  PROVE  (2 * j + 1 < m) <=> (j * (2 * w) + w < n)
<1>1. j * (2 * w) + w = (2 * j + 1) * w
  OBVIOUS
<1>2. CASE 2 * j + 1 < m
  <2>1. 2 * j + 1 \in Int /\ m - 1 \in Int /\ 2 * j + 1 <= m - 1
    BY <1>2
  <2>2. (2 * j + 1) * w <= (m - 1) * w
    BY <2>1, Monotone
  <2>3. (2 * j + 1) * w \in Int /\ (m - 1) * w \in Int
    OBVIOUS
  <2> QED
    BY <1>1, <1>2, <2>2, <2>3 DEF Covers
<1>3. CASE ~(2 * j + 1 < m)
  <2>1. 2 * j + 1 \in Int /\ m \in Int /\ m <= 2 * j + 1
    BY <1>3
  <2>2. m * w <= (2 * j + 1) * w
    BY <2>1, Monotone
  <2>3. (2 * j + 1) * w \in Int /\ m * w \in Int
    OBVIOUS
  <2> QED
    BY <1>1, <1>3, <2>2, <2>3 DEF Covers
<1> QED
  BY <1>2, <1>3

LEMMA NextRow ==
  ASSUME NEW s, Len(s) \in Nat, NEW L, LevelsOf(s, L), NEW T, SubtreesOf(s, T),
         NEW k \in Nat, LevelIsRow(s, L, T, k), Leaves[k] < Len(s)
  PROVE  LevelIsRow(s, L, T, k + 1)
<1> DEFINE w == Leaves[k]
<1> DEFINE n == Len(s)
<1>1. w \in Nat /\ n \in Nat /\ Leaves[k + 1] = 2 * w
  BY LeavesGrow, LeavesAre
<1>2. PICK S : \E m \in Nat :
         /\ L[k] \in Seq(S) /\ Len(L[k]) = m /\ Covers(m, w, n)
         /\ \A i \in Nat : i < m => L[k][i + 1] = T[k][i * w]
  BY DEF LevelIsRow
<1>3. PICK m \in Nat :
         /\ L[k] \in Seq(S) /\ Len(L[k]) = m /\ Covers(m, w, n)
         /\ \A i \in Nat : i < m => L[k][i + 1] = T[k][i * w]
  BY <1>2
<1>4. 1 < m
  <2>1. m = 0 => m * w = 0
    BY <1>1
  <2>2. m = 1 => m * w = w
    BY <1>1
  <2> QED
    BY <1>1, <1>3, <2>1, <2>2 DEF Covers
<1>5. PICK h \in Nat : 2 * h = m \/ 2 * h = m + 1
  <2>1. (m + 1) \div 2 \in Nat
    OBVIOUS
  <2>2. 2 * ((m + 1) \div 2) = m \/ 2 * ((m + 1) \div 2) = m + 1
    OBVIOUS
  <2> QED
    BY <2>1, <2>2
<1>6. PICK level, next : level = L[k] /\ next = Halved(L[k])
  OBVIOUS
<1>7. /\ next \in Seq(S \X S) /\ Len(next) = h
      /\ \A j \in Nat : j < h =>
           next[j + 1] = <<level[2 * j + 1],
                           IF 2 * j + 1 < m THEN level[2 * j + 2] ELSE level[2 * j + 1]>>
  <2>1. level \in Seq(S) /\ m = Len(level) /\ 1 < m
    BY <1>3, <1>4, <1>6
  <2>2. PairsOf(S, level, m, Halved(level), h)
    BY <1>5, <2>1, HalvedIs
  <2>3. PairsOf(S, level, m, next, h)
    BY <1>6, <2>2
  <2> QED
    BY <2>3 DEF PairsOf
<1>8. L[k + 1] = next
  BY <1>6 DEF LevelsOf
<1>9. Covers(h, 2 * w, n)
  BY <1>1, <1>3, <1>5, HalfCovers
<1>10. ASSUME NEW j \in Nat, j < h
       PROVE  next[j + 1] = T[k + 1][j * (2 * w)]
  <2>1. /\ 2 * j \in Nat /\ 2 * j + 1 \in Nat /\ 2 * j < m
        /\ (2 * j) * w = j * (2 * w) /\ (2 * j + 1) * w = j * (2 * w) + w
        /\ j * (2 * w) \in Nat
    BY <1>1, <1>5, <1>10
  <2>2. level[2 * j + 1] = T[k][j * (2 * w)]
    BY <1>3, <1>6, <2>1
  <2>3. (2 * j + 1 < m) <=> (j * (2 * w) + w < n)
    BY <1>1, <1>3, SecondHalf
  <2>4. 2 * j + 1 < m => level[2 * j + 2] = T[k][j * (2 * w) + w]
    <3>1. (2 * j + 1) + 1 = 2 * j + 2
      OBVIOUS
    <3>2. 2 * j + 1 < m => L[k][(2 * j + 1) + 1] = T[k][(2 * j + 1) * w]
      BY <1>3, <2>1
    <3> QED
      BY <1>6, <2>1, <3>1, <3>2
  <2>5. T[k + 1] = Joined(s, w, T[k])
    BY DEF SubtreesOf
  <2>6. PICK i \in Nat : i = j * (2 * w)
    BY <2>1
  <2>7. T[k + 1][i] = <<T[k][i], IF i + w < n THEN T[k][i + w] ELSE T[k][i]>>
    BY <2>5, <2>6 DEF Joined
  <2>8. next[j + 1] = <<level[2 * j + 1],
                        IF 2 * j + 1 < m THEN level[2 * j + 2] ELSE level[2 * j + 1]>>
    BY <1>7, <1>10
  <2> HIDE DEF w, n
  <2> QED
    BY <2>2, <2>3, <2>4, <2>6, <2>7, <2>8
<1> HIDE DEF w, n
<1> QED
  <2>1. \A i \in Nat : i < h => L[k + 1][i + 1] = T[k + 1][i * Leaves[k + 1]]
    BY <1>1, <1>8, <1>10
  <2>2. L[k + 1] \in Seq(S \X S) /\ Len(L[k + 1]) = h /\ Covers(h, Leaves[k + 1], Len(s))
    BY <1>1, <1>7, <1>8, <1>9 DEF n
  <2> QED
    BY <2>1, <2>2 DEF LevelIsRow

\* The root of any list of transactions is that of its tree.
LEMMA TreeRoot ==
  ASSUME NEW S, NEW s \in Seq(S)
  PROVE  calc_merkle_root(s) = MerkleTree(s)
<1>1. CASE s = << >>
  BY <1>1 DEF calc_merkle_root, MerkleTree
<1>2. CASE s # << >>
  <2>1. PICK L : LevelsOf(s, L) /\ calc_merkle_root(s) = L[Len(s)][1]
    BY <1>2, RootIs
  <2>2. PICK T, d, n : T = Subtree(s) /\ n = Len(s) /\ d = Depth(n)
    OBVIOUS
  <2>3. SubtreesOf(s, T)
    BY <2>2, SubtreeIs
  <2>4. n \in Nat /\ n # 0
    BY <1>2, <2>2, EmptySeq, LenProperties
  <2>5. d \in Nat /\ d <= n /\ n <= Leaves[d] /\ \A c \in Nat : c < d => Leaves[c] < n
    BY <2>2, <2>4, DepthIs
  <2>6. LevelIsRow(s, L, T, 0)
    <3>1. L[0] = s /\ T[0] = [i \in Nat |-> s[i + 1]] /\ Leaves[0] = 1
      BY <2>1, <2>3, LeavesAre DEF LevelsOf, SubtreesOf
    <3>2. Covers(n, Leaves[0], n)
      BY <2>4, <3>1 DEF Covers
    <3>3. \A i \in Nat : i < n => L[0][i + 1] = T[0][i * Leaves[0]]
      BY <3>1
    <3> QED
      BY <2>2, <2>4, <3>1, <3>2, <3>3 DEF LevelIsRow
  <2>7. LevelIsRow(s, L, T, d)
    <3> DEFINE Rows == {k \in Nat : k <= d => LevelIsRow(s, L, T, k)}
    <3>1. 0 \in Rows
      BY <2>6
    <3>2. ASSUME NEW k \in Nat, k \in Rows PROVE k + 1 \in Rows
      <4> SUFFICES ASSUME k + 1 <= d PROVE LevelIsRow(s, L, T, k + 1)
        OBVIOUS
      <4>1. k < d /\ LevelIsRow(s, L, T, k)
        BY <2>5, <3>2
      <4> QED
        BY <2>1, <2>2, <2>3, <2>4, <2>5, <4>1, NextRow
    <3> HIDE DEF Rows
    <3>3. \A k \in Nat : k \in Rows
      BY <3>1, <3>2, Induction
    <3> QED
      BY <2>5, <3>3 DEF Rows
  <2>8. Len(L[d]) = 1 /\ L[d][1] = T[d][0]
    <3>1. PICK m \in Nat : /\ Len(L[d]) = m /\ Covers(m, Leaves[d], n)
                           /\ \A i \in Nat : i < m => L[d][i + 1] = T[d][i * Leaves[d]]
      BY <2>2, <2>7 DEF LevelIsRow
    <3>2. PICK w \in Nat : w = Leaves[d]
      BY <2>5, LeavesGrow
    <3>3. m # 0
      BY <2>4, <3>1, <3>2 DEF Covers
    <3>4. m <= 1
      <4> SUFFICES ASSUME 2 <= m PROVE FALSE
        OBVIOUS
      <4>1. 1 \in Int /\ m - 1 \in Int /\ 1 <= m - 1
        OBVIOUS
      <4>2. 1 * w <= (m - 1) * w
        BY <3>2, <4>1, Monotone
      <4>3. (m - 1) * w < n /\ n <= w /\ (m - 1) * w \in Int
        BY <2>5, <3>1, <3>2 DEF Covers
      <4> QED
        BY <2>4, <3>2, <4>2, <4>3
    <3>5. m = 1 /\ 0 * w = 0
      BY <3>2, <3>3, <3>4
    <3> QED
      BY <3>1, <3>2, <3>5
  <2>9. L[n] = L[d]
    <3> DEFINE Done == {k \in Nat : d <= k => L[k] = L[d]}
    <3>1. 0 \in Done
      BY <2>5
    <3>2. ASSUME NEW k \in Nat, k \in Done PROVE k + 1 \in Done
      <4> SUFFICES ASSUME d <= k + 1, d # k + 1 PROVE L[k + 1] = L[d]
        OBVIOUS
      <4>1. L[k] = L[d] /\ L[k + 1] = Halved(L[k])
        BY <2>1, <2>5, <3>2 DEF LevelsOf
      <4> QED
        BY <2>8, <4>1 DEF Halved
    <3> HIDE DEF Done
    <3>3. \A k \in Nat : k \in Done
      BY <3>1, <3>2, Induction
    <3> QED
      BY <2>4, <2>5, <3>3 DEF Done
  <2> QED
    BY <1>2, <2>1, <2>2, <2>8, <2>9 DEF MerkleTree
<1> QED
  BY <1>1, <1>2

-----------------------------------------------------------------------------
(* The root commits to its leaves. *)

\* The subtrees of depth k + 1 are pairs of those of depth k.
LeafAt(s, T, i) == T[0][i] = s[i + 1]

PairAt(T, i, k, l, r) == l = k + 1 => T[l][i] = <<T[k][i], r>>

RightHalf(s, T, i, k, x) == IF x < Len(s) THEN T[k][x] ELSE T[k][i]

LEMMA LeafIs ==
  ASSUME NEW s, NEW T, SubtreesOf(s, T), NEW i \in Nat
  PROVE  LeafAt(s, T, i)
BY DEF SubtreesOf, LeafAt

LEMMA PairIs ==
  ASSUME NEW s, NEW T, SubtreesOf(s, T), NEW k \in Nat, NEW i \in Nat, NEW l,
         NEW x, x = i + Leaves[k]
  PROVE  PairAt(T, i, k, l, RightHalf(s, T, i, k, x))
<1>1. T[k + 1] = Joined(s, Leaves[k], T[k])
  BY DEF SubtreesOf
<1> QED
  BY <1>1 DEF Joined, PairAt, RightHalf

\* A subtree of T and one of U are equal.
Meet(T, U, i, j, k, c) == T[k][i] = U[c][j]

LEMMA PairHeads ==
  ASSUME NEW T, NEW U, NEW i \in Nat, NEW j \in Nat, NEW k \in Nat, NEW c \in Nat,
         NEW l \in Nat, NEW m \in Nat, l = k + 1, m = c + 1,
         NEW q, NEW r, PairAt(T, i, k, l, q), PairAt(U, j, c, m, r), Meet(T, U, i, j, l, m)
  PROVE  Meet(T, U, i, j, k, c) /\ q = r
<1>1. PICK a, b : a = T[k][i] /\ b = U[c][j]
  OBVIOUS
<1>2. T[l][i] = <<a, q>> /\ U[m][j] = <<b, r>>
  BY <1>1 DEF PairAt
<1>3. <<a, q>> = <<b, r>>
  BY <1>2 DEF Meet
<1>4. a = b /\ q = r
  BY <1>3
<1> QED
  BY <1>1, <1>4 DEF Meet

\* Equal trees of a depth begin with equal leaves.
FirstTold(s, u, T, U, k) == \A i, j \in Nat : T[k][i] = U[k][j] => s[i + 1] = u[j + 1]

LEMMA FirstLeaf ==
  ASSUME NEW s, NEW T, SubtreesOf(s, T), NEW u, NEW U, SubtreesOf(u, U)
  PROVE  \A k \in Nat : FirstTold(s, u, T, U, k)
<1> DEFINE S == {k \in Nat : FirstTold(s, u, T, U, k)}
<1>1. 0 \in S
  <2>1. ASSUME NEW i \in Nat, NEW j \in Nat, T[0][i] = U[0][j] PROVE s[i + 1] = u[j + 1]
    BY <2>1, LeafIs DEF LeafAt
  <2> QED
    BY <2>1 DEF FirstTold
<1>2. ASSUME NEW k \in Nat, k \in S PROVE k + 1 \in S
  <2>1. ASSUME NEW i \in Nat, NEW j \in Nat, T[k + 1][i] = U[k + 1][j]
        PROVE  s[i + 1] = u[j + 1]
    <3>1. PICK l, x, y \in Nat : l = k + 1 /\ x = i + Leaves[k] /\ y = j + Leaves[k]
      BY LeavesGrow
    <3>2. /\ PairAt(T, i, k, l, RightHalf(s, T, i, k, x))
          /\ PairAt(U, j, k, l, RightHalf(u, U, j, k, y))
      BY <3>1, PairIs
    <3>3. Meet(T, U, i, j, l, l)
      BY <2>1, <3>1 DEF Meet
    <3>4. Meet(T, U, i, j, k, k)
      BY <3>1, <3>2, <3>3, PairHeads
    <3> QED
      BY <1>2, <3>4 DEF FirstTold, Meet
  <2> QED
    BY <2>1 DEF FirstTold
<1> HIDE DEF S
<1>3. \A k \in Nat : k \in S
  BY <1>1, <1>2, Induction
<1> QED
  BY <1>3 DEF S

\* No element of s is repeated.
Distinct(s) ==
  \A x, y \in Nat : x < Len(s) /\ y < Len(s) /\ s[x + 1] = s[y + 1] => x = y

\* Where two trees begin equal, they are of the same leaves.
SameFrom(s, u, i, w) ==
  \A x \in Nat : i <= x /\ x < i + w =>
    (x < Len(s) <=> x < Len(u)) /\ (x < Len(s) => s[x + 1] = u[x + 1])

LeavesTold(s, u, T, U, k) ==
  \A i \in Nat : i < Len(s) /\ i < Len(u) /\ T[k][i] = U[k][i] => SameFrom(s, u, i, Leaves[k])

\* A leaf to the right is not taken for the repetition of the left half.
LEMMA NoneAlone ==
  ASSUME NEW s, Len(s) \in Nat, Distinct(s), NEW T, SubtreesOf(s, T),
         NEW k \in Nat, NEW i \in Nat, i + Leaves[k] < Len(s)
  PROVE  T[k][i + Leaves[k]] # T[k][i]
<1>1. Leaves[k] \in Nat /\ 0 < Leaves[k] /\ i + Leaves[k] \in Nat
  BY LeavesGrow
<1>2. SUFFICES ASSUME T[k][i + Leaves[k]] = T[k][i] PROVE FALSE
  OBVIOUS
<1>3. FirstTold(s, s, T, T, k)
  BY FirstLeaf
<1>4. PICK x \in Nat : x = i + Leaves[k]
  BY <1>1
<1>5. s[x + 1] = s[i + 1]
  BY <1>2, <1>3, <1>4 DEF FirstTold
<1>6. x < Len(s) /\ i < Len(s) /\ x # i
  BY <1>1, <1>4
<1> QED
  BY <1>5, <1>6 DEF Distinct

LEMMA SameLeaves ==
  ASSUME NEW s, Len(s) \in Nat, Distinct(s), NEW T, SubtreesOf(s, T),
         NEW u, Len(u) \in Nat, Distinct(u), NEW U, SubtreesOf(u, U)
  PROVE  \A k \in Nat : LeavesTold(s, u, T, U, k)
<1> DEFINE S == {k \in Nat : LeavesTold(s, u, T, U, k)}
<1>1. 0 \in S
  <2>1. ASSUME NEW i \in Nat, i < Len(s), i < Len(u), T[0][i] = U[0][i]
        PROVE  SameFrom(s, u, i, Leaves[0])
    <3>1. s[i + 1] = u[i + 1] /\ Leaves[0] = 1
      BY <2>1, LeafIs, LeavesAre DEF LeafAt
    <3>2. \A x \in Nat : i <= x /\ x < i + 1 => x = i
      OBVIOUS
    <3> QED
      BY <2>1, <3>1, <3>2 DEF SameFrom
  <2> QED
    BY <2>1 DEF LeavesTold
<1>2. ASSUME NEW k \in Nat, k \in S PROVE k + 1 \in S
  <2>1. ASSUME NEW i \in Nat, i < Len(s), i < Len(u), T[k + 1][i] = U[k + 1][i]
        PROVE  SameFrom(s, u, i, Leaves[k + 1])
    <3>1. PICK w \in Nat : w = Leaves[k] /\ Leaves[k + 1] = 2 * w
      BY LeavesGrow, LeavesAre
    <3>2. PICK x \in Nat : x = i + w
      OBVIOUS
    <3>3. PICK l \in Nat : l = k + 1
      OBVIOUS
    <3>4. T[k][i] = U[k][i] /\ RightHalf(s, T, i, k, x) = RightHalf(u, U, i, k, x)
      <4>1. /\ PairAt(T, i, k, l, RightHalf(s, T, i, k, x))
            /\ PairAt(U, i, k, l, RightHalf(u, U, i, k, x))
        BY <3>1, <3>2, PairIs
      <4>2. Meet(T, U, i, i, l, l)
        BY <2>1, <3>3 DEF Meet
      <4>3. /\ Meet(T, U, i, i, k, k)
            /\ RightHalf(s, T, i, k, x) = RightHalf(u, U, i, k, x)
        BY <3>3, <4>1, <4>2, PairHeads
      <4> QED
        BY <4>3 DEF Meet
    <3>5. LeavesTold(s, u, T, U, k)
      BY <1>2
    <3>6. SameFrom(s, u, i, w)
      BY <2>1, <3>1, <3>4, <3>5 DEF LeavesTold
    <3>7. x < Len(s) => T[k][x] # T[k][i]
      BY <3>1, <3>2, NoneAlone
    <3>8. x < Len(u) => U[k][x] # U[k][i]
      BY <3>1, <3>2, NoneAlone
    <3>9. CASE x < Len(s) /\ x < Len(u)
      <4>1. T[k][x] = U[k][x]
        BY <3>4, <3>9 DEF RightHalf
      <4>2. SameFrom(s, u, x, w)
        BY <3>1, <3>5, <3>9, <4>1 DEF LeavesTold
      <4>3. \A y \in Nat : i <= y /\ y < i + 2 * w =>
              (i <= y /\ y < i + w) \/ (x <= y /\ y < x + w)
        BY <3>2
      <4> QED
        BY <3>1, <3>6, <4>2, <4>3 DEF SameFrom
    <3>10. CASE ~(x < Len(s)) /\ ~(x < Len(u))
      <4>1. \A y \in Nat : i <= y /\ y < i + 2 * w =>
              (i <= y /\ y < i + w) \/ (~(y < Len(s)) /\ ~(y < Len(u)))
        BY <3>2, <3>10
      <4> QED
        BY <3>1, <3>6, <4>1 DEF SameFrom
    <3> QED
      BY <3>4, <3>7, <3>8, <3>9, <3>10 DEF RightHalf
  <2> QED
    BY <2>1 DEF LeavesTold
<1> HIDE DEF S
<1>3. \A k \in Nat : k \in S
  BY <1>1, <1>2, Induction
<1> QED
  BY <1>3 DEF S

\* The hash of a transaction is neither that of a pair of hashes nor that of nothing.
HashesApart == \A t \in Trx : t # << >> /\ \A l, r : t # hash_pair(l, r)

\* Trees of different depths are different.
DepthsTold(s, T, U) == \A k, e, i, j \in Nat : i < Len(s) => T[k][i] # U[k + e + 1][j]

LEMMA DepthTold ==
  ASSUME HashesApart, NEW s \in Seq(Trx), NEW T, SubtreesOf(s, T), NEW u, NEW U, SubtreesOf(u, U)
  PROVE  DepthsTold(s, T, U)
<1> DEFINE S == {k \in Nat : \A e, i, j \in Nat : i < Len(s) => T[k][i] # U[k + e + 1][j]}
<1>1. 0 \in S
  <2>1. ASSUME NEW e \in Nat, NEW i \in Nat, NEW j \in Nat, i < Len(s)
        PROVE  T[0][i] # U[0 + e + 1][j]
    <3>1. i + 1 \in 1 .. Len(s) /\ 0 + e + 1 = e + 1
      BY <2>1
    <3>2. T[0][i] \in Trx
      <4>1. T[0][i] = s[i + 1]
        BY LeafIs DEF LeafAt
      <4>2. s[i + 1] \in Trx
        BY <3>1, ElementOfSeq
      <4> QED
        BY <4>1, <4>2
    <3>3. \E l, r : U[e + 1][j] = hash_pair(l, r)
      <4>1. PICK l, x, r : l = e + 1 /\ x = j + Leaves[e] /\ r = RightHalf(u, U, j, e, x)
        OBVIOUS
      <4>2. PairAt(U, j, e, l, r)
        BY <4>1, PairIs
      <4> QED
        BY <4>1, <4>2 DEF PairAt, hash_pair
    <3> QED
      BY <3>1, <3>2, <3>3 DEF HashesApart
  <2> QED
    BY <2>1
<1>2. ASSUME NEW k \in Nat, k \in S PROVE k + 1 \in S
  <2>1. ASSUME NEW e \in Nat, NEW i \in Nat, NEW j \in Nat, i < Len(s)
        PROVE  T[k + 1][i] # U[k + 1 + e + 1][j]
    <3>1. PICK c \in Nat : c = k + e + 1 /\ k + 1 + e + 1 = c + 1
      OBVIOUS
    <3>2. T[k][i] # U[c][j]
      BY <1>2, <2>1, <3>1
    <3>3. PICK l, m, x, y \in Nat :
            l = k + 1 /\ m = c + 1 /\ x = i + Leaves[k] /\ y = j + Leaves[c]
      <4>1. /\ k + 1 \in Nat /\ c + 1 \in Nat
            /\ i + Leaves[k] \in Nat /\ j + Leaves[c] \in Nat
        BY LeavesGrow
      <4> QED
        BY <4>1
    <3>4. /\ PairAt(T, i, k, l, RightHalf(s, T, i, k, x))
          /\ PairAt(U, j, c, m, RightHalf(u, U, j, c, y))
      BY <3>3, PairIs
    <3>5. T[l][i] # U[m][j]
      <4>1. PICK q, r : q = RightHalf(s, T, i, k, x) /\ r = RightHalf(u, U, j, c, y)
        OBVIOUS
      <4>2. PairAt(T, i, k, l, q) /\ PairAt(U, j, c, m, r)
        BY <3>4, <4>1
      <4>3. ASSUME T[l][i] = U[m][j] PROVE T[k][i] = U[c][j]
        <5>1. Meet(T, U, i, j, l, m)
          BY <4>3 DEF Meet
        <5>2. Meet(T, U, i, j, k, c)
          BY <3>3, <4>2, <5>1, PairHeads
        <5> QED
          BY <5>2 DEF Meet
      <4> QED
        BY <3>2, <4>3
    <3> QED
      BY <3>1, <3>3, <3>5
  <2> QED
    BY <2>1
<1> HIDE DEF S
<1>3. \A k \in Nat : k \in S
  BY <1>1, <1>2, Induction
<1> QED
  BY <1>3 DEF S, DepthsTold

\* The root of the tree of a list, which is not empty
LEMMA RootOf ==
  ASSUME NEW s \in Seq(Trx), s # << >>
  PROVE  \E T : \E d \in Nat :
           SubtreesOf(s, T) /\ calc_merkle_root(s) = T[d][0] /\ Len(s) <= Leaves[d]
<1>1. PICK T, n, d : T = Subtree(s) /\ n = Len(s) /\ d = Depth(n)
  OBVIOUS
<1>2. n \in Nat
  BY <1>1
<1>3. d \in Nat /\ n <= Leaves[d]
  BY <1>1, <1>2, DepthIs
<1>4. calc_merkle_root(s) = T[d][0]
  BY <1>1, TreeRoot DEF MerkleTree
<1> QED
  BY <1>1, <1>3, <1>4, SubtreeIs

LEMMA RootTells ==
  ASSUME HashesApart, NEW s \in Seq(Trx), NEW u \in Seq(Trx), Distinct(s), Distinct(u),
         s # << >>, u # << >>, calc_merkle_root(s) = calc_merkle_root(u)
  PROVE  s = u
<1>1. PICK T : \E d \in Nat :
         SubtreesOf(s, T) /\ calc_merkle_root(s) = T[d][0] /\ Len(s) <= Leaves[d]
  BY RootOf
<1>2. PICK d \in Nat :
         SubtreesOf(s, T) /\ calc_merkle_root(s) = T[d][0] /\ Len(s) <= Leaves[d]
  BY <1>1
<1>3. PICK U : \E e \in Nat :
         SubtreesOf(u, U) /\ calc_merkle_root(u) = U[e][0] /\ Len(u) <= Leaves[e]
  BY RootOf
<1>4. PICK e \in Nat :
         SubtreesOf(u, U) /\ calc_merkle_root(u) = U[e][0] /\ Len(u) <= Leaves[e]
  BY <1>3
<1>5. /\ Len(s) \in Nat /\ Len(u) \in Nat /\ 0 < Len(s) /\ 0 < Len(u)
      /\ T[d][0] = U[e][0]
  <2>1. Len(s) # 0 /\ Len(u) # 0
    BY EmptySeq
  <2>2. Len(s) \in Nat /\ Len(u) \in Nat
    OBVIOUS
  <2>3. T[d][0] = U[e][0]
    BY <1>2, <1>4
  <2> QED
    BY <2>1, <2>2, <2>3
<1>6. d = e
  <2>1. ASSUME d < e PROVE FALSE
    <3>1. PICK c \in Nat : d + c + 1 = e
      <4>1. e - d - 1 \in Nat /\ d + (e - d - 1) + 1 = e
        BY <2>1
      <4> QED
        BY <4>1
    <3>2. DepthsTold(s, T, U)
      BY <1>2, <1>4, DepthTold
    <3>3. T[d][0] # U[d + c + 1][0]
      BY <1>5, <3>2 DEF DepthsTold
    <3> QED
      BY <1>5, <3>1, <3>3
  <2>2. ASSUME e < d PROVE FALSE
    <3>1. PICK c \in Nat : e + c + 1 = d
      <4>1. d - e - 1 \in Nat /\ e + (d - e - 1) + 1 = d
        BY <2>2
      <4> QED
        BY <4>1
    <3>2. DepthsTold(u, U, T)
      BY <1>2, <1>4, DepthTold
    <3>3. U[e][0] # T[e + c + 1][0]
      BY <1>5, <3>2 DEF DepthsTold
    <3> QED
      BY <1>5, <3>1, <3>3
  <2> QED
    BY <2>1, <2>2
<1>7. LeavesTold(s, u, T, U, d)
  BY <1>2, <1>4, <1>5, SameLeaves
<1>8. SameFrom(s, u, 0, Leaves[d])
  BY <1>5, <1>6, <1>7 DEF LeavesTold
<1>9. PICK w \in Nat : w = Leaves[d]
  BY LeavesGrow
<1>10. \A x \in Nat : x < w =>
          (x < Len(s) <=> x < Len(u)) /\ (x < Len(s) => s[x + 1] = u[x + 1])
  BY <1>8, <1>9 DEF SameFrom
<1>11. Len(s) <= w /\ Len(u) <= w
  BY <1>2, <1>4, <1>6, <1>9
<1>12. Len(s) = Len(u)
  BY <1>5, <1>10, <1>11
<1>13. \A i \in 1 .. Len(s) : s[i] = u[i]
  <2> SUFFICES ASSUME NEW i \in 1 .. Len(s) PROVE s[i] = u[i]
    OBVIOUS
  <2>1. i - 1 \in Nat /\ i - 1 < w /\ i - 1 < Len(s) /\ (i - 1) + 1 = i
    BY <1>5, <1>11
  <2> QED
    BY <1>10, <2>1
<1> QED
  BY <1>12, <1>13, SeqEqual

\* The root of nothing is that of no other list.
LEMMA NothingTold ==
  ASSUME HashesApart, NEW s \in Seq(Trx), s # << >>
  PROVE  calc_merkle_root(s) # << >>
<1>1. PICK T : \E d \in Nat :
         SubtreesOf(s, T) /\ calc_merkle_root(s) = T[d][0] /\ Len(s) <= Leaves[d]
  BY RootOf
<1>2. PICK d \in Nat :
         SubtreesOf(s, T) /\ calc_merkle_root(s) = T[d][0] /\ Len(s) <= Leaves[d]
  BY <1>1
<1>3. CASE d = 0
  <2>1. 0 + 1 \in 1 .. Len(s)
    BY EmptySeq
  <2>2. T[0][0] \in Trx
    <3>1. T[0][0] = s[0 + 1] /\ s[0 + 1] \in Trx
      BY <1>2, <2>1, LeafIs, ElementOfSeq DEF LeafAt
    <3> QED
      BY <3>1
  <2> QED
    BY <1>2, <1>3, <2>2 DEF HashesApart
<1>4. CASE d # 0
  <2>1. d - 1 \in Nat /\ (d - 1) + 1 = d
    BY <1>4
  <2>2. PICK c \in Nat : c + 1 = d
    BY <2>1
  <2>3. PICK x, r : x = 0 + Leaves[c] /\ r = RightHalf(s, T, 0, c, x)
    OBVIOUS
  <2>4. PairAt(T, 0, c, d, r)
    BY <1>2, <2>3, PairIs
  <2>5. PICK l : l = T[c][0]
    OBVIOUS
  <2>6. T[d][0] = <<l, r>>
    BY <2>2, <2>4, <2>5 DEF PairAt
  <2> QED
    BY <1>2, <2>6
<1> QED
  BY <1>3, <1>4

LEMMA ListIs ==
  ASSUME NEW s \in Lists
  PROVE  s \in Seq(Trx) /\ Distinct(s)
<1>1. PICK n \in 0 .. Cardinality(Trx) : s \in [1 .. n -> Trx]
  BY DEF Lists
<1>2. n \in Nat
  OBVIOUS
<1>3. s \in Seq(Trx) /\ Len(s) = n
  BY <1>1, <1>2, FunctionIsSeq
<1>4. \A i, j \in 1 .. n : s[i] = s[j] => i = j
  BY <1>1 DEF Lists
<1>5. ASSUME NEW x \in Nat, NEW y \in Nat, x < Len(s), y < Len(s), s[x + 1] = s[y + 1]
      PROVE  x = y
  <2>1. x + 1 \in 1 .. n /\ y + 1 \in 1 .. n
    BY <1>2, <1>3, <1>5
  <2>2. x + 1 = y + 1
    BY <1>4, <1>5, <2>1
  <2> QED
    BY <2>2
<1> QED
  BY <1>3, <1>5 DEF Distinct

\* What on_tick takes from a pool is a list of transactions, whose root is right.
LEMMA RootsRight == ASSUME TypeOK PROVE RootIsTree
<1> SUFFICES ASSUME mp \in MemPools(Trx), NEW count \in 1 .. MAX_MEMPOOL
             PROVE  calc_merkle_root(FirstMany(mp, count)) = MerkleTree(FirstMany(mp, count))
  BY DEF TypeOK, RootIsTree, Offered
<1>1. FirstMany(mp, count) \in Seq(Trx)
  BY PopType
<1> QED
  BY <1>1, TreeRoot

LEMMA RootsTell == HashesApart => RootCommits
<1> SUFFICES ASSUME HashesApart, NEW s \in Lists, NEW u \in Lists, Roots[u] = Roots[s]
             PROVE  u = s
  BY DEF RootCommits
<1>1. calc_merkle_root(u) = calc_merkle_root(s)
  BY DEF Roots
<1>2. s \in Seq(Trx) /\ Distinct(s) /\ u \in Seq(Trx) /\ Distinct(u)
  BY ListIs
<1>3. CASE s # << >> /\ u # << >>
  BY <1>1, <1>2, <1>3, RootTells
<1>4. CASE s = << >> \/ u = << >>
  <2>1. calc_merkle_root(<< >>) = << >>
    BY DEF calc_merkle_root
  <2> QED
    BY <1>1, <1>2, <1>4, <2>1, NothingTold
<1> QED
  BY <1>3, <1>4

\* Whatever on_tick takes from the pool, calc_merkle_root returns the root of the tree
\* that has these transactions as its leaves, for any number of them.
THEOREM RootOfTree == Spec => []RootIsTree
<1>1. PoolInv => RootIsTree
  BY RootsRight DEF PoolInv
<1> QED
  BY <1>1, PoolInductive, PTL

\* The root in a header (calc_merkle_root) tells a list of transactions, none of them
\* repeated, from every other such list, if no transaction hashes like a pair of hashes.
THEOREM RootsCommit == ASSUME HashesApart PROVE Spec => []RootCommits
<1>1. RootCommits
  BY RootsTell
<1> QED
  BY <1>1, PTL

=============================================================================
