---------------------------- MODULE OrphanProofs -----------------------------
(***************************************************************************)
(* What becomes of blocks that arrive early: the counter of put_orphan, no *)
(* block kept twice, and no block lost to a node because it was marked as  *)
(* seen, for any number of nodes, time-outs, failures and restarts.        *)
(***************************************************************************)
EXTENDS SafetyProofs

\* Two premises on the limits, for the theorems that are claims about stores which are
\* not full.  mark_seen_block forgets no hash, ...
RoomForHashes == \A n \in Node : Len(seen_blocks[n]) < MAX_SEEN_BLOCKS

\* ... and put_orphan refuses no block.
RoomForOrphans ==
  \A n \in Node :
    /\ orphans_total[n] < MAX_ORPHANS_TOTAL
    /\ \A h \in DOMAIN orphans[n] : Len(orphans[n][h]) < MAX_ORPHANS_PER_PREV

-----------------------------------------------------------------------------
(* The stores of a node *)

\* The orphan at a place
At(o, q) == o[q[1]][q[2]]

LEMMA PlacesAre ==
  ASSUME NEW o
  PROVE  \A q : q \in Places(o) <=>
                \E h \in DOMAIN o : \E i \in DOMAIN o[h] : q = <<h, i>>
BY DEF Places

\* put_orphan adds one place, with the new block.
LEMMA PutPlaces ==
  ASSUME NEW o, OrphansOver(Block, o), NEW b \in Block
  PROVE  LET h == b.previous_hash
             new == WithBucket(o, h, Append(Bucket(o, h), b))
             q == <<h, Len(Bucket(o, h)) + 1>>
         IN  /\ Places(new) = Places(o) \cup {q} /\ q \notin Places(o)
             /\ At(new, q) = b /\ \A r \in Places(o) : At(new, r) = At(o, r)
<1> DEFINE h == b.previous_hash
           bs == Bucket(o, h)
           new == WithBucket(o, h, Append(bs, b))
           n == Len(bs)
           q == <<h, n + 1>>
<1>1. bs \in Seq(Block)
  BY BucketType
<1>2. /\ n \in Nat /\ DOMAIN bs = 1 .. n /\ DOMAIN Append(bs, b) = 1 .. n + 1
      /\ Append(bs, b)[n + 1] = b /\ \A i \in 1 .. n : Append(bs, b)[i] = bs[i]
  BY <1>1, AppendProperties, LenProperties
<1>3. /\ DOMAIN new = DOMAIN o \cup {h} /\ new[h] = Append(bs, b)
      /\ \A k \in DOMAIN o \ {h} : new[k] = o[k]
  BY DEF WithBucket
<1>4. (h \in DOMAIN o => bs = o[h]) /\ (h \notin DOMAIN o => bs = << >>)
  BY DEF Bucket
<1> HIDE DEF bs, new, n
<1>5. h \notin DOMAIN o => n = 0
  BY <1>1, <1>2, <1>4
<1>6. q \notin Places(o)
  BY <1>2, <1>4, <1>5, PlacesAre
<1>7. At(new, q) = b
  BY <1>2, <1>3 DEF At
<1>8. ASSUME NEW r \in Places(o) PROVE r \in Places(new) /\ At(new, r) = At(o, r)
  <2>1. PICK k \in DOMAIN o : \E i \in DOMAIN o[k] : r = <<k, i>>
    BY PlacesAre
  <2>2. PICK i \in DOMAIN o[k] : r = <<k, i>>
    BY <2>1
  <2>3. CASE k # h
    BY <1>3, <2>2, <2>3, PlacesAre DEF At
  <2>4. CASE k = h
    <3>1. i \in 1 .. n /\ i \in DOMAIN new[k] /\ new[k][i] = o[k][i]
      BY <1>2, <1>3, <1>4, <2>4
    <3> QED
      BY <1>3, <2>2, <3>1, PlacesAre DEF At
  <2> QED
    BY <2>3, <2>4
<1>9. ASSUME NEW r \in Places(new), r # q PROVE r \in Places(o)
  <2>1. PICK k \in DOMAIN new : \E i \in DOMAIN new[k] : r = <<k, i>>
    BY PlacesAre
  <2>2. PICK i \in DOMAIN new[k] : r = <<k, i>>
    BY <2>1
  <2>3. CASE k # h
    BY <1>3, <2>2, <2>3, PlacesAre
  <2>4. CASE k = h
    <3>1. i \in 1 .. n
      BY <1>2, <1>3, <1>9, <2>2, <2>4
    <3>2. h \in DOMAIN o /\ i \in DOMAIN o[h]
      BY <1>2, <1>4, <1>5, <3>1
    <3> QED
      BY <2>2, <2>4, <3>2, PlacesAre
  <2> QED
    BY <2>3, <2>4
<1>10. q \in Places(new)
  BY <1>2, <1>3, PlacesAre
<1>11. Places(new) = Places(o) \cup {q}
  BY <1>8, <1>9, <1>10
<1> QED
  BY <1>6, <1>7, <1>8, <1>11 DEF n, bs, new

\* What try_connect_orphans leaves of a bucket: all but the one at i, in other places.
LEMMA SwapRemoveIs ==
  ASSUME NEW bs \in Seq(Block), NEW i \in DOMAIN bs
  PROVE  LET left == SwapRemove(bs, i)
             m == Len(bs)
         IN  /\ left \in Seq(Block) /\ Len(left) = m - 1 /\ DOMAIN left = 1 .. m - 1
             /\ m \in Nat /\ i \in 1 .. m /\ DOMAIN bs = 1 .. m
             /\ \A j \in 1 .. m - 1 : left[j] = IF j = i THEN bs[m] ELSE bs[j]
<1>1. Len(bs) \in Nat \ {0} /\ DOMAIN bs = 1 .. Len(bs)
  BY LenProperties
<1>2. SwapRemove(bs, i) \in Seq(Block)
  BY SwapRemoveType
<1>3. DOMAIN SwapRemove(bs, i) = 1 .. Len(bs) - 1 /\ Len(bs) - 1 \in Nat
  BY <1>1 DEF SwapRemove
<1>4. Len(SwapRemove(bs, i)) = Len(bs) - 1
  BY <1>2, <1>3, LenProperties
<1> QED
  BY <1>1, <1>2, <1>3, <1>4 DEF SwapRemove

\* The buckets after they are put back: the other ones as before, that of h longer by
\* a beginning of what is left.
LEMMA PutBackIs ==
  ASSUME NEW o, OrphansOver(Block, o), NEW h, NEW left \in Seq(Block)
  PROVE  LET new == PutBack(o, h, left)
             e == Len(Bucket(o, h))
         IN  /\ e \in Nat /\ DOMAIN Bucket(o, h) = 1 .. e
             /\ DOMAIN o \subseteq DOMAIN new /\ DOMAIN new \subseteq DOMAIN o \cup {h}
             /\ \A k \in DOMAIN new \ {h} : new[k] = o[k]
             /\ h \in DOMAIN new =>
                  \A j \in DOMAIN new[h] :
                    /\ j \in Nat /\ 1 <= j
                    /\ j <= e => h \in DOMAIN o /\ j \in DOMAIN o[h] /\ new[h][j] = o[h][j]
                    /\ j > e => j - e \in DOMAIN left /\ new[h][j] = left[j - e]
             /\ e <= MAX_ORPHANS_PER_PREV /\ h \in DOMAIN o =>
                  \A j \in DOMAIN o[h] : j \in DOMAIN new[h] /\ new[h][j] = o[h][j]
<1> DEFINE new == PutBack(o, h, left)
           old == Bucket(o, h)
           e == Len(old)
           all == old \o left
           k == IF Len(all) < MAX_ORPHANS_PER_PREV THEN Len(all) ELSE MAX_ORPHANS_PER_PREV
           cut == SubSeq(all, 1, k)
<1>1. old \in Seq(Block) /\ e \in Nat /\ DOMAIN old = 1 .. e
  BY BucketType, LenProperties
<1>2. (h \in DOMAIN o => old = o[h]) /\ (h \notin DOMAIN o => old = << >>)
  BY DEF Bucket
<1>3. /\ all \in Seq(Block) /\ Len(all) = e + Len(left) /\ Len(left) \in Nat
      /\ DOMAIN left = 1 .. Len(left)
      /\ \A j \in 1 .. e : all[j] = old[j]
      /\ \A j \in e + 1 .. e + Len(left) : all[j] = left[j - e]
  <2>1. /\ all \in Seq(Block) /\ Len(all) = e + Len(left) /\ Len(left) \in Nat
        /\ DOMAIN left = 1 .. Len(left)
    BY <1>1, ConcatProperties, LenProperties
  <2> QED
    BY <1>1, <2>1, ConcatProperties
<1>4. k \in Nat /\ k <= Len(all) /\ (e <= MAX_ORPHANS_PER_PREV => e <= k)
  BY <1>1, <1>3, B4nAssumption
<1>5. DOMAIN cut = 1 .. k /\ \A j \in 1 .. k : cut[j] = all[j]
  <2>1. \A j \in 1 .. k : all[j] \in Block
    BY <1>3, <1>4, ElementOfSeq, LenProperties
  <2> QED
    BY <1>3, <1>4, <2>1, SubSeqProperties, LenProperties
<1>6. h \notin DOMAIN o => e = 0
  BY <1>1, <1>2
<1> HIDE DEF old, e, all, k
<1>7. CASE left = << >>
  <2>1. new = o
    BY <1>7 DEF PutBack
  <2> HIDE DEF new
  <2>2. h \in DOMAIN o => DOMAIN o[h] = 1 .. e
    BY <1>1, <1>2
  <2>3. DOMAIN o \subseteq DOMAIN new /\ DOMAIN new \subseteq DOMAIN o \cup {h}
    BY <2>1
  <2>4. \A j \in 1 .. e : j \in Nat /\ 1 <= j /\ j <= e /\ ~ j > e
    BY <1>1
  <2> QED
    BY <1>1, <2>1, <2>2, <2>3, <2>4 DEF new, old, e
<1>8. CASE left # << >>
  <2>1. new = WithBucket(o, h, cut)
    BY <1>8 DEF PutBack, cut, k, all, old
  <2>2. /\ DOMAIN new = DOMAIN o \cup {h} /\ new[h] = cut
        /\ \A x \in DOMAIN o \ {h} : new[x] = o[x]
    BY <2>1 DEF WithBucket
  <2> HIDE DEF new, cut
  <2>3. ASSUME NEW j \in DOMAIN new[h]
        PROVE  /\ j \in Nat /\ 1 <= j
               /\ j <= e => h \in DOMAIN o /\ j \in DOMAIN o[h] /\ new[h][j] = o[h][j]
               /\ j > e => j - e \in DOMAIN left /\ new[h][j] = left[j - e]
    <3>1. j \in 1 .. k /\ new[h][j] = all[j]
      BY <1>5, <2>2, <2>3
    <3>2. j \in Nat /\ 1 <= j
      BY <1>4, <3>1
    <3>3. ASSUME j <= e
          PROVE  h \in DOMAIN o /\ j \in DOMAIN o[h] /\ new[h][j] = o[h][j]
      <4>1. j \in 1 .. e /\ h \in DOMAIN o
        BY <1>1, <1>6, <3>2, <3>3
      <4> QED
        BY <1>1, <1>2, <1>3, <3>1, <4>1
    <3>4. ASSUME j > e
          PROVE  j - e \in DOMAIN left /\ new[h][j] = left[j - e]
      BY <1>1, <1>3, <1>4, <3>1, <3>4
    <3> QED
      BY <3>2, <3>3, <3>4
  <2>4. ASSUME e <= MAX_ORPHANS_PER_PREV, h \in DOMAIN o, NEW j \in DOMAIN o[h]
        PROVE  j \in DOMAIN new[h] /\ new[h][j] = o[h][j]
    <3>1. j \in 1 .. e
      BY <1>1, <1>2, <2>4
    <3>2. j \in 1 .. k
      BY <1>1, <1>4, <2>4, <3>1
    <3> QED
      BY <1>2, <1>3, <1>5, <2>2, <2>4, <3>1, <3>2
  <2>5. DOMAIN o \subseteq DOMAIN new /\ DOMAIN new \subseteq DOMAIN o \cup {h}
    BY <2>2
  <2>6. \A x \in DOMAIN new \ {h} : new[x] = o[x]
    BY <2>2
  <2> QED
    BY <1>1, <2>3, <2>4, <2>5, <2>6 DEF new, old, e
<1> QED
  BY <1>7, <1>8

\* The buckets of o other than that of p begin as before.
Remain(new, o, p) ==
  \A k \in DOMAIN o \ {p} : \A j \in DOMAIN o[k] :
    k \in DOMAIN new /\ j \in DOMAIN new[k] /\ new[k][j] = o[k][j]

\* Every orphan in new was in o, at the place that f says.
Moved(new, o, f) == \A q \in Places(new) : At(new, q) = At(o, f[q])

\* try_connect_orphans takes the orphan at <<p, i>> away and moves others to places
\* that were free; those under other hashes stay while buckets have room.
LEMMA ConnectPlaces ==
  ASSUME NEW o, OrphansOver(Block, o), NEW p \in DOMAIN o, NEW i \in DOMAIN o[p], NEW h
  PROVE  LET new == PutBack(WithoutBucket(o, p), h, SwapRemove(o[p], i))
         IN  /\ \E f \in Injection(Places(new), Places(o) \ {<<p, i>>}) : Moved(new, o, f)
             /\ (\A k \in DOMAIN o : Len(o[k]) <= MAX_ORPHANS_PER_PREV) => Remain(new, o, p)
<1> DEFINE bs == o[p]
           m == Len(bs)
           left == SwapRemove(bs, i)
           rest == WithoutBucket(o, p)
           e == Len(Bucket(rest, h))
           new == PutBack(rest, h, left)
<1>1. bs \in Seq(Block)
  BY DEF OrphansOver
<1>2. /\ left \in Seq(Block) /\ DOMAIN left = 1 .. m - 1
      /\ m \in Nat /\ i \in 1 .. m /\ DOMAIN bs = 1 .. m
      /\ \A j \in 1 .. m - 1 : left[j] = IF j = i THEN bs[m] ELSE bs[j]
  BY <1>1, SwapRemoveIs
<1>3. OrphansOver(Block, rest)
  BY WithoutBucketType
<1>4. DOMAIN rest = DOMAIN o \ {p} /\ \A k \in DOMAIN rest : rest[k] = o[k]
  BY DEF WithoutBucket
<1> HIDE DEF bs, left, rest, m
<1>5. /\ e \in Nat
      /\ DOMAIN rest \subseteq DOMAIN new /\ DOMAIN new \subseteq DOMAIN rest \cup {h}
      /\ \A k \in DOMAIN new \ {h} : new[k] = rest[k]
      /\ h \in DOMAIN new =>
           \A j \in DOMAIN new[h] :
             /\ j \in Nat /\ 1 <= j
             /\ j <= e => /\ h \in DOMAIN rest /\ j \in DOMAIN rest[h]
                          /\ new[h][j] = rest[h][j]
             /\ j > e => j - e \in DOMAIN left /\ new[h][j] = left[j - e]
      /\ e <= MAX_ORPHANS_PER_PREV /\ h \in DOMAIN rest =>
           \A j \in DOMAIN rest[h] : j \in DOMAIN new[h] /\ new[h][j] = rest[h][j]
  BY <1>2, <1>3, PutBackIs
<1>6. h \in DOMAIN rest => e = Len(o[h])
  BY <1>4 DEF Bucket
<1> HIDE DEF e, new
<1>7. ASSUME \A k \in DOMAIN o : Len(o[k]) <= MAX_ORPHANS_PER_PREV,
             NEW k \in DOMAIN o \ {p}, NEW j \in DOMAIN o[k]
      PROVE  k \in DOMAIN new /\ j \in DOMAIN new[k] /\ new[k][j] = o[k][j]
  <2>1. k \in DOMAIN rest /\ rest[k] = o[k] /\ k \in DOMAIN new
    BY <1>4, <1>5
  <2>2. CASE k # h
    BY <1>5, <2>1, <2>2
  <2>3. CASE k = h
    BY <1>5, <1>6, <1>7, <2>1, <2>3
  <2> QED
    BY <2>2, <2>3
\* The place an orphan comes from
<1> DEFINE From(q) == IF q[1] = h /\ q[2] > e
                      THEN IF q[2] - e = i THEN <<p, m>> ELSE <<p, q[2] - e>>
                      ELSE q
           f == [q \in Places(new) |-> From(q)]
           Sits(q, k, j) == /\ q = <<k, j>>
                            /\ k = h => j \in Nat
                            /\ (k = h /\ j > e) => j - e \in 1 .. m - 1
                            /\ ~(k = h /\ j > e) => k # p
<1>8. ASSUME NEW q \in Places(new)
      PROVE  /\ \E k \in DOMAIN new : \E j \in DOMAIN new[k] : Sits(q, k, j)
             /\ From(q) \in Places(o) \ {<<p, i>>} /\ At(new, q) = At(o, From(q))
  <2>1. PICK k \in DOMAIN new : \E j \in DOMAIN new[k] : q = <<k, j>>
    BY PlacesAre
  <2>2. PICK j \in DOMAIN new[k] : q = <<k, j>>
    BY <2>1
  <2>3. CASE k = h /\ j > e
    <3>1. j \in Nat /\ j - e \in 1 .. m - 1 /\ new[k][j] = left[j - e]
      BY <1>2, <1>5, <2>3
    <3>2. CASE j - e = i
      <4>1. From(q) = <<p, m>> /\ m \in DOMAIN o[p] /\ m # i
        BY <1>2, <2>2, <2>3, <3>1, <3>2 DEF bs
      <4>2. At(new, q) = bs[m]
        BY <1>2, <2>2, <3>1, <3>2 DEF At
      <4> QED
        BY <2>2, <2>3, <3>1, <4>1, <4>2, PlacesAre DEF At, bs
    <3>3. CASE j - e # i
      <4>1. From(q) = <<p, j - e>> /\ j - e \in DOMAIN o[p]
        BY <1>2, <2>2, <2>3, <3>1, <3>3 DEF bs
      <4>2. At(new, q) = bs[j - e]
        BY <1>2, <2>2, <3>1, <3>3 DEF At
      <4> QED
        BY <2>2, <2>3, <3>1, <3>3, <4>1, <4>2, PlacesAre DEF At, bs
    <3> QED
      BY <3>2, <3>3
  <2>4. CASE ~(k = h /\ j > e)
    <3>1. From(q) = q
      BY <2>2, <2>4
    <3>2. k \in DOMAIN rest /\ j \in DOMAIN rest[k] /\ new[k][j] = rest[k][j]
            /\ (k = h => j \in Nat)
      BY <1>5, <2>4
    <3>3. k \in DOMAIN o /\ k # p /\ j \in DOMAIN o[k] /\ new[k][j] = o[k][j]
      BY <1>4, <3>2
    <3>4. q \in Places(o)
      BY <2>2, <3>3, PlacesAre
    <3>5. q # <<p, i>>
      BY <2>2, <3>3
    <3> QED
      BY <2>2, <2>4, <3>1, <3>2, <3>3, <3>4, <3>5 DEF At
  <2> QED
    BY <2>3, <2>4
<1>9. ASSUME NEW q \in Places(new), NEW r \in Places(new), From(q) = From(r)
      PROVE  q = r
  <2>1. PICK k \in DOMAIN new : \E j \in DOMAIN new[k] : Sits(q, k, j)
    BY <1>8
  <2>2. PICK j \in DOMAIN new[k] : Sits(q, k, j)
    BY <2>1
  <2>3. PICK l \in DOMAIN new : \E x \in DOMAIN new[l] : Sits(r, l, x)
    BY <1>8
  <2>4. PICK x \in DOMAIN new[l] : Sits(r, l, x)
    BY <2>3
  <2>5. (k = h /\ j > e) <=> (l = h /\ x > e)
    BY <1>9, <2>2, <2>4
  <2>6. CASE k = h /\ j > e
    <3>1. j - e \in 1 .. m - 1 /\ x - e \in 1 .. m - 1 /\ j \in Nat /\ x \in Nat
      BY <2>2, <2>4, <2>5, <2>6
    <3>2. j - e = x - e
      BY <1>2, <1>9, <2>2, <2>4, <2>5, <2>6, <3>1
    <3> QED
      BY <1>5, <2>2, <2>4, <2>5, <2>6, <3>1, <3>2
  <2>7. CASE ~(k = h /\ j > e)
    BY <1>9, <2>2, <2>4, <2>5, <2>7
  <2> QED
    BY <2>6, <2>7
<1> HIDE DEF From, Sits
<1>10. f \in Injection(Places(new), Places(o) \ {<<p, i>>})
  BY <1>8, <1>9 DEF Injection, IsInjective
<1>11. Moved(new, o, f)
  BY <1>8 DEF Moved
<1> QED
  BY <1>7, <1>10, <1>11 DEF Remain, new, rest, left, bs

-----------------------------------------------------------------------------
(* What a step does to the stores of a node *)

\* The step leaves the chain of m, its seen blocks and its orphans alone.
Quiet(m) ==
  UNCHANGED <<chain[m], boot[m], seen_blocks[m], orphans[m], orphans_total[m],
              task[m].progressed>>

LEMMA StoreStep ==
  ASSUME TypeOK, [Next]_vars, NEW m \in Node
  PROVE  \/ Quiet(m)
         \/ IgnoreBlock(m) \/ ConnectBlock(m) \/ DeferBlock(m)
         \/ ConnectOrphan(m) \/ EndOrphans(m)
         \/ \E r \in Nat : TickPropose(m, r)
         \/ Restart(m)
<1>1. /\ DOMAIN chain = Node /\ DOMAIN boot = Node /\ DOMAIN seen_blocks = Node
      /\ DOMAIN orphans = Node /\ DOMAIN orphans_total = Node /\ DOMAIN task = Node
  BY DEF TypeOK
<1>2. ASSUME NEW d \in Dial, Connect(d) \/ Break(d) PROVE Quiet(m)
  BY <1>2 DEF Connect, Break, node, Quiet
<1>3. ASSUME NEW n \in Node, NEW p \in Node, Lose(n, p) PROVE Quiet(m)
  BY <1>3 DEF Lose, node, Quiet
<1>4. ASSUME NEW n \in Node, n # m, Restart(n) PROVE Quiet(m)
  BY <1>1, <1>4 DEF Restart, Quiet
<1>5. ASSUME NEW n \in Node, NodeStep(n), ~Continue(n), ~Propose(n) PROVE Quiet(m)
  <2>1. ASSUME NEW t \in Trx, LocalTrx(n, t) PROVE Quiet(m)
    BY <2>1 DEF LocalTrx, net, Quiet
  <2>2. ASSUME NEW p \in Node, Receive(n, p) PROVE Quiet(m)
    <3>1. CASE OnBlock(n, p) \/ OnBlocks(n, p)
      <4> DEFINE start == [NoTask EXCEPT !.rest = <<Head(link[p][n]).block>>]
                 page == [NoTask EXCEPT !.rest = Head(link[p][n]).blocks, !.from = p,
                                        !.got = Len(Head(link[p][n]).blocks)]
      <4>1. start.progressed = FALSE /\ page.progressed = FALSE
              /\ NoTask.progressed = FALSE
        BY DEF NoTask
      <4>2. /\ task' = [task EXCEPT ![n] = start] \/ task' = [task EXCEPT ![n] = page]
            /\ task[n] = NoTask
        BY <3>1 DEF OnBlock, OnBlocks, Receives, Idle
      <4> HIDE DEF start, page
      <4>3. UNCHANGED task[m].progressed
        BY <1>1, <4>1, <4>2
      <4> QED
        BY <3>1, <4>3 DEF OnBlock, OnBlocks, node, Quiet
    <3> QED
      BY <2>2, <3>1 DEF Receive, OnTrx, OnGetStatus, OnStatus, OnGetBlocks, AddPeer,
         RemovePeer, node, Quiet
  <2>3. ASSUME TickRound(n) PROVE Quiet(m)
    BY <2>3 DEF TickRound, net, Quiet
  <2> QED
    BY <1>5, <2>1, <2>2, <2>3 DEF NodeStep
<1>6. ASSUME NEW n \in Node, Paginate(n) PROVE Quiet(m)
  <2>1. ~task[n].progressed /\ task[n].progressed \in BOOLEAN
    BY <1>6 DEF Paginate, Paging, TypeOK, Task
  <2>2. task' = [task EXCEPT ![n] = NoTask] /\ NoTask.progressed = FALSE
    BY <1>6 DEF Paginate, NoTask
  <2>3. task'[m].progressed = task[m].progressed
    BY <1>1, <2>1, <2>2
  <2> QED
    BY <1>6, <2>3 DEF Paginate, node, Quiet
<1>7. ASSUME NEW n \in Node, n # m, Continue(n), ~Paginate(n) PROVE Quiet(m)
  <2>1. CASE DeferBlock(n)
    <3>1. orphans'[m] = orphans[m] /\ orphans_total'[m] = orphans_total[m]
      BY <1>1, <1>7, <2>1 DEF DeferBlock, PutOrphan
    <3> QED
      BY <1>1, <1>7, <2>1, <3>1 DEF DeferBlock, Quiet
  <2> QED
    BY <1>1, <1>7, <2>1 DEF Continue, IgnoreBlock, ConnectBlock, ConnectOrphan, EndOrphans,
       node, Quiet
<1>8. ASSUME NEW n \in Node, n # m, NEW r \in Nat, TickPropose(n, r) PROVE Quiet(m)
  BY <1>1, <1>8 DEF TickPropose, AddOwnBlock, Quiet
<1>9. ASSUME Propose(m) PROVE \E r \in Nat : TickPropose(m, r)
  BY <1>9, B4nAssumption DEF Propose
<1>10. ASSUME NEW n \in Node, n # m, Propose(n) PROVE Quiet(m)
  BY <1>8, <1>10, B4nAssumption DEF Propose
<1>11. CASE UNCHANGED vars
  BY <1>11 DEF vars, node, Quiet
<1> QED
  <2>1. CASE EnvStep
    BY <1>2, <1>3, <1>4, <2>1 DEF EnvStep
  <2>2. ASSUME NEW n \in Node, NodeStep(n), n # m PROVE Quiet(m)
    BY <1>5, <1>6, <1>7, <1>10, <2>2
  <2>3. CASE NodeStep(m)
    BY <1>5, <1>6, <1>9, <2>3 DEF Continue
  <2> QED
    BY <1>11, <2>1, <2>2, <2>3 DEF Next

\* The orphan a turn of try_connect_orphans takes, and the places of those it leaves.
LEMMA ConnectOrphanStep ==
  ASSUME TypeOK, NEW n \in Node, ConnectOrphan(n)
  PROVE  LET prev == Tip(chain[n])
             o == orphans[n]
             p == Hash(prev)
         IN  /\ prev \in Block /\ OrphansOver(Block, o) /\ p \in DOMAIN o
             /\ \E i \in DOMAIN o[p] :
                  /\ o[p][i] \in Block /\ ValidateBlock(prev, o[p][i])
                  /\ chain'[n] = Append(chain[n], o[p][i])
                  /\ orphans'[n] = PutBack(WithoutBucket(o, p), Hash(o[p][i]),
                                           SwapRemove(o[p], i))
             /\ orphans_total'[n] = IF orphans_total[n] = 0 THEN 0 ELSE orphans_total[n] - 1
             /\ UNCHANGED <<seen_blocks, boot, signed, task>>
<1> DEFINE prev == Tip(chain[n])
           o == orphans[n]
           p == Hash(prev)
<1>1. Typed(Block) /\ DOMAIN orphans = Node /\ DOMAIN chain = Node /\ DOMAIN orphans_total = Node
  BY TypedIsTypeOK DEF TypeOK
<1>2. OrphansOver(Block, o)
  BY <1>1 DEF Typed
<1>3. prev \in Block
  BY TipType DEF TypeOK
<1>4. Bucket(o, p) \in Seq(Block)
  BY <1>2, BucketType
<1>5. PICK i \in DOMAIN Bucket(o, p) :
        /\ FirstValid(prev, Bucket(o, p), i)
        /\ chain' = [chain EXCEPT ![n] = Append(@, Bucket(o, p)[i])]
        /\ orphans' = [orphans EXCEPT ![n] =
             PutBack(WithoutBucket(@, p), Hash(Bucket(o, p)[i]), SwapRemove(Bucket(o, p), i))]
  BY DEF ConnectOrphan
<1>6. p \in DOMAIN o
  <2>1. DOMAIN << >> = {}
    OBVIOUS
  <2> QED
    BY <1>5, <2>1 DEF Bucket
<1>7. Bucket(o, p) = o[p]
  BY <1>6 DEF Bucket
<1>8. o[p][i] \in Block
  BY <1>4, <1>5, <1>7, ElementOfSeq, LenProperties
<1>9. ValidateBlock(prev, o[p][i])
  BY <1>5, <1>7 DEF FirstValid
<1>10. /\ chain'[n] = Append(chain[n], o[p][i])
       /\ orphans'[n] = PutBack(WithoutBucket(o, p), Hash(o[p][i]), SwapRemove(o[p], i))
  BY <1>1, <1>5, <1>7
<1>11. /\ orphans_total'[n] = IF orphans_total[n] = 0 THEN 0 ELSE orphans_total[n] - 1
       /\ UNCHANGED <<seen_blocks, boot, signed, task>>
  BY <1>1 DEF ConnectOrphan
<1>12. i \in DOMAIN o[p]
  BY <1>5, <1>7
<1> QED
  BY <1>2, <1>3, <1>6, <1>8, <1>9, <1>10, <1>11, <1>12

-----------------------------------------------------------------------------
(* The counter of the orphans *)

\* What OrphanAccounting says of one node; there are finitely many orphans.
Counted(o, total) ==
  /\ IsFiniteSet(Places(o)) /\ Cardinality(Places(o)) <= total
  /\ total <= MAX_ORPHANS_TOTAL

LEMMA CountedFresh == Counted(<< >>, 0)
<1>1. Places(<< >>) = {}
  BY DEF Places
<1> QED
  BY <1>1, FS_EmptySet, B4nAssumption DEF Counted

LEMMA CountedStep ==
  ASSUME TypeOK, [Next]_vars, NEW m \in Node, Counted(orphans[m], orphans_total[m])
  PROVE  Counted(orphans'[m], orphans_total'[m])
<1> DEFINE o == orphans[m]
           total == orphans_total[m]
<1>1. /\ total \in Nat /\ DOMAIN orphans = Node /\ DOMAIN orphans_total = Node
      /\ OrphansOver(Block, o)
  BY TypedIsTypeOK DEF TypeOK, Typed
<1>2. /\ IsFiniteSet(Places(o)) /\ Cardinality(Places(o)) \in Nat
      /\ Cardinality(Places(o)) <= total
      /\ total <= MAX_ORPHANS_TOTAL
  BY FS_CardinalityType DEF Counted
<1>3. ASSUME UNCHANGED <<orphans[m], orphans_total[m]>>
      PROVE  Counted(orphans'[m], orphans_total'[m])
  BY <1>3
<1>4. CASE DeferBlock(m)
  <2> DEFINE b == Head(task[m].rest)
             new == WithBucket(o, b.previous_hash, Append(Bucket(o, b.previous_hash), b))
  <2>1. b \in Block
    BY <1>4, HandledType, TypedIsTypeOK DEF DeferBlock
  <2>2. CASE KeepsOrphan(m, b)
    <3>1. orphans'[m] = new /\ orphans_total'[m] = total + 1 /\ total < MAX_ORPHANS_TOTAL
      BY <1>1, <1>4, <2>2 DEF DeferBlock, PutOrphan, KeepsOrphan
    <3>2. PICK q : Places(new) = Places(o) \cup {q} /\ q \notin Places(o)
      BY <1>1, <2>1, PutPlaces
    <3>3. IsFiniteSet(Places(new)) /\ Cardinality(Places(new)) = Cardinality(Places(o)) + 1
      BY <1>2, <3>2, FS_AddElement
    <3> HIDE DEF new
    <3> QED
      BY <1>1, <1>2, <3>1, <3>3, B4nAssumption DEF Counted
  <2>3. CASE ~KeepsOrphan(m, b)
    BY <1>3, <1>4, <2>3 DEF DeferBlock, PutOrphan
  <2> QED
    BY <2>2, <2>3
<1>5. CASE ConnectOrphan(m)
  <2> DEFINE p == Hash(Tip(chain[m]))
  <2>1. p \in DOMAIN o
    BY <1>5, ConnectOrphanStep
  <2>2. PICK i \in DOMAIN o[p] :
          orphans'[m] = PutBack(WithoutBucket(o, p), Hash(o[p][i]), SwapRemove(o[p], i))
    BY <1>5, ConnectOrphanStep
  <2>3. orphans_total'[m] = IF total = 0 THEN 0 ELSE total - 1
    BY <1>5, ConnectOrphanStep
  <2> DEFINE new == PutBack(WithoutBucket(o, p), Hash(o[p][i]), SwapRemove(o[p], i))
             others == Places(o) \ {<<p, i>>}
  <2>4. <<p, i>> \in Places(o)
    BY <2>1, <2>2, PlacesAre
  <2>5. IsFiniteSet(others) /\ Cardinality(others) = Cardinality(Places(o)) - 1
          /\ Cardinality(others) \in Nat
    BY <1>2, <2>4, FS_RemoveElement, FS_CardinalityType
  <2> HIDE DEF p
  <2>6. PICK f : f \in Injection(Places(new), others)
    BY <1>1, <2>1, <2>2, ConnectPlaces
  <2> HIDE DEF new, others
  <2>7. IsFiniteSet(Places(new)) /\ Cardinality(Places(new)) <= Cardinality(others)
          /\ Cardinality(Places(new)) \in Nat
    BY <2>5, <2>6, FS_Injection, FS_CardinalityType
  <2>8. orphans'[m] = new
    BY <2>2 DEF new
  <2>9. orphans_total'[m] = total - 1
    BY <1>1, <1>2, <2>3, <2>5
  <2> QED
    BY <1>1, <1>2, <2>5, <2>7, <2>8, <2>9, B4nAssumption DEF Counted
<1>6. CASE Restart(m)
  <2>1. orphans'[m] = << >> /\ orphans_total'[m] = 0
    BY <1>1, <1>6 DEF Restart
  <2> QED
    BY <2>1, CountedFresh
<1>7. CASE Quiet(m)
  BY <1>3, <1>7 DEF Quiet
<1>8. CASE IgnoreBlock(m) \/ ConnectBlock(m) \/ EndOrphans(m) \/ \E r \in Nat : TickPropose(m, r)
  BY <1>3, <1>8 DEF IgnoreBlock, ConnectBlock, EndOrphans, TickPropose, node
<1> QED
  BY <1>4, <1>5, <1>6, <1>7, <1>8, StoreStep

LEMMA FreshStores ==
  ASSUME Init \/ ConnectedInit, NEW n \in Node
  PROVE  /\ chain[n] = <<Genesis>> /\ seen_blocks[n] = << >> /\ orphans[n] = << >>
         /\ orphans_total[n] = 0 /\ task[n] = NoTask /\ signed = {}
BY DEF Init, ConnectedInit, Fresh

\* The orphans a node keeps are never more than its counter says, and the counter
\* stays below the limit of put_orphan, although try_connect_orphans lowers it by one
\* for each connected orphan and never for those it drops.
THEOREM OrphansCounted == (Spec \/ ConnectedSpec) => []OrphanAccounting
<1> DEFINE AllCounted == \A n \in Node : Counted(orphans[n], orphans_total[n])
<1>1. Init \/ ConnectedInit => AllCounted
  BY CountedFresh, FreshStores
<1>2. TypeOK /\ AllCounted /\ [Next]_vars => AllCounted'
  BY CountedStep
<1>3. AllCounted => OrphanAccounting
  BY DEF Counted, OrphanAccounting
<1>4. (Spec \/ ConnectedSpec) => []TypeOK
  BY TypeCorrect, TypeCorrectConnected
<1> HIDE DEF AllCounted
<1> QED
  BY <1>1, <1>2, <1>3, <1>4, PTL DEF Spec, ConnectedSpec

-----------------------------------------------------------------------------
(* Hashes *)

\* Two blocks hash alike only if they are equal.
LEMMA HashInjective ==
  ASSUME NEW b \in Block, NEW c \in Block, Hash(b) = Hash(c)
  PROVE  b = c
<1>1. /\ b.previous_hash \in Seq(Header) /\ c.previous_hash \in Seq(Header)
      /\ HeaderOf(b) \in Header /\ HeaderOf(c) \in Header
  BY DEF Block, Hash32, HeaderOf, Header
<1>2. b.previous_hash = c.previous_hash /\ HeaderOf(b) = HeaderOf(c)
  BY <1>1, AppendProperties DEF Hash
<1>3. /\ b.index = c.index /\ b.timestamp = c.timestamp /\ b.round = c.round
      /\ b.proposer_id = c.proposer_id /\ b.signature = c.signature
      /\ b.transactions = c.transactions
  BY <1>2 DEF HeaderOf
<1> QED
  BY <1>2, <1>3 DEF Block

\* mark_seen_block adds one hash, and forgets one only when the list is full.
LEMMA MarkSeenIs ==
  ASSUME NEW s \in Seq(Hash32), NEW h \in Hash32
  PROVE  LET t == MarkSeen(s, h)
         IN  /\ SeenHashes(t) \subseteq SeenHashes(s) \cup {h}
             /\ Len(s) < MAX_SEEN_BLOCKS => SeenHashes(t) = SeenHashes(s) \cup {h}
<1> DEFINE longer == Append(s, h)
<1>1. CASE h \in SeenHashes(s)
  BY <1>1 DEF MarkSeen
<1>2. CASE h \notin SeenHashes(s)
  <2>1. /\ longer \in Seq(Hash32) /\ DOMAIN s = 1 .. Len(s) /\ Len(s) \in Nat
        /\ Len(longer) = Len(s) + 1 /\ DOMAIN longer = 1 .. Len(s) + 1
        /\ longer[Len(s) + 1] = h /\ \A i \in 1 .. Len(s) : longer[i] = s[i]
    BY AppendProperties, LenProperties
  <2>2. SeenHashes(longer) = SeenHashes(s) \cup {h}
    BY <2>1 DEF SeenHashes
  <2> HIDE DEF longer
  <2>3. SeenHashes(Tail(longer)) \subseteq SeenHashes(longer)
    <3>1. \A i \in DOMAIN Tail(longer) : i + 1 \in DOMAIN longer /\ Tail(longer)[i] = longer[i + 1]
      BY <2>1
    <3> QED
      BY <3>1 DEF SeenHashes
  <2>4. MarkSeen(s, h) = IF Len(longer) > MAX_SEEN_BLOCKS THEN Tail(longer) ELSE longer
    BY <1>2 DEF MarkSeen, longer
  <2> QED
    BY <2>1, <2>2, <2>3, <2>4, B4nAssumption
<1> QED
  BY <1>1, <1>2

\* The blocks of the network, on chains and elsewhere, are known.
LEMMA KnownBlocks ==
  ASSUME Invariant, NEW n \in Node
  PROVE  /\ Known \in SUBSET Block /\ Typed(Known)
         /\ chain[n] \in Seq(Known) \ {<< >>} /\ OrphansOver(Known, orphans[n])
         /\ Tip(chain[n]) \in Known /\ Height(chain[n]) \in Nat
<1>1. Known \in SUBSET Block
  BY GenesisType DEF Invariant, TypeOK, Known
<1>2. chain[n] \in Seq(Known) \ {<< >>} /\ Typed(Known) /\ OrphansOver(Known, orphans[n])
  BY DEF Invariant, BlocksKnown, Typed
<1> QED
  BY <1>1, <1>2, TipType

\* The block that on_tick builds is new to the network: no chain, orphan or message
\* has it.
LEMMA CandidateIsNew ==
  ASSUME Invariant, NEW n \in Node, NEW r \in Nat, TickPropose(n, r)
  PROVE  \E b \in Block \ Known :
           /\ signed' = signed \cup {b}
           /\ ValidateBlock(Tip(chain[n]), b) /\ Tip(chain[n]) \in Known
           /\ chain'[n] = Append(chain[n], b) /\ boot' = boot
           /\ seen_blocks'[n] = MarkSeen(seen_blocks[n], Hash(b))
           /\ UNCHANGED <<orphans, orphans_total, task>> /\ Idle(n)
<1> DEFINE b == BuildBlock(n, Tip(chain[n]), FirstMany(pool[n], MAX_TRX_PER_BLOCK),
                           r, boot[n])
<1>1. /\ b \in Block /\ signed' = signed \cup {b} /\ ValidateBlock(Tip(chain[n]), b)
      /\ chain' = [chain EXCEPT ![n] = Append(@, b)] /\ boot' = boot
  BY TickAppends DEF Invariant
<1>2. AddOwnBlock(n, b)
  BY <1>1 DEF TickPropose
<1>3. b.signature = n /\ b.timestamp = boot[n] /\ b.index = Height(chain[n]) + 1
  BY DEF BuildBlock, Height
<1>4. /\ DOMAIN chain = Node /\ DOMAIN seen_blocks = Node
      /\ Height(chain[n]) \in Nat /\ Tip(chain[n]) \in Known
  BY KnownBlocks DEF Invariant, TypeOK
<1> HIDE DEF b
<1>5. b \notin signed
  BY <1>3, <1>4 DEF Invariant, SignedInReach
<1>6. b # Genesis
  BY <1>3, <1>4 DEF Genesis
<1>7. /\ chain'[n] = Append(chain[n], b)
      /\ seen_blocks'[n] = MarkSeen(seen_blocks[n], Hash(b))
  BY <1>1, <1>2, <1>4 DEF AddOwnBlock
<1>8. UNCHANGED <<orphans, orphans_total, task>> /\ Idle(n)
  BY DEF TickPropose
<1> QED
  BY <1>1, <1>4, <1>5, <1>6, <1>7, <1>8 DEF Known

-----------------------------------------------------------------------------
(* No block twice *)

LEMMA AtType ==
  ASSUME NEW B, NEW o, OrphansOver(B, o), NEW q \in Places(o)
  PROVE  At(o, q) \in B
<1>1. PICK h \in DOMAIN o : \E i \in DOMAIN o[h] : q = <<h, i>>
  BY PlacesAre
<1>2. PICK i \in DOMAIN o[h] : q = <<h, i>>
  BY <1>1
<1>3. o[h] \in Seq(B)
  BY DEF OrphansOver
<1>4. o[h][i] \in B
  BY <1>3, ElementOfSeq, LenProperties
<1> QED
  BY <1>2, <1>4 DEF At

\* What OrphansDistinct says of one node with the chain c, the seen hashes s and the
\* orphans o, and why: every block that is a candidate to be there twice was seen.
Apart(c, s, o) ==
  /\ \A q \in Places(o) : Hash(At(o, q)) \in SeenHashes(s)
  /\ \A i \in DOMAIN c : c[i] = Genesis \/ Hash(c[i]) \in SeenHashes(s)
  /\ \A q, r \in Places(o) : At(o, q) = At(o, r) => q = r
  /\ \A q \in Places(o) : \A i \in DOMAIN c : c[i] # At(o, q)

LEMMA ApartFresh == Apart(<<Genesis>>, << >>, << >>)
<1>1. Places(<< >>) = {} /\ DOMAIN <<Genesis>> = {1}
  BY DEF Places
<1> QED
  BY <1>1 DEF Apart

LEMMA ApartIsDistinct ==
  ASSUME \A n \in Node : Apart(chain[n], seen_blocks[n], orphans[n])
  PROVE  OrphansDistinct
<1> SUFFICES ASSUME NEW n \in Node, NEW g \in DOMAIN orphans[n], NEW h \in DOMAIN orphans[n],
                    NEW i \in DOMAIN orphans[n][g], NEW j \in DOMAIN orphans[n][h]
             PROVE  /\ orphans[n][g][i] = orphans[n][h][j] => g = h /\ i = j
                    /\ \A k \in DOMAIN chain[n] : chain[n][k] # orphans[n][h][j]
  BY DEF OrphansDistinct
<1>1. /\ <<g, i>> \in Places(orphans[n]) /\ At(orphans[n], <<g, i>>) = orphans[n][g][i]
      /\ <<h, j>> \in Places(orphans[n]) /\ At(orphans[n], <<h, j>>) = orphans[n][h][j]
  BY PlacesAre DEF At
<1> QED
  BY <1>1 DEF Apart

LEMMA ApartStep ==
  ASSUME Invariant, RoomForHashes, [Next]_vars, NEW m \in Node,
         Apart(chain[m], seen_blocks[m], orphans[m])
  PROVE  Apart(chain'[m], seen_blocks'[m], orphans'[m])
<1> DEFINE c == chain[m]
           s == seen_blocks[m]
           o == orphans[m]
           Done == Apart(chain'[m], seen_blocks'[m], orphans'[m])
<1>1. /\ DOMAIN chain = Node /\ DOMAIN seen_blocks = Node /\ DOMAIN orphans = Node
      /\ c \in Seq(Block) \ {<< >>} /\ s \in Seq(Hash32) /\ OrphansOver(Block, o)
      /\ OrphansOver(Known, o) /\ Len(s) < MAX_SEEN_BLOCKS /\ TypeOK /\ Typed(Block)
  BY TypedIsTypeOK, KnownBlocks DEF Invariant, TypeOK, Typed, RoomForHashes
<1>2. \A b \in Block : SeenHashes(MarkSeen(s, Hash(b))) = SeenHashes(s) \cup {Hash(b)}
  BY <1>1, HashType, MarkSeenIs
<1>3. Apart(c, s, o)
  OBVIOUS
<1> HIDE DEF c, s, o
<1>4. ASSUME chain'[m] = c, orphans'[m] = o, SeenHashes(s) \subseteq SeenHashes(seen_blocks'[m])
      PROVE  Done
  BY <1>3, <1>4 DEF Apart
<1>5. ASSUME NEW b \in Block, chain'[m] = Append(c, b), orphans'[m] = o,
             seen_blocks'[m] = MarkSeen(s, Hash(b)), \A q \in Places(o) : At(o, q) # b
      PROVE  Done
  <2>1. /\ DOMAIN Append(c, b) = 1 .. Len(c) + 1 /\ DOMAIN c = 1 .. Len(c) /\ Len(c) \in Nat
        /\ Append(c, b)[Len(c) + 1] = b /\ \A i \in 1 .. Len(c) : Append(c, b)[i] = c[i]
    BY <1>1, AppendedChain
  <2>2. \A i \in DOMAIN Append(c, b) : Append(c, b)[i] = b \/ \E j \in DOMAIN c : Append(c, b)[i] = c[j]
    BY <2>1
  <2> QED
    BY <1>2, <1>3, <1>5, <2>2 DEF Apart
<1>6. CASE IgnoreBlock(m)
  <2>1. Head(task[m].rest) \in Block
    BY <1>1, <1>6, HandledType DEF IgnoreBlock
  <2>2. seen_blocks'[m] = MarkSeen(s, Hash(Head(task[m].rest)))
    BY <1>1, <1>6 DEF IgnoreBlock, s
  <2>3. chain'[m] = c /\ orphans'[m] = o
    BY <1>6 DEF IgnoreBlock, c, o
  <2> QED
    BY <1>2, <1>4, <2>1, <2>2, <2>3
<1>7. CASE ConnectBlock(m)
  <2> DEFINE b == Head(task[m].rest)
  <2>1. b \in Block /\ Hash(b) \notin SeenHashes(s)
    BY <1>1, <1>7, HandledType DEF ConnectBlock, Connects, Unseen, s
  <2>2. chain'[m] = Append(c, b) /\ orphans'[m] = o /\ seen_blocks'[m] = MarkSeen(s, Hash(b))
    BY <1>1, <1>7 DEF ConnectBlock, c, s, o
  <2> HIDE DEF b
  <2>3. \A q \in Places(o) : At(o, q) # b
    BY <1>3, <2>1 DEF Apart
  <2> QED
    BY <1>5, <2>1, <2>2, <2>3
<1>8. CASE DeferBlock(m)
  <2> DEFINE b == Head(task[m].rest)
             new == WithBucket(o, b.previous_hash, Append(Bucket(o, b.previous_hash), b))
  <2>1. b \in Block /\ Hash(b) \notin SeenHashes(s) /\ b.index > Height(chain[m])
    BY <1>1, <1>8, HandledType DEF DeferBlock, Defers, Unseen, Beyond, s
  <2>2. chain'[m] = c /\ seen_blocks'[m] = MarkSeen(s, Hash(b))
    BY <1>1, <1>8 DEF DeferBlock, c, s
  <2>3. orphans'[m] = o \/ orphans'[m] = new
    BY <1>1, <1>8 DEF DeferBlock, PutOrphan, o
  <2>4. PICK q : /\ Places(new) = Places(o) \cup {q} /\ q \notin Places(o)
                 /\ At(new, q) = b /\ \A r \in Places(o) : At(new, r) = At(o, r)
    BY <1>1, <2>1, PutPlaces
  <2>5. b # Genesis
    BY <2>1, KnownBlocks DEF Genesis
  <2> HIDE DEF b, new
  <2>6. Apart(c, MarkSeen(s, Hash(b)), new)
    <3>1. /\ \A r \in Places(o) : At(o, r) # b
          /\ \A i \in DOMAIN c : c[i] # b
      BY <1>3, <2>1, <2>5 DEF Apart
    <3> QED
      BY <1>2, <1>3, <2>1, <2>4, <3>1 DEF Apart
  <2> QED
    BY <1>2, <1>4, <2>1, <2>2, <2>3, <2>6
<1>9. CASE ConnectOrphan(m)
  <2> DEFINE p == Hash(Tip(chain[m]))
  <2>1. p \in DOMAIN o
    BY <1>1, <1>9, ConnectOrphanStep DEF o
  <2>2. PICK i \in DOMAIN o[p] :
          /\ o[p][i] \in Block /\ chain'[m] = Append(c, o[p][i])
          /\ orphans'[m] = PutBack(WithoutBucket(o, p), Hash(o[p][i]), SwapRemove(o[p], i))
    BY <1>1, <1>9, ConnectOrphanStep DEF o, c
  <2>3. seen_blocks'[m] = s
    BY <1>1, <1>9, ConnectOrphanStep DEF s
  <2> DEFINE new == PutBack(WithoutBucket(o, p), Hash(o[p][i]), SwapRemove(o[p], i))
             q == <<p, i>>
             d == Append(c, o[p][i])
  <2>4. q \in Places(o) /\ At(o, q) = o[p][i]
    BY <2>1, <2>2, PlacesAre DEF At
  <2> HIDE DEF p
  <2>5. PICK f \in Injection(Places(new), Places(o) \ {q}) : Moved(new, o, f)
    BY <1>1, <2>1, <2>2, ConnectPlaces
  <2>6. /\ DOMAIN d = 1 .. Len(c) + 1 /\ DOMAIN c = 1 .. Len(c) /\ Len(c) \in Nat
        /\ d[Len(c) + 1] = o[p][i] /\ \A j \in 1 .. Len(c) : d[j] = c[j]
    BY <1>1, <2>2, AppendedChain
  <2>7. chain'[m] = d /\ orphans'[m] = new
    BY <2>2
  <2> HIDE DEF new, q, d
  <2>8. \A j \in DOMAIN d : d[j] = At(o, q) \/ \E k \in DOMAIN c : d[j] = c[k]
    BY <2>4, <2>6
  <2>9. \A r \in Places(new) : f[r] \in Places(o) /\ f[r] # q
    BY <2>5 DEF Injection
  <2>10. \A r, t \in Places(new) : f[r] = f[t] => r = t
    BY <2>5 DEF Injection, IsInjective
  <2>11. \A r \in Places(new) : Hash(At(new, r)) \in SeenHashes(s)
    BY <1>3, <2>5, <2>9 DEF Apart, Moved
  <2>12. \A j \in DOMAIN d : d[j] = Genesis \/ Hash(d[j]) \in SeenHashes(s)
    BY <1>3, <2>4, <2>8 DEF Apart
  <2>13. \A r, t \in Places(new) : At(new, r) = At(new, t) => r = t
    BY <1>3, <2>5, <2>9, <2>10 DEF Apart, Moved
  <2>14. \A r \in Places(new) : \A j \in DOMAIN d : d[j] # At(new, r)
    BY <1>3, <2>4, <2>5, <2>8, <2>9 DEF Apart, Moved
  <2> QED
    BY <2>3, <2>7, <2>11, <2>12, <2>13, <2>14 DEF Apart
<1>10. ASSUME NEW r \in Nat, TickPropose(m, r) PROVE Done
  <2>1. PICK b \in Block \ Known :
           /\ chain'[m] = Append(chain[m], b)
           /\ seen_blocks'[m] = MarkSeen(seen_blocks[m], Hash(b)) /\ orphans' = orphans
    BY <1>10, CandidateIsNew
  <2>2. \A q \in Places(o) : At(o, q) # b
    BY <1>1, <2>1, AtType
  <2> QED
    BY <1>5, <2>1, <2>2 DEF c, s, o
<1>11. CASE Restart(m)
  <2>1. chain'[m] = <<Genesis>> /\ seen_blocks'[m] = << >> /\ orphans'[m] = << >>
    BY <1>1, <1>11 DEF Restart
  <2> QED
    BY <2>1, ApartFresh
<1>12. CASE Quiet(m) \/ EndOrphans(m)
  <2>1. chain'[m] = c /\ seen_blocks'[m] = s /\ orphans'[m] = o
    BY <1>12 DEF Quiet, EndOrphans, node, c, s, o
  <2> QED
    BY <1>4, <2>1
<1> QED
  BY <1>1, <1>6, <1>7, <1>8, <1>9, <1>10, <1>11, <1>12, StoreStep

\* While mark_seen_block has room for every hash, no block is twice among the orphans
\* of a node, nor there and on its chain: every copy after the first is ignored, moving
\* a bucket copies nothing, and no other node has the block that on_tick builds.
THEOREM OrphansApart ==
  (Spec \/ ConnectedSpec) /\ []RoomForHashes => []OrphansDistinct
<1> DEFINE AllApart == \A n \in Node : Apart(chain[n], seen_blocks[n], orphans[n])
<1>1. Init \/ ConnectedInit => AllApart
  BY ApartFresh, FreshStores
<1>2. Invariant /\ RoomForHashes /\ AllApart /\ [Next]_vars => AllApart'
  BY ApartStep
<1>3. AllApart => OrphansDistinct
  BY ApartIsDistinct
<1> HIDE DEF AllApart
<1> QED
  BY <1>1, <1>2, <1>3, Inductive, PTL DEF Spec, ConnectedSpec

-----------------------------------------------------------------------------
(* No block lost to a node *)

\* Every signed block was built on a known one, and valid on it.
Grown == \A b \in signed : \E p \in Known : ValidateBlock(p, b)

\* A node has seen nothing but known blocks.
HashesKnown ==
  \A n \in Node : SeenHashes(seen_blocks[n]) \subseteq {Hash(b) : b \in Known}

\* The block b is among the orphans o, under the hash of the block it waits for.
Waits(o, b) ==
  \E i \in DOMAIN Bucket(o, b.previous_hash) : Bucket(o, b.previous_hash)[i] = b

\* No orphan in o is the next block on tip.
NoneReady(o, tip) ==
  \A i \in DOMAIN Bucket(o, Hash(tip)) : ~ValidateBlock(tip, Bucket(o, Hash(tip))[i])

\* What the argument is about at one node: a block it has seen is too old for its chain
\* or is kept; and only try_connect_orphans, once it has begun, finds one ready.
Stored(n) ==
  /\ \A b \in signed : ~Unseen(n, b) => b.index <= Height(chain[n]) \/ Waits(orphans[n], b)
  /\ ~task[n].progressed => NoneReady(orphans[n], Tip(chain[n]))

\* A signed block is valid on the only block it can be on.
LEMMA OnlyParent ==
  ASSUME Invariant, Grown, NEW b \in signed, NEW p \in Known, b.previous_hash = Hash(p)
  PROVE  ValidateBlock(p, b)
<1>1. PICK q \in Known : ValidateBlock(q, b)
  BY DEF Grown
<1>2. Hash(q) = Hash(p)
  BY <1>1 DEF ValidateBlock, Validate
<1>3. q \in Block /\ p \in Block
  BY GenesisType DEF Invariant, TypeOK, Known
<1> QED
  BY <1>1, <1>2, <1>3, HashInjective

LEMMA GrownStep ==
  ASSUME Invariant, Grown, [Next]_vars
  PROVE  Grown' /\ Known \subseteq Known'
<1>1. CASE signed' = signed
  BY <1>1 DEF Grown, Known
<1>2. ASSUME NEW n \in Node, NEW r \in Nat, TickPropose(n, r)
      PROVE  Grown' /\ Known \subseteq Known'
  <2>1. PICK b : /\ signed' = signed \cup {b}
                 /\ ValidateBlock(Tip(chain[n]), b) /\ Tip(chain[n]) \in Known
    BY <1>2, CandidateIsNew
  <2>2. Known \subseteq Known'
    BY <2>1 DEF Known
  <2> QED
    BY <2>1, <2>2 DEF Grown
<1> QED
  BY <1>1, <1>2, OnlyTicksSign

LEMMA HashesKnownStep ==
  ASSUME Invariant, Grown, HashesKnown, [Next]_vars
  PROVE  HashesKnown'
<1> SUFFICES ASSUME NEW m \in Node
             PROVE  SeenHashes(seen_blocks'[m]) \subseteq {Hash(b) : b \in Known'}
  BY DEF HashesKnown
<1>1. /\ DOMAIN seen_blocks = Node /\ seen_blocks[m] \in Seq(Hash32) /\ TypeOK
      /\ Known \in SUBSET Block /\ Typed(Known) /\ Known \subseteq Known'
  BY KnownBlocks, GrownStep DEF Invariant, TypeOK
<1>2. SeenHashes(seen_blocks[m]) \subseteq {Hash(b) : b \in Known'}
  BY <1>1 DEF HashesKnown
<1>3. ASSUME NEW b \in Block \cap Known', seen_blocks'[m] = MarkSeen(seen_blocks[m], Hash(b))
      PROVE  SeenHashes(seen_blocks'[m]) \subseteq {Hash(x) : x \in Known'}
  <2>1. SeenHashes(seen_blocks'[m]) \subseteq SeenHashes(seen_blocks[m]) \cup {Hash(b)}
    BY <1>1, <1>3, HashType, MarkSeenIs
  <2> QED
    BY <1>2, <1>3, <2>1
<1>4. CASE Handling(m) /\ seen_blocks' =
             [seen_blocks EXCEPT ![m] = MarkSeen(@, Hash(Head(task[m].rest)))]
  <2>1. Head(task[m].rest) \in Known
    BY <1>1, <1>4, HandledType
  <2> QED
    BY <1>1, <1>3, <1>4, <2>1
<1>5. ASSUME NEW r \in Nat, TickPropose(m, r)
      PROVE  SeenHashes(seen_blocks'[m]) \subseteq {Hash(b) : b \in Known'}
  <2>1. PICK b \in Block : /\ signed' = signed \cup {b}
                           /\ seen_blocks'[m] = MarkSeen(seen_blocks[m], Hash(b))
    BY <1>5, CandidateIsNew
  <2>2. b \in Known'
    BY <2>1 DEF Known
  <2> QED
    BY <1>3, <2>1, <2>2
<1>6. CASE Restart(m)
  <2>1. seen_blocks'[m] = << >>
    BY <1>1, <1>6 DEF Restart
  <2> QED
    BY <2>1 DEF SeenHashes
<1>7. CASE Quiet(m) \/ ConnectOrphan(m) \/ EndOrphans(m)
  BY <1>2, <1>7 DEF Quiet, ConnectOrphan, EndOrphans, node
<1>8. CASE IgnoreBlock(m) \/ ConnectBlock(m) \/ DeferBlock(m)
  BY <1>4, <1>8 DEF IgnoreBlock, ConnectBlock, DeferBlock
<1> QED
  BY <1>1, <1>5, <1>6, <1>7, <1>8, StoreStep

LEMMA StoredFresh ==
  ASSUME Init \/ ConnectedInit
  PROVE  Grown /\ HashesKnown /\ \A n \in Node : Stored(n)
<1>1. signed = {}
  BY DEF Init, ConnectedInit, Fresh
<1>2. ASSUME NEW n \in Node PROVE SeenHashes(seen_blocks[n]) = {} /\ Stored(n)
  <2>1. seen_blocks[n] = << >> /\ orphans[n] = << >>
    BY FreshStores
  <2>2. \A h : Bucket(<< >>, h) = << >>
    BY DEF Bucket
  <2>3. SeenHashes(<< >>) = {}
    BY DEF SeenHashes
  <2> QED
    BY <1>1, <2>1, <2>2, <2>3 DEF Stored, NoneReady
<1> QED
  BY <1>1, <1>2 DEF Grown, HashesKnown

\* The tip and the height of a chain that grew.
LEMMA GrownTip ==
  ASSUME NEW c \in Seq(Block) \ {<< >>}, NEW b \in Block, ValidateBlock(Tip(c), b)
  PROVE  Tip(Append(c, b)) = b /\ Height(Append(c, b)) = b.index /\ b.index = Height(c) + 1
BY AppendedChain DEF Height, ValidateBlock, Validate

LEMMA StoredStep ==
  ASSUME Invariant, Grown, HashesKnown, RoomForOrphans, [Next]_vars,
         NEW m \in Node, Stored(m)
  PROVE  Stored(m)'
<1> DEFINE c == chain[m]
           s == seen_blocks[m]
           o == orphans[m]
           Passed(b) == b.index <= Height(chain'[m]) \/ Waits(orphans'[m], b)
           Kept1 == \A b \in signed' : Hash(b) \in SeenHashes(seen_blocks'[m]) => Passed(b)
           None1 == ~task'[m].progressed => NoneReady(orphans'[m], Tip(chain'[m]))
<1> SUFFICES Kept1 /\ None1
  BY DEF Stored, Unseen
<1>1. /\ DOMAIN chain = Node /\ DOMAIN seen_blocks = Node /\ DOMAIN orphans = Node
      /\ DOMAIN task = Node /\ task[m].progressed \in BOOLEAN
      /\ c \in Seq(Block) \ {<< >>} /\ s \in Seq(Hash32) /\ OrphansOver(Block, o)
      /\ TypeOK /\ Typed(Block)
  BY TypedIsTypeOK DEF Invariant, TypeOK, Typed, Task
<1>2. /\ OrphansOver(Known, o) /\ Known \in SUBSET Block /\ Tip(c) \in Known
      /\ Height(c) \in Nat /\ Typed(Known) /\ signed \subseteq Known
  BY KnownBlocks DEF Known
<1>3. ~task[m].progressed => NoneReady(o, Tip(c))
  BY DEF Stored
<1>4. ASSUME NEW b \in signed', b \notin signed PROVE b \in Block \ Known
  <2>1. PICK n \in Node, r \in Nat : TickPropose(n, r)
    BY <1>4, OnlyTicksSign
  <2> QED
    BY <1>4, <2>1, CandidateIsNew
\* A block seen before the step is one that was stored before the step.
<1>5. ASSUME NEW b \in signed', Hash(b) \in SeenHashes(s)
      PROVE  b \in signed /\ (b.index <= Height(c) \/ Waits(o, b))
  <2>1. PICK x \in Known : Hash(b) = Hash(x)
    BY <1>5 DEF HashesKnown
  <2>2. b \in signed
    BY <1>2, <1>4, <2>1, HashInjective
  <2> QED
    BY <1>5, <2>2 DEF Stored, Unseen
<1> HIDE DEF c, s, o
<1>6. ASSUME chain'[m] = c, orphans'[m] = o, SeenHashes(seen_blocks'[m]) \subseteq SeenHashes(s)
      PROVE  Kept1
  BY <1>5, <1>6
<1>7. ASSUME NEW x \in Block, ValidateBlock(Tip(c), x), chain'[m] = Append(c, x),
             orphans'[m] = o, seen_blocks'[m] = MarkSeen(s, Hash(x))
      PROVE  Kept1
  <2>1. SeenHashes(seen_blocks'[m]) \subseteq SeenHashes(s) \cup {Hash(x)}
    BY <1>1, <1>7, HashType, MarkSeenIs
  <2>2. Height(chain'[m]) = x.index /\ x.index = Height(c) + 1
    BY <1>1, <1>7, GrownTip
  <2> SUFFICES ASSUME NEW b \in signed', Hash(b) \in SeenHashes(seen_blocks'[m])
               PROVE  Passed(b)
    OBVIOUS
  <2>3. b \in Block /\ b.index \in Nat
    BY <1>2, <1>4 DEF Block
  <2>4. CASE Hash(b) \in SeenHashes(s)
    BY <1>2, <1>5, <1>7, <2>2, <2>3, <2>4
  <2>5. CASE Hash(b) = Hash(x)
    BY <2>2, <2>3, <2>5, HashInjective
  <2> QED
    BY <2>1, <2>4, <2>5
\* What the three ends of handle_incoming_block have in common
<1>8. ASSUME NEW y \in BOOLEAN, Handling(m), task' = [task EXCEPT ![m] = Handled(@, y)],
             seen_blocks' = [seen_blocks EXCEPT ![m] = MarkSeen(@, Hash(Head(task[m].rest)))]
      PROVE  LET x == Head(task[m].rest)
             IN  /\ x \in Known /\ x \in Block
                 /\ seen_blocks'[m] = MarkSeen(s, Hash(x))
                 /\ SeenHashes(seen_blocks'[m]) \subseteq SeenHashes(s) \cup {Hash(x)}
                 /\ task'[m].progressed <=> task[m].progressed \/ y
  <2> DEFINE x == Head(task[m].rest)
  <2>1. x \in Known /\ x \in Block
    BY <1>2, <1>8, HandledType
  <2>2. seen_blocks'[m] = MarkSeen(s, Hash(x))
    BY <1>1, <1>8 DEF s
  <2>3. task[m] \in Task
    BY <1>1 DEF TypeOK
  <2>4. task'[m].progressed <=> task[m].progressed \/ y
    BY <1>1, <1>8, <2>3 DEF Handled, Task
  <2> HIDE DEF x
  <2>5. SeenHashes(seen_blocks'[m]) \subseteq SeenHashes(s) \cup {Hash(x)}
    BY <1>1, <2>1, <2>2, HashType, MarkSeenIs
  <2> QED
    BY <2>1, <2>2, <2>4, <2>5 DEF x
<1>9. CASE IgnoreBlock(m)
  <2> DEFINE x == Head(task[m].rest)
  <2>1. /\ Handling(m) /\ ~Connects(m, x) /\ ~Defers(m, x)
        /\ task' = [task EXCEPT ![m] = Handled(@, FALSE)]
        /\ seen_blocks' = [seen_blocks EXCEPT ![m] = MarkSeen(@, Hash(x))]
        /\ chain'[m] = c /\ orphans'[m] = o /\ signed' = signed
    BY <1>9 DEF IgnoreBlock, c, o
  <2>2. /\ x \in Known /\ x \in Block
        /\ SeenHashes(seen_blocks'[m]) \subseteq SeenHashes(s) \cup {Hash(x)}
        /\ ~task'[m].progressed => ~task[m].progressed
    BY <1>8, <2>1
  <2> HIDE DEF x
  <2>3. None1
    BY <1>3, <2>1, <2>2 DEF c, o
  <2>4. ASSUME NEW b \in signed', Hash(b) \in SeenHashes(seen_blocks'[m])
        PROVE  Passed(b)
    <3>1. b \in Block /\ b.index \in Nat /\ b \in signed
      BY <1>2, <2>1 DEF Block
    <3>2. CASE Hash(b) \in SeenHashes(s)
      BY <1>5, <2>1, <3>2
    <3>3. CASE Hash(b) \notin SeenHashes(s) /\ b.index > Height(c)
      <4>1. b = x
        BY <2>2, <2>4, <3>1, <3>3, HashInjective
      <4>2. OnTip(m, x)
        BY <2>1, <3>3, <4>1 DEF Defers, Beyond, Unseen, c, s
      <4>3. ValidateBlock(Tip(c), x)
        BY <1>2, <3>1, <4>1, <4>2, OnlyParent DEF OnTip, c
      <4> QED
        BY <2>1, <3>3, <4>1, <4>2, <4>3 DEF Connects, Unseen, c, s
    <3> QED
      BY <1>2, <2>1, <3>1, <3>2, <3>3
  <2> QED
    BY <2>3, <2>4
<1>10. CASE ConnectBlock(m)
  <2> DEFINE x == Head(task[m].rest)
  <2>1. /\ Handling(m) /\ ValidateBlock(Tip(c), x)
        /\ task' = [task EXCEPT ![m] = Handled(@, TRUE)]
        /\ seen_blocks' = [seen_blocks EXCEPT ![m] = MarkSeen(@, Hash(x))]
        /\ chain'[m] = Append(c, x) /\ orphans'[m] = o
    BY <1>1, <1>10 DEF ConnectBlock, Connects, c, o
  <2>2. x \in Block /\ seen_blocks'[m] = MarkSeen(s, Hash(x)) /\ task'[m].progressed
    BY <1>8, <2>1
  <2> HIDE DEF x
  <2> QED
    BY <1>7, <2>1, <2>2
<1>11. CASE DeferBlock(m)
  <2> DEFINE x == Head(task[m].rest)
             h == x.previous_hash
             new == WithBucket(o, h, Append(Bucket(o, h), x))
  <2>1. /\ Handling(m) /\ Beyond(m, x) /\ PutOrphan(m, x)
        /\ task' = [task EXCEPT ![m] = Handled(@, FALSE)]
        /\ seen_blocks' = [seen_blocks EXCEPT ![m] = MarkSeen(@, Hash(x))]
        /\ chain'[m] = c
    BY <1>11 DEF DeferBlock, Defers, c
  <2>2. /\ x \in Block
        /\ SeenHashes(seen_blocks'[m]) \subseteq SeenHashes(s) \cup {Hash(x)}
        /\ ~task'[m].progressed => ~task[m].progressed
    BY <1>8, <2>1
  <2> HIDE DEF x
  <2>3. orphans'[m] = new
    <3>1. Len(Bucket(o, h)) < MAX_ORPHANS_PER_PREV
      <4>1. Len(<< >>) = 0
        BY EmptySeq
      <4> QED
        BY <4>1, B4nAssumption DEF Bucket, RoomForOrphans, o
    <3>2. KeepsOrphan(m, x)
      BY <3>1 DEF KeepsOrphan, RoomForOrphans, o
    <3> QED
      BY <1>1, <2>1, <3>2 DEF PutOrphan, o
  <2>4. /\ Bucket(new, h) = Append(Bucket(o, h), x)
        /\ \A k : k # h => Bucket(new, k) = Bucket(o, k)
    BY DEF WithBucket, Bucket
  <2>5. LET l == Len(Bucket(o, h))
        IN  /\ l \in Nat /\ DOMAIN Bucket(o, h) = 1 .. l /\ DOMAIN Bucket(new, h) = 1 .. l + 1
            /\ Bucket(new, h)[l + 1] = x
            /\ \A i \in 1 .. l : Bucket(new, h)[i] = Bucket(o, h)[i]
    <3>1. Bucket(o, h) \in Seq(Block)
      BY <1>1, BucketType
    <3> QED
      BY <2>2, <2>4, <3>1, AppendProperties, LenProperties
  <2> HIDE DEF new, h
  <2>6. /\ Waits(new, x)
        /\ \A b : Waits(o, b) => Waits(new, b)
        /\ \A k : \A i \in DOMAIN Bucket(new, k) :
             \/ \E j \in DOMAIN Bucket(o, k) : Bucket(new, k)[i] = Bucket(o, k)[j]
             \/ k = h /\ Bucket(new, k)[i] = x
    <3>1. Len(Bucket(o, h)) + 1 \in DOMAIN Bucket(new, h)
      BY <2>5
    <3>2. \A i \in DOMAIN Bucket(o, h) :
            i \in DOMAIN Bucket(new, h) /\ Bucket(new, h)[i] = Bucket(o, h)[i]
      BY <2>5
    <3>3. \A i \in DOMAIN Bucket(new, h) :
            i \in DOMAIN Bucket(o, h) \/ Bucket(new, h)[i] = x
      BY <2>5
    <3>4. Waits(new, x)
      BY <2>5, <3>1 DEF Waits, h
    <3>5. \A b : Waits(o, b) => Waits(new, b)
      BY <2>4, <3>2 DEF Waits
    <3> QED
      BY <2>4, <3>2, <3>3, <3>4, <3>5
  <2>7. ~ValidateBlock(Tip(c), x)
    BY <2>1 DEF Beyond, OnTip, ValidateBlock, Validate, Height, c
  <2>8. None1
    BY <1>3, <2>1, <2>2, <2>3, <2>6, <2>7 DEF NoneReady
  <2>9. ASSUME NEW b \in signed', Hash(b) \in SeenHashes(seen_blocks'[m])
        PROVE  Passed(b)
    <3>1. b \in Block
      BY <1>2, <1>4
    <3>2. CASE Hash(b) \in SeenHashes(s)
      BY <1>5, <2>1, <2>3, <2>6, <3>2
    <3>3. CASE Hash(b) = Hash(x)
      BY <2>2, <2>3, <2>6, <3>1, <3>3, HashInjective
    <3> QED
      BY <2>2, <2>9, <3>2, <3>3
  <2> QED
    BY <2>8, <2>9
<1>12. CASE EndOrphans(m)
  <2>1. chain'[m] = c /\ orphans'[m] = o /\ seen_blocks'[m] = s
    BY <1>12 DEF EndOrphans, node, c, o, s
  <2>2. NoneReady(o, Tip(c))
    BY <1>12 DEF EndOrphans, NoneReady, c, o
  <2> QED
    BY <1>6, <2>1, <2>2
<1>13. ASSUME NEW r \in Nat, TickPropose(m, r) PROVE Kept1 /\ None1
  <2>1. PICK x \in Block \ Known :
           /\ ValidateBlock(Tip(c), x) /\ chain'[m] = Append(c, x)
           /\ seen_blocks'[m] = MarkSeen(s, Hash(x)) /\ orphans'[m] = o
    BY <1>13, CandidateIsNew DEF c, s, o
  <2>2. Tip(chain'[m]) = x
    BY <1>1, <2>1, GrownTip
  <2>3. ASSUME NEW i \in DOMAIN Bucket(o, Hash(x)), ValidateBlock(x, Bucket(o, Hash(x))[i])
        PROVE  FALSE
    <3> DEFINE y == Bucket(o, Hash(x))[i]
    <3>1. y \in Known
      <4>1. Bucket(o, Hash(x)) \in Seq(Known)
        BY <1>2, BucketType
      <4> QED
        BY <4>1, ElementOfSeq, LenProperties
    <3>2. y \in signed /\ y.previous_hash = Hash(x)
      BY <2>3, <3>1 DEF Known, ValidateBlock, Validate, Genesis
    <3>3. PICK p \in Known : ValidateBlock(p, y)
      BY <3>2 DEF Grown
    <3>4. Hash(p) = Hash(x)
      BY <3>2, <3>3 DEF ValidateBlock, Validate
    <3> QED
      BY <1>2, <2>1, <3>4, HashInjective
  <2> QED
    BY <1>7, <2>1, <2>2, <2>3 DEF NoneReady
<1>14. CASE Restart(m)
  <2>1. seen_blocks'[m] = << >> /\ orphans'[m] = << >>
    BY <1>1, <1>14 DEF Restart
  <2>2. \A h : Bucket(<< >>, h) = << >>
    BY DEF Bucket
  <2> QED
    BY <2>1, <2>2 DEF SeenHashes, NoneReady
<1>15. CASE Quiet(m)
  <2>1. chain'[m] = c /\ orphans'[m] = o /\ seen_blocks'[m] = s
          /\ task'[m].progressed = task[m].progressed
    BY <1>15 DEF Quiet, c, o, s
  <2> QED
    BY <1>3, <1>6, <2>1
<1>16. CASE ConnectOrphan(m)
  <2> DEFINE prev == Tip(c)
             p == Hash(prev)
  <2>1. p \in DOMAIN o
    BY <1>1, <1>16, ConnectOrphanStep DEF o, c
  <2>2. PICK i \in DOMAIN o[p] :
          /\ o[p][i] \in Block /\ ValidateBlock(prev, o[p][i])
          /\ chain'[m] = Append(c, o[p][i])
          /\ orphans'[m] = PutBack(WithoutBucket(o, p), Hash(o[p][i]), SwapRemove(o[p], i))
    BY <1>1, <1>16, ConnectOrphanStep DEF o, c
  <2>3. seen_blocks'[m] = s /\ task' = task /\ signed' = signed
    BY <1>1, <1>16, ConnectOrphanStep DEF s
  <2>4. task'[m].progressed
    BY <1>16, <2>3 DEF ConnectOrphan, Connecting
  <2> DEFINE new == PutBack(WithoutBucket(o, p), Hash(o[p][i]), SwapRemove(o[p], i))
  <2>5. \A k \in DOMAIN o : Len(o[k]) <= MAX_ORPHANS_PER_PREV
    <3>1. \A k \in DOMAIN o : Len(o[k]) \in Nat /\ Len(o[k]) < MAX_ORPHANS_PER_PREV
      BY <1>1, LenProperties DEF RoomForOrphans, OrphansOver, o
    <3> QED
      BY <3>1, B4nAssumption
  <2> HIDE DEF p
  <2>6. Remain(new, o, p)
    BY <1>1, <2>1, <2>2, <2>5, ConnectPlaces
  <2>7. /\ Height(chain'[m]) = prev.index + 1 /\ Height(chain'[m]) = Height(c) + 1
    BY <1>1, <2>2, GrownTip DEF Height
  <2>8. orphans'[m] = new
    BY <2>2
  <2> HIDE DEF new
  <2>9. ASSUME NEW b \in signed', Hash(b) \in SeenHashes(seen_blocks'[m])
        PROVE  Passed(b)
    <3>1. b \in signed /\ b.index \in Nat /\ (b.index <= Height(c) \/ Waits(o, b))
      BY <1>2, <1>5, <2>3, <2>9 DEF Block
    <3>2. CASE b.index <= Height(c)
      BY <1>2, <2>7, <3>1, <3>2
    <3>3. CASE b.previous_hash = p
      <4>1. ValidateBlock(prev, b)
        BY <1>2, <3>1, <3>3, OnlyParent DEF p
      <4> QED
        BY <1>2, <2>7, <3>1, <4>1 DEF ValidateBlock, Validate, Height
    <3>4. CASE Waits(o, b) /\ b.previous_hash # p
      <4> DEFINE h == b.previous_hash
      <4>1. PICK j \in DOMAIN Bucket(o, h) : Bucket(o, h)[j] = b
        BY <3>4 DEF Waits
      <4>2. h \in DOMAIN o
        <5>1. DOMAIN << >> = {}
          OBVIOUS
        <5> QED
          BY <4>1, <5>1 DEF Bucket
      <4>3. Bucket(o, h) = o[h]
        BY <4>2 DEF Bucket
      <4>4. h \in DOMAIN new /\ j \in DOMAIN new[h] /\ new[h][j] = b
        BY <2>6, <3>4, <4>1, <4>2, <4>3 DEF Remain
      <4> QED
        BY <2>8, <4>4 DEF Waits, Bucket
    <3> QED
      BY <3>1, <3>2, <3>3, <3>4
  <2> QED
    BY <2>4, <2>9
<1> QED
  BY <1>1, <1>9, <1>10, <1>11, <1>12, <1>13, <1>14, <1>15, <1>16, StoreStep

LEMMA StoredIsNotStranded ==
  ASSUME Invariant, \A n \in Node : Stored(n)
  PROVE  NoStrandedSuccessor
<1> SUFFICES ASSUME NEW n \in Node, Idle(n), NEW b \in signed, ~Unseen(n, b),
                    ValidateBlock(Tip(chain[n]), b)
             PROVE  FALSE
  BY DEF NoStrandedSuccessor
<1>1. ~task[n].progressed
  BY DEF Idle, NoTask
<1>2. b.index = Height(chain[n]) + 1 /\ b.previous_hash = Hash(Tip(chain[n]))
  BY DEF ValidateBlock, Validate, Height
<1>3. Height(chain[n]) \in Nat
  BY KnownBlocks
<1>4. Waits(orphans[n], b) /\ NoneReady(orphans[n], Tip(chain[n]))
  BY <1>1, <1>2, <1>3 DEF Stored
<1> QED
  BY <1>2, <1>4 DEF Waits, NoneReady

\* While put_orphan has room, no block is lost to a node because it was marked as seen:
\* one that could be added next is among the orphans while a handler runs, and
\* try_connect_orphans takes it before the handler ends.
THEOREM NoneStranded ==
  (Spec \/ ConnectedSpec) /\ []RoomForOrphans => []NoStrandedSuccessor
<1> DEFINE AllStored == Grown /\ HashesKnown /\ \A n \in Node : Stored(n)
<1>1. Init \/ ConnectedInit => AllStored
  BY StoredFresh
<1>2. Invariant /\ RoomForOrphans /\ AllStored /\ [Next]_vars => AllStored'
  BY GrownStep, HashesKnownStep, StoredStep
<1>3. Invariant /\ AllStored => NoStrandedSuccessor
  BY StoredIsNotStranded
<1> HIDE DEF AllStored
<1> QED
  BY <1>1, <1>2, <1>3, Inductive, PTL DEF Spec, ConnectedSpec

=============================================================================
