------------------------------- MODULE Mempool -------------------------------
(***************************************************************************)
(* The transaction pool of src/src/blockchain/mempool.rs, as operators on  *)
(* the record [queue, seen, seen_order]: the queue of transactions waiting *)
(* for a block, the set of hashes already accepted, and the order in which *)
(* they were accepted, from which old hashes are forgotten.                *)
(***************************************************************************)
EXTENDS Integers, Sequences, FiniteSets

CONSTANTS MAX_MEMPOOL,  \* MAX_MEMPOOL, 10_000 in the code
          MAX_SEEN      \* MAX_SEEN, 50_000 in the code

ASSUME MempoolAssumption == MAX_MEMPOOL \in Nat /\ MAX_SEEN \in Nat

MemPools(T) == [queue : Seq(T), seen : SUBSET T, seen_order : Seq(T)]

EmptyPool == [queue |-> << >>, seen |-> {}, seen_order |-> << >>]

\* MemPool::push returns true exactly when the pool has room and the hash is
\* not remembered.
Accepts(mp, t) == Len(mp.queue) < MAX_MEMPOOL /\ t \notin mp.seen

\* Mutant: a forgotten hash leaves the order and stays in the set.
Forget_order_only(mp) ==
  IF Cardinality(mp.seen) > MAX_SEEN THEN [mp EXCEPT !.seen_order = Tail(@)] ELSE mp

\* Mutant: a hash is forgotten one push too early.
Forget_early(mp) ==
  IF Cardinality(mp.seen) >= MAX_SEEN
  THEN [mp EXCEPT !.seen = @ \ {Head(mp.seen_order)}, !.seen_order = Tail(@)]
  ELSE mp

\* The clean-up loop of push: seen grows by one hash a call, so the loop turns
\* at most once.
Forget(mp) ==
  IF Cardinality(mp.seen) > MAX_SEEN
  THEN [mp EXCEPT !.seen = @ \ {Head(mp.seen_order)}, !.seen_order = Tail(@)]
  ELSE mp

\* Mutant: the hash is remembered before the size of the queue is checked.
Push_seen_first(mp, t) ==
  IF t \in mp.seen THEN mp
  ELSE Forget([queue |-> IF Len(mp.queue) < MAX_MEMPOOL THEN Append(mp.queue, t) ELSE mp.queue,
               seen |-> mp.seen \cup {t}, seen_order |-> Append(mp.seen_order, t)])

\* Mutant: a new transaction goes to the front of the queue.
Push_front(mp, t) ==
  IF Accepts(mp, t)
  THEN Forget([queue |-> <<t>> \o mp.queue, seen |-> mp.seen \cup {t},
               seen_order |-> Append(mp.seen_order, t)])
  ELSE mp

\* MemPool::push
Push(mp, t) ==
  IF Accepts(mp, t)
  THEN Forget([queue |-> Append(mp.queue, t), seen |-> mp.seen \cup {t},
               seen_order |-> Append(mp.seen_order, t)])
  ELSE mp

\* What MemPool::pop_many(count) returns, and what it leaves.
FirstMany(mp, count) ==
  SubSeq(mp.queue, 1, IF count < Len(mp.queue) THEN count ELSE Len(mp.queue))

PopMany(mp, count) == [mp EXCEPT !.queue = SubSeq(@, count + 1, Len(@))]

\* Mutant: as many transactions as the block has, from the front of the queue.
RemoveIncluded_by_count(mp, txs) ==
  [mp EXCEPT !.queue = SubSeq(@, Len(txs) + 1, Len(@))]

\* Mutant: nothing is removed.
RemoveIncluded_none(mp, txs) == mp

\* The elements of s at the positions in S, in the order of s.
Nth(S, k) == CHOOSE i \in S : Cardinality({j \in S : j <= i}) = k

ElementsAt(s, S) == [k \in 1 .. Cardinality(S) |-> s[Nth(S, k)]]

\* MemPool::remove_included: the queue without the transactions of a block.
RemoveIncluded(mp, txs) ==
  LET included == {txs[i] : i \in DOMAIN txs}
  IN  [mp EXCEPT !.queue = ElementsAt(@, {i \in DOMAIN @ : @[i] \notin included})]

=============================================================================
