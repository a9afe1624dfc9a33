--------------------------- MODULE MempoolMachine ---------------------------
(***************************************************************************)
(* The transaction pool of one node on its own: any sequence of the calls  *)
(* that node.rs makes of MemPool (push from LocalTrx and Trx, pop_many     *)
(* from on_tick, remove_included from handle_incoming_block), with limits  *)
(* small enough to be reached.                                             *)
(***************************************************************************)
EXTENDS Mempool, Merkle

CONSTANTS Trx,          \* the transactions that may be pushed
          MaxAccepted   \* bound: accepted pushes

ASSUME MachineAssumption == MAX_SEEN > 0 /\ MaxAccepted \in Nat

VARIABLES mp,        \* the MemPool
          accepted   \* history: the transactions that push accepted, in order

vars == <<mp, accepted>>

TypeOK == mp \in MemPools(Trx) /\ accepted \in Seq(Trx)

Init == mp = EmptyPool /\ accepted = << >>

Pushed(t) ==
  /\ Len(accepted) < MaxAccepted
  /\ mp' = Push(mp, t)
  /\ accepted' = IF Accepts(mp, t) THEN Append(accepted, t) ELSE accepted

Popped(count) ==
  /\ mp' = PopMany(mp, count)
  /\ UNCHANGED accepted

Included(txs) ==
  /\ mp' = RemoveIncluded(mp, txs)
  /\ UNCHANGED accepted

Next ==
  \/ \E t \in Trx : Pushed(t)
  \/ \E count \in 1 .. MAX_MEMPOOL : Popped(count)
  \/ \E t, u \in Trx : Included(<<t, u>>)

Spec == Init /\ [][Next]_vars

-----------------------------------------------------------------------------

\* What is remembered is exactly the last MAX_SEEN accepted transactions, in the
\* order of their acceptance: the hash set and its eviction queue never drift apart.
SeenIsWindow ==
  LET k == IF Len(accepted) < MAX_SEEN THEN Len(accepted) ELSE MAX_SEEN
  IN  /\ mp.seen_order = SubSeq(accepted, Len(accepted) - k + 1, Len(accepted))
      /\ mp.seen = {mp.seen_order[i] : i \in DOMAIN mp.seen_order}

\* A transaction is accepted a second time only after at least MAX_SEEN others: the
\* pool rejects every repetition within that window, whatever became of the first.
NoEarlyRepeat ==
  \A i, j \in DOMAIN accepted :
    i < j /\ accepted[i] = accepted[j] => j - i > MAX_SEEN

\* The queue keeps the order of acceptance and never exceeds MAX_MEMPOOL: it is what
\* is left of accepted, at increasing positions, so nothing overtakes or is invented.
QueueInOrder ==
  /\ Len(mp.queue) <= MAX_MEMPOOL
  /\ \E at \in [DOMAIN mp.queue -> DOMAIN accepted] :
       /\ \A i, j \in DOMAIN at : i < j => at[i] < at[j]
       /\ \A i \in DOMAIN at : mp.queue[i] = accepted[at[i]]

\* The lists of transactions that on_tick may put into a block of the pool's.
Offered == {FirstMany(mp, count) : count \in 1 .. MAX_MEMPOOL}

\* The root of a block is that of the tree it stands for, whatever the number of
\* transactions: the loop over levels agrees with the tree seen from its root.
RootIsTree == \A s \in Offered : calc_merkle_root(s) = MerkleTree(s)

\* The lists without a repetition, and their roots
Lists == {s \in UNION {[1 .. n -> Trx] : n \in 0 .. Cardinality(Trx)} :
            \A i, j \in DOMAIN s : s[i] = s[j] => i = j}

Roots == [s \in Lists |-> calc_merkle_root(s)]

\* A header commits to the transactions of its block: of all lists in which no
\* transaction is repeated only one has this root, although the last hash of an odd
\* level counts twice.  (With repetitions it is not so: <<a, b, c>> and <<a, b, c, c>>
\* have the same root.)
RootCommits ==
  \A s \in Offered \cap Lists : \A u \in Lists : Roots[u] = Roots[s] => u = s

=============================================================================
