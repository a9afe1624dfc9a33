------------------------------- MODULE Merkle --------------------------------
(***************************************************************************)
(* calc_merkle_root of src/src/blockchain/crypto.rs, by which a header     *)
(* stands for the transactions of its block.  SHA-256 is taken to be free  *)
(* of collisions: the hash of a transaction is the transaction itself, the *)
(* hash of a pair the pair, that of nothing the empty sequence.            *)
(***************************************************************************)
EXTENDS Integers, Sequences

hash_pair(left, right) == <<left, right>>

\* Mutant: an odd level loses its last hash instead.
Padded_drop(level) ==
  IF Len(level) % 2 = 1 THEN SubSeq(level, 1, Len(level) - 1) ELSE level

\* Mutant: an odd level is filled up with its first hash.
Padded_first(level) == IF Len(level) % 2 = 1 THEN Append(level, level[1]) ELSE level

\* The last hash of an odd level is repeated.
Padded(level) == IF Len(level) % 2 = 1 THEN Append(level, level[Len(level)]) ELSE level

\* One turn of the loop, on a level with more than one hash
NextLevel(level) ==
  LET full == Padded(level)
  IN  [i \in 1 .. Len(full) \div 2 |-> hash_pair(full[2 * i - 1], full[2 * i])]

calc_merkle_root(transactions) ==
  LET Level[k \in Nat] ==
        IF k = 0 THEN transactions
        ELSE LET level == Level[k - 1]
             IN  IF Len(level) > 1 THEN NextLevel(level) ELSE level
  IN  IF transactions = << >> THEN << >> ELSE Level[Len(transactions)][1]

-----------------------------------------------------------------------------
(* What the tree is meant to be, from the root down: a subtree of 2^k leaves *)
(* has two halves, of which the second is the first once more where there is *)
(* no leaf for it.                                                           *)

\* The leaves of a full tree of depth k: 2^k
Leaves[k \in Nat] == IF k = 0 THEN 1 ELSE 2 * Leaves[k - 1]

Subtree(s) ==
  LET T[k \in Nat] ==
        [i \in Nat |->
          IF k = 0 THEN s[i + 1]
          ELSE LET middle == i + Leaves[k - 1]
                   left == T[k - 1][i]
               IN  <<left, IF middle < Len(s) THEN T[k - 1][middle] ELSE left>>]
  IN  T

\* The depth of a tree of n leaves
Depth(n) == CHOOSE d \in 0 .. n : Leaves[d] >= n /\ \A c \in 0 .. d - 1 : Leaves[c] < n

MerkleTree(s) == IF s = << >> THEN << >> ELSE Subtree(s)[Depth(Len(s))][0]

=============================================================================
