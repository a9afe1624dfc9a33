----------------------------- MODULE Blockchain -----------------------------
(***************************************************************************)
(* Blocks, the hash-linked chain (src/src/blockchain/block.rs) and the     *)
(* proof-of-authority rules of src/src/blockchain/consensus/poa.rs, as     *)
(* constant operators.  They keep no state of their own: B4n.tla keeps the *)
(* chain and the consensus round of every node.                            *)
(*                                                                         *)
(* A key pair is identified with the node that holds it, so a signature is *)
(* the signing node and verifying it compares two nodes.  SHA-256 is taken *)
(* to be collision free: the hash of a block is the path of headers from   *)
(* genesis to the block, and two blocks hash alike only if they are equal. *)
(* No code path edits the transactions of a signed block, so merkle_root   *)
(* always matches them and the header carries the transactions themselves. *)
(***************************************************************************)
EXTENDS Integers, Sequences

CONSTANTS Node,        \* the processes; a node stands for its net_id and its key pair
          Validators,  \* config.validators, a sequence of nodes, the same at every node
          Trx,         \* the transactions; a transaction stands for its hash
          None         \* the Option::None of node ids

\* PoAConsensusConfig::validate_config, which cli::run exits on: at least one
\* validator and no public key twice.
ASSUME ValidatorsAssumption ==
  /\ Validators \in Seq(Node)
  /\ Len(Validators) > 0
  /\ \A i, j \in 1 .. Len(Validators) : Validators[i] = Validators[j] => i = j

ASSUME NoneAssumption == None \notin Node

-----------------------------------------------------------------------------
(* Blocks *)

Header == [index : Nat, timestamp : Nat, round : Nat, proposer_id : Nat,
           signature : Node \cup {None}, transactions : Seq(Trx)]

\* A hash is the path of headers that leads to the block, genesis first.
Hash32 == Seq(Header)

Block == [index : Nat, previous_hash : Hash32, timestamp : Nat, round : Nat,
          proposer_id : Nat, signature : Node \cup {None}, transactions : Seq(Trx)]

HeaderOf(b) == [index |-> b.index, timestamp |-> b.timestamp, round |-> b.round,
                proposer_id |-> b.proposer_id, signature |-> b.signature,
                transactions |-> b.transactions]

Hash(b) == Append(b.previous_hash, HeaderOf(b))

Genesis == [index |-> 0, previous_hash |-> << >>, timestamp |-> 0, round |-> 0,
            proposer_id |-> 0, signature |-> None, transactions |-> << >>]

\* Block::validate: the rules that need only the previous block.
Validate(prev, b) ==
  /\ b.index # 0
  /\ b.index = prev.index + 1
  /\ b.previous_hash = Hash(prev)

-----------------------------------------------------------------------------
(* The chain: BlockChain.blocks, which starts with the genesis block *)

Tip(c) == c[Len(c)]

Height(c) == Tip(c).index

\* The blocks a GetBlocks{start, limit} request selects: from index start, at
\* most limit of them, stopping at the first index the chain does not have.
BlocksFrom(c, start, limit) ==
  SubSeq(c, start + 1, IF start + limit < Len(c) THEN start + limit ELSE Len(c))

\* The transactions the chain confirms.
Confirmed(c) ==
  UNION {{c[i].transactions[k] : k \in DOMAIN c[i].transactions} : i \in DOMAIN c}

-----------------------------------------------------------------------------
(* Proof of authority *)

\* The validator rotates with the height and, at one height, with the round.
ExpectedProposer(index, round) == (index - 1 + round) % Len(Validators)

\* config.validators is a Vec indexed from 0.
ValidatorKey(id) == Validators[id + 1]

\* NodeIdentity::new: the position of the own key among the validators.
IsValidator(n) == \E i \in 1 .. Len(Validators) : Validators[i] = n

NodeId(n) == CHOOSE id \in 0 .. Len(Validators) - 1 : ValidatorKey(id) = n

\* Mutant: ids counted from 1 where the list of validators counts from 0.
IsExpectedProposer_one_based(n, index, round) ==
  IsValidator(n) /\ NodeId(n) + 1 = ExpectedProposer(index, round)

IsExpectedProposer(n, index, round) ==
  IsValidator(n) /\ NodeId(n) = ExpectedProposer(index, round)

\* PoAConsensus::validate_block: the block rules, then the proposer whose turn
\* it is, then that proposer's signature.
ValidateBlock(prev, b) ==
  /\ Validate(prev, b)
  /\ b.proposer_id = ExpectedProposer(b.index, b.round)
  /\ b.signature = ValidatorKey(b.proposer_id)

\* Mutant: the net_id of the node in place of its validator id.
BuildBlock_net_id(n, prev, txs, round, now) ==
  [index |-> prev.index + 1, previous_hash |-> Hash(prev), timestamp |-> now,
   round |-> round, proposer_id |-> n, signature |-> n, transactions |-> txs]

\* Mutant: no timestamp in the header.
BuildBlock_untimed(n, prev, txs, round, now) ==
  [index |-> prev.index + 1, previous_hash |-> Hash(prev), timestamp |-> 0,
   round |-> round, proposer_id |-> NodeId(n), signature |-> n, transactions |-> txs]

\* Node::build_block at node n: the next block on prev, signed by n.
BuildBlock(n, prev, txs, round, now) ==
  [index |-> prev.index + 1, previous_hash |-> Hash(prev), timestamp |-> now,
   round |-> round, proposer_id |-> NodeId(n), signature |-> n, transactions |-> txs]

=============================================================================
