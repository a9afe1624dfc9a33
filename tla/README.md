# TLA+ models and proofs of b4n

b4n is a small proof-of-authority blockchain node in Rust with a web chat on
top. This directory models the node and the network of nodes in TLA+, checks
the models with TLC on small instances, and proves the main safety properties
for every instance with TLAPS. Paths are relative to the repository; `node.rs`
is `src/node/node.rs`, and so on.

## 1. The system

| part | files | state | operations |
|---|---|---|---|
| Blocks and chain | `blockchain/block.rs`, `transaction.rs` | `BlockChain.blocks`, a vector that starts with genesis and only grows | build, sign, hash, validate, add, get, last, height |
| Proof of authority | `consensus/poa.rs` | the list of validators; current round and when it started | expected proposer of (height, round), validate a block, update the round |
| Transaction pool | `blockchain/mempool.rs` | queue, set of remembered hashes, order of remembering | push (10 000 queued, 50 000 remembered), pop many, remove included |
| Node | `node/node.rs` | chain, pool, round, peers, seen blocks, orphans by parent with a counter, the sync state | one handler for each message, a tick |
| Protocol messages | `transport/message.rs` | – | Hello, HelloAck, GetStatus, Status, GetBlocks, Blocks, Trx, Block |
| TCP transport | `transport/tcp.rs` | per connection a reader and a writer thread, an outgoing channel | listen, connect (and retry), read and write frames, report events |
| Process and bridge | `cli/commands.rs`, `cli/args.rs` | – | start everything; forward transport events to the node's channel |
| Admin listener | `node/admin.rs` | next transaction id | `trx`, `print`, `stop` |
| Hashing | `blockchain/crypto.rs` | – | SHA-256, Merkle root |
| Chat service | `webapp/service.py`, `node_admin.py`, `log_parser.py`, `main.py` | a lock; the node's log is its only view of the node | send a message, take a snapshot |
| Packaging | `Makefile`, `Dockerfile`, `scripts/` | – | local networks, containers restarted after a stop |

How the parts interact. Each node is one thread (`Node::run_loop`) with one
channel. Transport readers, the admin listener, the start-up thread and, through
the bridge, connection events all send into this channel; the node sends to its
peers through one outgoing channel per peer, which a writer thread empties into
the socket. Handlers never block and never share state, so a handler is atomic
for the other threads *of its own node*; what interleaves is the handlers of
different nodes, messages under way, ticks and connection events. Nothing is
kept on disk.

What is hard:

* ticks race with messages: a round times out while the block of that round is
  under way, and then two validators sign for one height;
* a received block goes one of four ways (seen, connected, kept as an orphan,
  refused), and the orphan store has its own limits, counter and second way of
  extending the chain;
* sync is a state machine without a timeout: its request and its answer can
  each be dropped without notice;
* connections fail and come up again, with events that only name the peer;
  six threads and four queues are between two nodes, and a failure may be seen
  by two of them;
* a restarted validator has forgotten its chain and what it signed;
* the chat service sees the node only through its log, into which several
  threads write and which it reads while a snapshot is being printed.

What makes the parts correct:

* chain and consensus: every chain is valid link by link; a validator signs one
  block a height; forks have one cause only;
* pool: nothing accepted is lost, reordered, accepted twice within the window
  of remembered hashes, or confirmed twice;
* Merkle root: it is that of the tree, and tells lists of transactions apart;
* orphans: the counter bounds what is kept; no block is kept twice; no block
  becomes unreachable because it was marked as seen too early;
* sync: never set without an answer to come; it ends;
* network: every step extends one chain by one signed block, or forgets a chain
  in a restart; every transaction is confirmed everywhere and every chain
  catches up;
* transport: what a node sends is handled in order and once; a failed
  connection is reported once, never at the expense of its successor; the
  dialler gets through its handshake, and dials again;
* chat: ids are unique; an answer is one moment of the node; what was shown as
  confirmed stays so; an answer is out of date in known cases only.

## 2. Modules

| module | what it is |
|---|---|
| `Blockchain` | blocks, hashes, validation, proposer rotation, as constant operators |
| `Mempool` | the pool as operators on a record |
| `Merkle` | `calc_merkle_root`, and the tree it is meant to compute |
| `MempoolMachine`, `MCMempool` | the pool alone, as a state machine, and its instance for TLC |
| `Ledger` | what the nodes promise together: chains that grow by signed valid blocks |
| `B4n` | the network of nodes: all handlers, ticks, connections, restarts; its properties |
| `MCB4n` | values of B4n's constants for TLC; initial states in which a node joins late, or two pools hold a transaction |
| `Link` | what a pair of connected peers promises to the nodes above it |
| `Transport` | one dialled peer: the threads of both ends, their connections, events and nodes |
| `Chat` | the chat service, the admin threads, the node's output and the log parser |
| `MempoolProofs`, `PoolProofs` | lemmas about the pool and about sequences; theorems about `MempoolMachine` and the Merkle roots of its blocks |
| `B4nProofs` | type correctness of B4n |
| `SafetyProofs` | the inductive invariant of B4n, its safety theorems, and B4n implements `Ledger` |
| `OrphanProofs` | the orphan store of B4n: its counter, no copies, no block out of reach |
| `SteadyProofs` | B4n while connections hold and processes run on: syncs, and no transaction twice |
| `TransportProofs` | types of Transport, the dialler's discipline of reports, delivery once and in order, and Transport implements `Link` |
| `ChatProofs` | types and safety properties of Chat |

`B4n` EXTENDS `Blockchain` and `Mempool` and keeps their data for each node; it
instantiates `Ledger` as `Promise`, as `Transport` does `Link`. `MempoolMachine` EXTENDS `Mempool` and `Merkle`,
`Chat` EXTENDS `Mempool`.

### How B4n corresponds to node.rs

| variable | field |
|---|---|
| `chain[n]` | `chain.blocks` |
| `pool[n]` | `mempool` |
| `round[n]` | `consensus.state.current_round` |
| `peers[n]` | keys of `peers` |
| `seen_blocks[n]` | `seen_blocks_order` (and, as a set, `seen_blocks`) |
| `orphans[n]`, `orphans_total[n]` | `orphans_by_prev`, `orphans_total` |
| `sync[n]` | `is_syncing`, `sync_peer`, `sync_next_height` |
| `task[n]` | the program counter of a handler that processes blocks |
| `link[n][p]` | the outgoing channel, the socket and p's channel together: what n sent to p and p has not handled |
| `conn`, `up`, `down` | established connections; connect and disconnect events not handled yet |
| `boot`, `issued`, `signed`, `breaks` | the starts of each process, the transactions submitted, every block ever signed (history), the failures so far |

| action | code |
|---|---|
| `LocalTrx`, `OnTrx` | `on_message` LocalTrx; `on_net` Trx |
| `OnGetStatus`, `OnStatus`, `OnGetBlocks` | the arms of `on_net`, with `start_sync` and `request_blocks` |
| `OnBlock`, `OnBlocks` | the beginning of these arms: the blocks go into `task` |
| `IgnoreBlock`, `ConnectBlock`, `DeferBlock` | one call of `handle_incoming_block` |
| `ConnectOrphan`, `EndOrphans` | one turn of the loop in `try_connect_orphans` |
| `Paginate` | the end of the Blocks arm |
| `TickPropose`, `TickRound` | `on_tick` |
| `AddPeer`, `RemovePeer` | `add_peer`, `remove_peer` |
| `Connect`, `Break`, `Lose`, `Restart` | the transport and the process, as a node can observe them |

The handlers that process blocks are split into steps only because they loop;
no other event of the node is taken while `task[n]` is not `NoTask`, as in the
code.

Abstractions:

* **Hashes and signatures.** A hash is the sequence of headers that leads to
  the block, so equal hashes mean equal blocks (SHA-256 without collisions). A
  signature is the node that signed, and verifying compares nodes. The header
  carries the transactions, which stands for a Merkle root that always matches.
* **Time.** A tick can find its slot over or its round timed out whenever the
  thread is between two events. This allows every timing of the code and more.
  A timestamp only tells one start of a process from the next.
* **Connections.** One FIFO per ordered pair of nodes. `Lose` drops any message
  of a link while the nodes are not joined or still have an event of the
  connection to handle: the tail of a stream that broke, or what the writer
  had taken from its channel when the write failed (tcp.rs:332-343). `Connect`
  may follow a failure at any time (the code's dialler redials later than
  that, see 6). `PeerDisconnected` may be handled before or after messages that
  were read earlier. When two nodes dial each other the second connection is
  modelled in its effect on `peers` only. A message of an old connection that is
  overtaken by one of its successor is not modelled. `Transport` has the threads
  behind this, and that it implements `Link` is what the FIFO rests on.
* **Restart** is `Stop` or a crash followed by a new start. A node that stays
  down is one that takes no more steps after it. What a peer that dials it still has
  in `rx_out` (tcp.rs:210, 333) goes to the new process over the next connection,
  except the message whose write fails (`Unwritten`); of this, what was already
  written is taken away by `Lose`. An acceptor's channel ends with its connection.
* `DebugPrint` changes nothing and is left out.

### How Ledger is implemented

`Ledger` knows the chains, who signed what and how often each process was started.
A step adds one block to one chain, which is valid on it and either signed before or
signed now by the owner of the chain, above all it signed since its start; or a process
starts with an empty chain. The mapping takes `chain`, `signed` and `boot` as they are. All else that B4n
does, messages, orphans, sync, pools, is invisible in it.

### How Transport corresponds to tcp.rs

One node dials another. A connection is a number, 1 for the first.

| variable | code |
|---|---|
| `dial`, `last` | where the thread of `connect_peer` is in its loop, and with which stream |
| `guard` | the `disconnect_sent` of each connection |
| `accept[c]`, `writer[c]` | the thread of `spawn_tcp_listener` for c; the writer of `spawn_peer_io` |
| `reader[e][c]` | the reader thread of an end |
| `live`, `socket[e][c]` | the streams that still carry data; what an end wrote and the other has not read |
| `rx_out`, `rx_accept[c]` | the channels that the writers empty: one for all connections of the dialler, one for each at the acceptor |
| `events[e]` | the transport events that wait for a node |
| `peer[e]` | the connection whose Sender is in `Node.peers` |
| `sent`, `got` | the messages of each node, by number, and what each has handled |

| action | code |
|---|---|
| `Dial`, `ReadAck`, `AckFails`, `Announce`, `Write`, `WriteFails` | `connect_peer` (tcp.rs:200-351), step by step |
| `Accept`, `AcceptFails`, `AnnounceAccepted` | the thread of an accepted connection (tcp.rs:160-195) |
| `AcceptedWrite`, `AcceptedWriteFails`, `AcceptedWriteEnds` | the writer of `spawn_peer_io` (tcp.rs:105-123) |
| `Read`, `ReadFails` | the reader loops (tcp.rs:125-145, 301-319) |
| `AddPeer`, `RemovePeer`, `OnNet`, `Send` | what a node does with its Sender and its events (node.rs:148-189) |
| `Fail` | the network: a stream breaks, and a beginning of what was on it arrives |

A frame is written and read as a whole. A write that fails may have sent a part of its
frame, never all of it: `write_frame` (tcp.rs:45-56) uses `write_all`, which ends in an
error only while the kernel has not taken the last byte, and `flush` does nothing on a
socket. The peer does not get a message from such a part, because nothing follows it.
A read that times out in the middle of
a frame is started over by the code (tcp.rs:133) and takes what is left for a
length; what follows depends on the bytes and is not modelled. Neither is a
stream that only one end knows to be dead for good: here each end finds out.

### How Link is implemented

`Link` knows how many messages each of two nodes has sent, which ones it has handled,
and whether anything has failed. A message is handled once and after it was sent;
until the first failure the k-th that is handled is the k-th that was sent. The mapping
takes `sent` and `got` as they are, and `failed` is `faults > 0`. Dialling, handshakes,
threads, channels, streams, reports and Senders are invisible in it.

### How Chat corresponds to src/webapp and admin.rs

`call` is the place in `get_chat_state` or `send_message` (service.py:25-62) of the one
call that has the lock; `connections` are the admin threads (admin.rs:17-69); `inbox`
is what they have sent to the node; `output` is what the node still has to print
for a `DebugPrint`. A log line is a sequence of pieces, because `println!` hands a
long line to the file in several writes and another thread may write between any two
of them. The parser needs a line to begin with its word, and to have its list up to the
closing bracket with nothing in it that does not belong there (`Readable`); that a line
is cut or unfinished behind the list does no harm (log_parser.py:98-101, 130-140).
`Noise` is one write of another thread. `eprintln!` is not buffered and makes several for
one line, so such a piece may end a line ("other") or not, and then what follows goes on
with it: a chain or mempool line that begins behind a foreign fragment is not seen as
one. A fragment falls where the parser reads past it ("gap") or spoils what it reads
("part"). All messages have the same text, which is the case
in which only the number tells transactions apart. How a transaction becomes
confirmed is left to B4n: `Confirm` takes any transaction of the pool, with or
without removing it. The node is not restarted: `entrypoint.sh` ends the service
with the node and empties the log.

## 3. What TLC checks

Every run sets `CHECK_DEADLOCK FALSE`, because a system whose heights, rounds,
failures, calls and transactions are bounded stops when it has used them up.

| run | instance | what it shows |
|---|---|---|
| `cold` | 2 validators, cold start, height 3, two time-outs, room for one queued transaction, one remembered hash and one orphan | types, valid chains, one signature a height, no lost transaction, orphan accounting and distinctness, while proposing, time-outs, gossip, sync, forks, eviction and refusal interleave |
| `restart` | 2 validators, one restarts, one time-out, a transaction in both pools, height 2 | both sign, rounds drift, and the causes of forks remain the same when a validator forgets its chain; every step is one of `Ledger` |
| `faults` | 1 validator, 1 other node, one broken connection | reconnection, lost messages, stale events and late blocks strand no block and lose no transaction |
| `late` | 2 validators, a third node joins them, one time-out | orphans of one parent that arrive together, of which one is connected and the other moved, keep the counter right, are never kept twice, and strand no successor; a syncing node has an answer to come |
| `join` | 3 nodes in a line, the last joins late and submits a transaction, pages of one block, fairness | every transaction is confirmed everywhere and once, every chain catches up, every sync ends |
| `mempool` | 4 transactions, 3 queued, 3 remembered, 8 accepted | the window of remembered hashes, no early repetition, order of the queue; Merkle roots |
| `transport` | up to 2 connections, one fault at any place, 2 messages each way, fairness | one report, no message twice, FIFO, no live Sender dropped at the dialler, the handshake ends, what is sent is handled or something fails; every step is one of `Link` |
| `chat` | 2 calls, one write of another thread | unique ids, answers of one moment, confirmed stays confirmed, when an answer is fresh |
| `cold_sync` | violation | see 6 |
| `duplicates` | violation | see 6 |
| `overtake` | violation | see 6 |
| `redial` | violation | see 6 |

**Can the properties fail?** A definition whose comment begins with "Mutant" is a
plausible mistake in the definition below it (an off-by-one, a dropped check, a
missing reset). `PROJECT.json` pairs each property of each passing run with one:
with the mutant in the place of the definition TLC finds the property violated.

**Bounds.** `MaxHeight` bounds the blocks, `MaxRound` the time-outs in a row,
`MaxBreaks` the failures, `MaxBoots` the starts of each node, `MaxAccepted` the
accepted transactions, `MaxFaults` the failures of the transport, `MaxSends` the
messages a node sends by itself, `MaxCalls` the calls of the chat service and
`MaxNoise` the writes of other threads. Height 3 with pages of 2 blocks gives a
full page, a short page and a block beyond them. One time-out is enough for two
validators to sign for the same height, and height 2 or 3 for a fork to be one
and two blocks deep when the sides meet. `restart` begins with a
transaction in both pools (`PooledInit` in `MCB4n`), which a connected pair reaches by one
submission, and has a second one to come. So either validator can sign height 1, with the
other's block under way or not, before and after the restart, and go on to height 2:
forks by round drift, forks by a second signature after the restart, and both together
occur. In `faults` the single validator rules
out forks, so that whatever goes wrong is the connection's doing; a break leaves
the other node one block behind and the next block arrives as an orphan. In
`mempool` every transaction can be accepted twice and the window slides five
times; blocks of 1, 2 and 3 transactions have trees of one, two and three levels, the
last with a copied hash. Orphans need a node that has missed a block. Between
nodes that stay connected this does not happen without forks: a node passes a
block on before it builds on it, and links are FIFO. They do occur from a cold
start, after a break, and after a time-out; `cold`, `faults` and `late` reach every
orphan action. Two orphans of one parent need two validators that fork above a
block which a third node does not have. From a cold start this takes more states
than TLC can visit in minutes, so `late` begins with the third node's arrival
(`LateInit` in `MCB4n`): the first block is on both validators' chains, the next
transaction in their pools, and the statuses for the latecomer are on their way.
`join` begins there too; its pages of one block give the latecomer a full page and a
second request.

In `transport` one fault gives every pair of a failing thread and one that goes on,
and the first connection's late events beside the second one. `GREETINGS` is 1 where
`add_peer` sends 2 messages: one already is a message written before the node has
handled the event that the other end waits for. Two messages of its own let a
node send while the first is being lost. In `chat` two calls are the least in
which a late print of one disturbs the next. One foreign write, at any place and with or
without an end of line, spoils a chain line or a mempool line, joins two lines, hides the
beginning of one or pushes them apart; a second write multiplies the states by more
than ten and was not needed to break any of the mutants. The theorems of `ChatProofs` hold
for any number of writes.

**Which property holds where.** `NoStrandedSuccessor` and `OrphansDistinct` are
claims about stores that are not full: a full orphan store refuses a block that
is already marked as seen, and a block whose hash was forgotten can be connected
from a page while it still waits as an orphan (TLC finds this with a single
remembered block). `NoStrandedSuccessor` is checked where orphans are not refused,
`OrphansDistinct` where as many hashes are remembered as there can be blocks;
`cold` has room for one orphan, and therefore does not check the first.
`ConfirmedOnce` fails as soon as orphans connect, and where a node joins by two
connections while a transaction is under way between its peers (section 6). It is checked
where neither can happen: `join` is a line, in which all that a node hears comes in the
order of the chain. `SyncInProgress` and `SyncEnds` fail from a cold start (section 6) unless a
`Status` is never handled too early, which `IntroducedSpec` adds to `Next` for the theorem
about the first (section 4), and `SyncEnds` also where a node is on a fork with a full page of blocks above it: none of
them connects, the height stays, and the same page is asked for again
(node.rs:299). They are checked where a node joins a network that is up.
`DialledRemovesDead` is a claim about the dialler. At the acceptor the same does not
hold: its writer reports without asking whether the reader has done so
(tcp.rs:119), and a second or late `PeerDisconnected` takes away the Sender of the
connection that has come up since. The dialler then sees a live connection on
which nothing arrives. In B4n this is `Break` and `RemovePeer` in any order, which
`faults` checks.

`FreshReply` names its exceptions: the deadline has passed (service.py:58), or what the
service waited for was the beginning of a snapshot only (service.py:52). A late print
of an earlier call is none: the node does nothing else while it prints, so that what
appears in the log after the service has looked at it is not older. It does not say that an answer to `send_message` shows
the message that was sent; that goes to the node by another connection and may
come later than the print (node_admin.py:20).

**Fairness.** `FairSpec` of B4n, and `FairLateSpec` in `MCB4n`, assume weak fairness of
taking each peer's messages (`Receive(n, p)`; the channel is one FIFO, so what is in
it is taken), of going on with a handler (`Continue`: it never blocks), and of
proposing (`Propose`). The last rests on an assumption about load: `on_tick` runs
only when the channel has been silent until the next tick (node.rs:453-458), so
messages must not come without pause. Time-outs of a round have no fairness: a
property that needed them would only show something about slow networks.
`FairColdSpec` adds that every dialled connection is made, as `connect_peer` tries
until it succeeds (tcp.rs:217-231). Failures and restarts are never fair. In
`Transport` every thread goes on when it can (`FairSpec`): threads are scheduled, and
a read or write on a dead stream returns. A time-out counts as a failure, and `MaxFaults`
bounds them; a thread that waits on a live stream waits for threads of the other end,
which go on as well. `Arrives` says of each message, by its number, that it is handled or
something fails; until then a node sends `MaxSends` messages at most, the greetings
among them, so that the numbers up to this bound are all. Nothing makes a node send, and so
nothing makes a writer notice a failure: `redial` rests on this.

## 4. What is proved

All theorems hold for every value of the constants that the named assumptions
admit. For B4n these are any finite or infinite set of nodes and transactions, any
list of distinct validators, any limits and any bounds: `ValidatorsAssumption` (what
`validate_config` tests), `NoneAssumption`, `MempoolAssumption`, `B4nAssumption`. Its
theorems speak of `Spec` and of `ConnectedSpec`, so failures, losses and restarts are
included; those of `SteadyProofs` are about a network without them. (`LateSpec` in `MCB4n` begins in a state that these reach, and serves TLC
only.) `TransportAssumption` says that the bounds are naturals, `MachineAssumption` that
at least one hash is remembered, `ChatAssumption` that the bounds of Chat are naturals.

| theorem | statement |
|---|---|
| `TypeCorrect`, `TypeCorrectConnected` | `TypeOK` of B4n always holds |
| `EveryChainValid` | every chain is genesis followed by valid blocks |
| `OneSignaturePerHeight` | a validator signs one block a height between two starts |
| `ForkOnlyByDrift` | different blocks at one height have different rounds or come from different starts |
| `SteadyAgreement` | without time-outs and restarts the chains are prefixes of each other |
| `NothingLost` | what a node accepted and remembers is queued or on its chain |
| `Inductive` | the invariant that the above follow from |
| `OrphansCounted` | the orphans kept are never more than `orphans_total`, nor that than its limit |
| `OrphansApart` | while `mark_seen_block` forgets no hash, no block is twice among the orphans, nor there and on the chain |
| `NoneStranded` | while `put_orphan` refuses no block, none is out of reach because it was marked as seen |
| `SyncHasReason` | in a connected network without failures and restarts, `is_syncing` is never set with no answer to come |
| `SyncHasReasonOnceMet` | the same from a cold start, if no `Status` is handled before its peer is registered and no two nodes dial each other |
| `NoneTwice` | in such a network, while pools have room and no orphan fits the chain of a validator, no transaction is confirmed twice |
| `NetworkIsLedger` | B4n implements `Ledger`, from either initial state |
| `RemembersWindow`, `NothingRepeatsEarly`, `QueueKeepsOrder` | the three properties of the pool; `PoolInductive` is their invariant |
| `RootOfTree` | the loop of `calc_merkle_root` returns the root of the tree over the transactions of a block, however many there are |
| `RootsCommit` | if no transaction's hash is that of a pair or of nothing, lists without repetition that have one root are equal |
| `TransportTypes` | `TypeOK` of Transport always holds |
| `ReportsOnce` | the dialler reports each connection at most once |
| `DropsOnlyDead` | the dialler's node never drops the Sender of a connection that serves |
| `TransportDiscipline` | the invariant that the last two follow from |
| `NothingTwice` | no message is handled twice, whatever fails and when |
| `KeepsOrder` | until the first failure, messages are under way or handled in order and without a gap |
| `TransportIsLink` | Transport implements `Link` |
| `ChatTypes` | `TypeOK` of Chat always holds |
| `NumbersDistinct` | messages on their way to the node, and those it has, differ in their ids |
| `SameMoment` | a chain line and a pool line that the parser pairs come from one print |
| `NothingUnconfirmed` | what was shown as confirmed stays so |
| `AnswersFresh` | an answer is out of date in the two cases that `FreshReply` names only |

**The argument.** `TypeOK` is not inductive by itself: that a node can append a
received block needs the blocks on links, in tasks and in orphans to be blocks.
`B4nProofs` therefore proves `Typed(B)`, "every block in the network is in B",
for any set B of blocks that contains genesis and what is signed next, with one
lemma for each action. With B all blocks it gives the types. With B =
`signed` plus genesis (`Known`) it gives `BlocksKnown`: nothing goes round that
nobody signed.

`Invariant` (SafetyProofs) adds to this

* `ChainValid` and `Indexed`, a block's index is its place;
* `SignedInReach`: if the signer of a block has not been started again since, its
  chain is at least as long as the block's index;
* `Started`, which ties `boot` to its bound.

`SignedInReach` is why `NoEquivocation` is inductive: a tick signs for the height
above its own chain, and all that this process signed lies within it. Chains
never shrink except in `Restart`, which moves `boot`. `ForkNeedsRoundDrift` follows
without another induction: two blocks on chains at one height were signed;
validity makes the proposer a function of height and round, so equal rounds mean
one signer, equal timestamps one start of it, and `NoEquivocation` makes the
blocks equal. `SteadyAgreement` is the case in which rounds and timestamps have
no second value. `NothingLost` needs the lemma `OwnBlockIsValid`: the candidate of
`on_tick` always passes its own validation, so the early return after
`pop_many` that would lose transactions (node.rs:427-430) is never taken.

The conjuncts of `Invariant` were model-checked on the `cold` and `restart`
instances before they were proved.

**The refinement.** `NetworkIsLedger` maps each action to a step of `Ledger` or to a
stutter. The three that extend a chain (`ConnectBlock`, `ConnectOrphan`, `TickPropose`)
need from the invariant that a received block was signed (`Known`) and that the
candidate of a tick is valid; a restart is `Ledger`'s; all others leave chains,
signatures and starts alone.

**Orphans.** The three theorems speak of `Spec` and `ConnectedSpec` with all their
failures. `OrphanAccounting` counts places in buckets (`Places`), so that it needs no
sum: `ConnectOrphan` takes one place away and moves the rest of a bucket to places that
were free, or drops it, while the counter goes down by one; a bucket that is cut makes
the counter too large, never too small (`Counted`). `OrphansApart` has the premise
`RoomForHashes`: no node ever remembers as many hashes as `MAX_SEEN_BLOCKS`, so that
none is forgotten. Then every block on a chain or among the orphans is among the seen
ones (`Apart`), and a second copy is ignored; the block that `on_tick` builds was not
signed before. `NoneStranded` has the premise `RoomForOrphans`: no store ever reaches a
limit of `put_orphan`. `Stored` says of a node that a block it has seen is no higher
than its chain or waits among its orphans under the hash of its parent, and that no
orphan fits the tip unless `try_connect_orphans` is about to look for it, which is why
its loop has to go on after every block it adds. `Grown` gives the rest: a signed block
is valid on one block only, the one whose hash it carries. The premises are about
behaviours and not about constants, since how many orphans there are depends on the
others; in the code the limits are 100 000 hashes, 1024 orphans and 8 for one parent
(node.rs:14-16). At the limits the two properties do not hold (section 3).

**Syncs.** `SyncInProgress` is false after a failure or a restart, and after a cold start
if a `Status` is handled before the peer is registered: the request is dropped then
(`cold_sync`, section 6). Both theorems assume `Undisturbed`: no connection fails
(`MaxBreaks = 0`) and no process is started again. `SyncHasReason` begins with the
connected network, and `Steady` says what this gives, that peers are the neighbours and
that only neighbours write to each other. `SyncHasReasonOnceMet` begins with a cold start
and takes the order of events as part of the specification (`Introduced`). There `Meeting`
says that two nodes which are joined either have senders for each other or have one event
each to handle, and that until then what the other has sent begins with its greeting.
So a request is never handled before the `Status` in front of it, and the premise need not
mention requests. Where two nodes dial each other, the event of a second connection may
still wait when the first is in use; this is why `OneDialler` is assumed.
Common to both is `Peered`: nodes write to their peers only. Each of the handlers is
shown to do one thing to the links, to append some messages for some peers and to take
one (`Writes`), and the invariants about what is on a link are proved against this shape
and not against each action again. `Waits` is `SyncInProgress` without its last disjunct:
a request stays on the link until it is answered by `Blocks`, and these until the handler
that takes them ends the sync or asks again in the same step.

**No transaction twice.** In the connected network a node tells its peers of a transaction
when it accepts it, and of a block when it has handled it. Since links are first in,
first out, a peer hears of a transaction before any block that contains it: `Tells` says
for each link that the receiver knows all that the sender knows, or is told of it on the
link, and for each message on it that the receiver knows its transactions or is told of
them before. Hence a node remembers every transaction of its chain, of its orphans and
of the blocks in hand (`Remembers`), accepts none of them again, and a validator has
nothing in its queue that is on its chain (`Ready`). So no signed block confirms what a
block before it does: `SignedOnce` says this of the headers in the hash that the block
carries, and `Leads` ties these to the chain the block stands on, whichever way it got
there. Two premises are needed and stated. `RoomInPools`: a full pool refuses a
transaction or forgets its hash, and would take it again. `NoOrphanFits`: no validator
ever has an orphan that is valid on its tip, for `try_connect_orphans` adds it without
cleaning the pool, and the statement is false without it (`duplicates`, section 6).
Nodes that are no validators may connect orphans. That the network is connected from the
start is needed as well: a node that joins learns of old transactions from pages of
blocks, and passes on blocks whose transactions it was never told, so that a block can
get ahead of its transaction (`overtake`, section 6).

**The pool.** That the hash set never drifts from its order needs the two others: a
hash is forgotten when the set has grown beyond the limit, the set is as large as
the order only because nothing in the window is repeated (`Apart`), and this holds
only because all of the window is in the set. `Remembers` has the three together.
The order of the queue is a strictly increasing function from its places to those
of the accepted transactions (`InOrder`), which every call composes with another.

**The Merkle root.** The prover sees a recursive function as some function that satisfies
its definition, if there is one. `PoolProofs` therefore shows first that there is one
for levels, trees and leaves, from induction over sets of numbers, which follows from the
least element of a set; `Leaves` stands for powers of 2, of which the prover knows
nothing. `RootOfTree`: level k of the loop is the row of the subtrees of depth k, and a
subtree that begins beyond the end is never needed, as the one before it is repeated.
`RootsCommit` needs `HashesApart`, that no transaction has the hash of a pair or of
nothing, which SHA-256 is trusted for: trees of different depths differ because a leaf is no
pair, and in trees of one depth equal subtrees begin with the same transaction, so that a
right half is never taken for a repeated left one, as no transaction is repeated.

**The dialler.** A report names the peer, not the connection, and the reader of an
old connection may still be running when the next is up. `Guarded` says that such a
reader finds its guard set, because `connect_peer` dials again only after its own
report, so that only the latest connection is ever reported anew. `Chronology` follows
the reports through the node's queue: none is about an earlier connection than one
announced before it, nor than the one in use. A node that handles a report about k
while it uses c therefore has c <= k, and k is reported and of no more use; if c is
not k it is not the latest. `Counted`, `Guarded` and `Chronology` were model-checked on
up to three connections before they were proved.

**Delivery.** A message of one end is in one place at a time: in the channel of a
writer, in the socket, with a reader, among the events, or handled. `Boxes` names these
places and `Once` says that no number is in two of them. What makes it inductive is the
handshake: `Opening` says how far the two ends of each connection are and what each has
written by then, and `Carried` that a `Hello` comes from no node and reaches none.
`KeepsOrder` follows the line from one node to the other (`InLine`): what is handled,
what is among the events, what is in the socket, what waits for the writer. Every step
moves a message from one part of this line to the next, and the sequence of all four
stays; the `Hello` that the handshake writes past the channel does not count. The
premise `faults = 0` is part of the property: after a failure a gap is what the code
admits.

**The link.** `TransportIsLink` puts the two together. The step in which a node handles a
message is a step of `Link` for three reasons: the message was sent (`Once` gives its
number a bound), it was not handled before (`NothingTwice`), and while nothing has failed
it is the next one (`KeepsOrder`, from which `InTurns` concludes that the handled messages are
1, 2, 3 and so on). All other steps are sends, the first failure, or stutters, as a
report or a new connection says nothing about messages. That the links of B4n,
which has no threads, are links of this kind is argued in section 2.

**The ids.** A message moves from an admin thread to the node's channel and from there
to the pool, and threads overtake each other. `Ids` (ChatProofs) says that every number
in use is below the counter and in one place only: with a thread, in the channel, or
among those the pool remembers. `NumbersDistinct` speaks of one start of the node: after
a restart the counter begins at 1 again (admin.rs:15).

**The log.** `Printing` follows a print from the node into the log. `Scripted`: what the
node has still to write is the end of its last `DebugPrint`, of the state it has now, as
it does nothing else meanwhile. Foreign writes may cut lines and join them, so a chain
line may have no queue of its own any more. What remains is a distance: the node ends
three lines in each print, and others can only add to them. `Paired` says that behind a
chain line there are at least the lines its print has ended by now, and three if the
print is over (`Spaced`); the queue of a later print begins therefore more than three lines
further down, where the parser does not look (`Near`). `ReadableStays`: what can be read of
a line remains, since pieces are only appended. `Answered` has the properties of answers with what they rest on: the
blocks that the log shows only grow (`Growing`), what was shown stands in a snapshot of
the log (`Standing`), and while a call waits, the node has what it had when the markers
were counted, and shows it in every snapshot since (`Asked`).

**Model-checked only.** Liveness (`SyncEnds`, `EveryTrxConfirmed`, `EveryoneCatchesUp`,
`DialSucceeds`, `Arrives`) is out of the prover's reach. `ConfirmedOnce` in `join` is
checked from a state in which a third node has just joined; its theorem begins with the
connected network. `SyncInProgress` in `late` is checked with nodes that dial
in a ring, in a state that `IntroducedSpec` reaches. Every invariant and every step property
that a run checks is a theorem.

## 5. What is not modelled

* SHA-256, Ed25519 and the encodings (`borsh`, hex, JSON): taken for what they promise.
  The Merkle root of a list of transactions is computed over hashes without
  collisions; that an odd level is filled up with a copy means that a list which
  repeats its last transaction has the root of the one that does not
  (crypto.rs:27), which is why `RootCommits` speaks of lists without repetitions: no
  pool holds a transaction twice within its window.
* Read time-outs within a frame (tcp.rs:133) and streams that one end takes for
  live forever.
* The acceptor's side of a stale report as a property: see section 3.
* The extraction of transactions from the debug text (log_parser.py): it succeeds on a
  list that no foreign piece has spoiled. A fragment that is itself a transaction in
  debug format, inside the list, would be read as one; no thread writes such.
* An acceptor that cannot clone its stream panics in its thread (tcp.rs:91) without a
  word to the dialler, whose handshake is over; the failure of the clone at the
  dialler is `AckRejected`.
* Argument parsing (`args.rs`), the configuration built in `commands.rs`, the routes
  (`main.py`), the browser's page and the scripts: they run once, or keep no state of the
  system. Two nodes that dial each other are modelled as one relation, see section 2.
* Time as such: slots, time-outs and pauses are choices of when a step happens.

## 6. Where the code and its comments part

* **`cold_sync`.** node.rs:384 says of `is_syncing` "a sync is in progress, we
  sit and wait". Both ends of a connection start reading before they
  announce it (tcp.rs:188/191, 301/323), so the peer's `Status` can be handled
  before `AddPeer`. `start_sync` sets `is_syncing`, `request_blocks` finds no
  sender and sends nothing, and no event ends the sync while the connection
  lasts. The node proposes nothing any more.
* **`duplicates`.** node.rs:347 cleans the pool after a block "or they multiply".
  `try_connect_orphans` adds blocks without doing so, and the transactions of
  an orphan are confirmed a second time.
* **`overtake`.** The same comment, without any orphan. Validator A accepts a transaction,
  tells validator B, and proposes a block with it. A node that has just joined both gets
  the block from A and passes it on to B before A's `Trx` message arrives there on the
  direct connection. B connects the block; `remove_included` (mempool.rs:55) takes from
  the queue what is in it, but does not remember the hashes, and `push` asks only for
  these (mempool.rs:33). The late transaction enters B's pool and is confirmed again.
  In a network connected from the start this cannot happen, which is `NoneTwice`.
* **`redial`.** tcp.rs:198 says that `connect_peer` reconnects, and 328-330 that a failed
  write leads to it. When the reader of a dialled connection notices the failure first,
  it reports it and ends; the node drops its Sender and writes nothing more; the
  connecting thread waits in `rx_out.recv()` (333), whose channel its own clone of the
  Sender keeps open, and never dials again. The pause between attempts is 200 ms
  throughout (214), not exponential as the comment says.

## 7. Plan

Done: the core (`Blockchain`, `Mempool`, `B4n`), the abstract `Ledger` and `Link` with their
refinement proofs, `Transport`, `Chat`, `Merkle`, and theorems for every safety property
that the runs check. What could follow:

1. `NothingTwice` and the order of messages beyond the first failure: the gap between two
   connections, and what of a FIFO is left then.
2. `NoneTwice` for a network that a node joins by one connection, where no block can get
   ahead of its transaction (`join` checks it): `Tells` has to speak of pages of blocks.
3. An abstract specification of the orphan store that `B4n` implements for each node.
