-------------------------------- MODULE B4n ---------------------------------
(***************************************************************************)
(* A network of b4n nodes (src/src/node/node.rs) joined by TCP connections *)
(* (src/src/transport/tcp.rs, kept here to what a node can observe of it). *)
(*                                                                         *)
(* Every node is one thread, Node::run_loop, that takes one event from its *)
(* channel, runs its handler to the end and takes the next.  A handler     *)
(* that connects blocks is a sequence of steps driven by task[n]: one for  *)
(* each call of handle_incoming_block, one for each turn of the loop in    *)
(* try_connect_orphans, one for the pagination of the sync.  No other      *)
(* event of the node is taken before task[n] is NoTask again, so the steps *)
(* of a handler are compelled; only those of other nodes come between.     *)
(*                                                                         *)
(* Time is left out: a tick may find its slot over, or its round timed     *)
(* out, whenever the thread is between two events.                         *)
(***************************************************************************)
EXTENDS Blockchain, Mempool

CONSTANTS
  SYNC_LIMIT,           \* Node.sync_limit, 256 in the code
  MAX_TRX_PER_BLOCK,    \* config.max_trx_per_block, 100 in the code
  MAX_ORPHANS_TOTAL,    \* 1024 in the code
  MAX_ORPHANS_PER_PREV, \* 8 in the code
  MAX_SEEN_BLOCKS,      \* 100_000 in the code
  Dial,                 \* <<n, p>>: n was started with --peer p
  Origin,               \* the node at which a transaction is submitted
  MaxHeight,            \* bound: no block is built above this height
  MaxRound,             \* bound: rounds a node may time out into
  MaxBreaks,            \* bound: connections that fail while both ends run
  MaxBoots              \* bound: MaxBoots[n] times the process of n is started

ASSUME B4nAssumption ==
  /\ {SYNC_LIMIT, MAX_TRX_PER_BLOCK, MAX_ORPHANS_PER_PREV} \subseteq Nat \ {0}
  /\ {MAX_ORPHANS_TOTAL, MAX_SEEN_BLOCKS} \subseteq Nat \ {0}
  /\ {MaxHeight, MaxRound, MaxBreaks} \subseteq Nat
  /\ MaxBoots \in [Node -> Nat]
  /\ Dial \subseteq {d \in Node \X Node : d[1] # d[2]}
  /\ Origin \in [Trx -> Node]

VARIABLES
  chain,          \* Node.chain.blocks
  pool,           \* Node.mempool
  round,          \* Node.consensus.state.current_round
  peers,          \* the keys of Node.peers
  seen_blocks,    \* Node.seen_blocks_order, whose elements are Node.seen_blocks
  orphans,        \* Node.orphans_by_prev
  orphans_total,  \* Node.orphans_total
  sync,           \* Node.sync_peer and sync_next_height; is_syncing is peer # None
  task,           \* where the handler in progress stands
  link,           \* link[n][p]: the messages n sent to p that p has not handled
  conn,           \* the dialled connections that are established
  up, down,       \* up[n][p], down[n][p]: PeerConnected and PeerDisconnected
                  \* events about p that n has not handled
  breaks,         \* the connections that have failed so far
  boot,           \* how often each node was started; its clock, see TickPropose
  issued,         \* the transactions submitted to each node since it was started
  signed          \* history: every block that was ever signed

node == <<chain, pool, round, seen_blocks, orphans, orphans_total>>
net == <<conn, up, down, breaks>>
vars == <<node, peers, sync, task, link, net, boot, issued, signed>>

-----------------------------------------------------------------------------
(* Messages: ProtocolMessage without the handshake.  The hash in a Status   *)
(* is never read, and the limit of a GetBlocks is always SYNC_LIMIT.        *)

GetStatus == [type |-> "GetStatus"]
Status(height) == [type |-> "Status", height |-> height]
GetBlocks(start) == [type |-> "GetBlocks", start |-> start]
Blocks(blocks) == [type |-> "Blocks", blocks |-> blocks]
TrxMsg(t) == [type |-> "Trx", trx |-> t]
BlockMsg(b) == [type |-> "Block", block |-> b]

Message ==
  [type : {"GetStatus"}] \cup [type : {"Status"}, height : Nat]
    \cup [type : {"GetBlocks"}, start : Nat] \cup [type : {"Blocks"}, blocks : Seq(Block)]
    \cup [type : {"Trx"}, trx : Trx] \cup [type : {"Block"}, block : Block]

\* link after n sends the messages ms, in this order, to each peer in ps that
\* it has a sender for; without one the send is silently skipped.
Sent(n, ps, ms) ==
  [link EXCEPT ![n] = [p \in Node |-> IF p \in ps \cap peers[n] THEN @[p] \o ms ELSE @[p]]]

\* Mutant: only transactions are passed on.
Gossip_trx_only(n, m) == IF m.type = "Trx" THEN Sent(n, Node, <<m>>) ELSE link

\* gossip and broadcast_block
Gossip(n, m) == Sent(n, Node, <<m>>)

-----------------------------------------------------------------------------
(* The handler in progress *)

\* rest: blocks not yet passed to handle_incoming_block; progressed: whether one
\* of them was connected; from, got: sender and length of a Blocks message.
Task == [rest : Seq(Block), progressed : BOOLEAN, from : Node \cup {None}, got : Nat]

NoTask == [rest |-> << >>, progressed |-> FALSE, from |-> None, got |-> 0]

Idle(n) == task[n] = NoTask
Handling(n) == task[n].rest # << >>
Connecting(n) == task[n].rest = << >> /\ task[n].progressed
Paging(n) == task[n].rest = << >> /\ ~task[n].progressed /\ task[n].from # None

\* Mutant: progressed is assigned where it should be or-ed.
Handled_assigns(t, progress) == [t EXCEPT !.rest = Tail(@), !.progressed = progress]

\* One block of the handler is done.
Handled(t, progress) ==
  [t EXCEPT !.rest = Tail(@), !.progressed = @ \/ progress]

\* The sync in progress; NoSync is is_syncing = false, when next is not read.
NoSync == [peer |-> None, next |-> 0]
SyncWith(p, start) == [peer |-> p, next |-> start]

-----------------------------------------------------------------------------
(* Blocks a node remembers *)

SeenHashes(s) == {s[i] : i \in DOMAIN s}

\* Mutant: the hash is looked up and never recorded.
MarkSeen_forgets(s, h) == s

\* mark_seen_block
MarkSeen(s, h) ==
  IF h \in SeenHashes(s) THEN s
  ELSE LET longer == Append(s, h)
       IN  IF Len(longer) > MAX_SEEN_BLOCKS THEN Tail(longer) ELSE longer

Bucket(o, h) == IF h \in DOMAIN o THEN o[h] ELSE << >>

WithBucket(o, h, bs) == [k \in DOMAIN o \cup {h} |-> IF k = h THEN bs ELSE o[k]]

WithoutBucket(o, h) == [k \in DOMAIN o \ {h} |-> o[k]]

\* Mutant: one orphan more than the limit.
KeepsOrphan_one_more(n, b) ==
  /\ orphans_total[n] <= MAX_ORPHANS_TOTAL
  /\ Len(Bucket(orphans[n], b.previous_hash)) < MAX_ORPHANS_PER_PREV

\* put_orphan keeps b unless one of its two limits is reached.
KeepsOrphan(n, b) ==
  /\ orphans_total[n] < MAX_ORPHANS_TOTAL
  /\ Len(Bucket(orphans[n], b.previous_hash)) < MAX_ORPHANS_PER_PREV

PutOrphan(n, b) ==
  IF KeepsOrphan(n, b)
  THEN /\ orphans' = [orphans EXCEPT ![n] =
            WithBucket(@, b.previous_hash, Append(Bucket(@, b.previous_hash), b))]
       /\ orphans_total' = [orphans_total EXCEPT ![n] = @ + 1]
  ELSE UNCHANGED <<orphans, orphans_total>>

\* Mutant: the connected orphan stays in the list.
SwapRemove_keeps(bs, i) == bs

\* Vec::swap_remove: the last element takes the place of the removed one.
SwapRemove(bs, i) ==
  [j \in 1 .. Len(bs) - 1 |-> IF j = i THEN bs[Len(bs)] ELSE bs[j]]

\* position(..) in try_connect_orphans: i is the first block of bs valid on prev.
FirstValid(prev, bs, i) ==
  /\ i \in DOMAIN bs
  /\ ValidateBlock(prev, bs[i])
  /\ \A j \in 1 .. i - 1 : ~ValidateBlock(prev, bs[j])

\* What try_connect_orphans does with the rest of a bucket: it is put back
\* under the hash of the block just connected, as far as that bucket has room.
PutBack(o, h, left) ==
  IF left = << >> THEN o
  ELSE LET all == Bucket(o, h) \o left
       IN  WithBucket(o, h, SubSeq(all, 1, IF Len(all) < MAX_ORPHANS_PER_PREV
                                           THEN Len(all) ELSE MAX_ORPHANS_PER_PREV))

-----------------------------------------------------------------------------
(* Initial states *)

Fresh ==
  /\ chain = [n \in Node |-> <<Genesis>>]
  /\ pool = [n \in Node |-> EmptyPool]
  /\ round = [n \in Node |-> 0]
  /\ seen_blocks = [n \in Node |-> << >>]
  /\ orphans = [n \in Node |-> << >>]
  /\ orphans_total = [n \in Node |-> 0]
  /\ sync = [n \in Node |-> NoSync]
  /\ task = [n \in Node |-> NoTask]
  /\ link = [n \in Node |-> [p \in Node |-> << >>]]
  /\ up = [n \in Node |-> [p \in Node |-> 0]]
  /\ down = [n \in Node |-> [p \in Node |-> 0]]
  /\ breaks = 0
  /\ boot = [n \in Node |-> 1]
  /\ issued = [n \in Node |-> {}]
  /\ signed = {}

\* Every process has just been started: no connection is established.
Init ==
  /\ Fresh
  /\ peers = [n \in Node |-> {}]
  /\ conn = {}

\* A later state of the same system: all dialled connections are up and their
\* events handled, the statuses exchanged and nothing submitted yet.
ConnectedInit ==
  /\ Fresh
  /\ peers = [n \in Node |-> {p \in Node : <<n, p>> \in Dial \/ <<p, n>> \in Dial}]
  /\ conn = Dial

-----------------------------------------------------------------------------
(* Transactions *)

\* on_message, LocalTrx: the admin interface or the start-up thread submits t.
LocalTrx(n, t) ==
  /\ Idle(n)
  /\ Origin[t] = n /\ t \notin issued[n]
  /\ issued' = [issued EXCEPT ![n] = @ \cup {t}]
  /\ pool' = [pool EXCEPT ![n] = Push(@, t)]
  /\ link' = IF Accepts(pool[n], t) THEN Gossip(n, TrxMsg(t)) ELSE link
  /\ UNCHANGED <<chain, round, seen_blocks, orphans, orphans_total, peers, sync,
                 task, net, boot, signed>>

\* Node n takes the next message of peer p, one of the given type.
Receives(n, p, type) ==
  /\ Idle(n)
  /\ link[p][n] # << >>
  /\ Head(link[p][n]).type = type

\* The links l without the message that n takes.
Taken(l, n, p) == [l EXCEPT ![p][n] = Tail(@)]

\* on_net, Trx
OnTrx(n, p) ==
  /\ Receives(n, p, "Trx")
  /\ LET t == Head(link[p][n]).trx
     IN  /\ pool' = [pool EXCEPT ![n] = Push(@, t)]
         /\ link' = Taken(IF Accepts(pool[n], t) THEN Gossip(n, TrxMsg(t)) ELSE link, n, p)
  /\ UNCHANGED <<chain, round, seen_blocks, orphans, orphans_total, peers, sync,
                 task, net, boot, issued, signed>>

-----------------------------------------------------------------------------
(* Statuses and block requests *)

\* on_net, GetStatus
OnGetStatus(n, p) ==
  /\ Receives(n, p, "GetStatus")
  /\ link' = Taken(Sent(n, {p}, <<Status(Height(chain[n]))>>), n, p)
  /\ UNCHANGED <<node, peers, sync, task, net, boot, issued, signed>>

\* on_net, Status, with start_sync and request_blocks
OnStatus(n, p) ==
  /\ Receives(n, p, "Status")
  /\ LET own == Height(chain[n])
         ahead == Head(link[p][n]).height > own /\ sync[n] = NoSync
     IN  /\ sync' = IF ahead THEN [sync EXCEPT ![n] = SyncWith(p, own + 1)] ELSE sync
         /\ link' = Taken(IF ahead THEN Sent(n, {p}, <<GetBlocks(own + 1)>>) ELSE link, n, p)
  /\ UNCHANGED <<node, peers, task, net, boot, issued, signed>>

\* on_net, GetBlocks
OnGetBlocks(n, p) ==
  /\ Receives(n, p, "GetBlocks")
  /\ LET page == BlocksFrom(chain[n], Head(link[p][n]).start, SYNC_LIMIT)
     IN  link' = Taken(Sent(n, {p}, <<Blocks(page)>>), n, p)
  /\ UNCHANGED <<node, peers, sync, task, net, boot, issued, signed>>

-----------------------------------------------------------------------------
(* Blocks *)

\* on_net, Block: the handler begins.
OnBlock(n, p) ==
  /\ Receives(n, p, "Block")
  /\ task' = [task EXCEPT ![n] = [NoTask EXCEPT !.rest = <<Head(link[p][n]).block>>]]
  /\ link' = Taken(link, n, p)
  /\ UNCHANGED <<node, peers, sync, net, boot, issued, signed>>

\* on_net, Blocks: the handler begins.
OnBlocks(n, p) ==
  /\ Receives(n, p, "Blocks")
  /\ LET blocks == Head(link[p][n]).blocks
     IN  task' = [task EXCEPT ![n] =
                    [NoTask EXCEPT !.rest = blocks, !.from = p, !.got = Len(blocks)]]
  /\ link' = Taken(link, n, p)
  /\ UNCHANGED <<node, peers, sync, net, boot, issued, signed>>

\* handle_incoming_block distinguishes three cases.  Unseen, b either is the next
\* block on the tip, or ...
Unseen(n, b) == Hash(b) \notin SeenHashes(seen_blocks[n])

OnTip(n, b) ==
  b.index = Height(chain[n]) + 1 /\ b.previous_hash = Hash(Tip(chain[n]))

\* ... lies beyond it: a block of a fork at the next height, or a higher one.
Beyond(n, b) == b.index > Height(chain[n]) /\ ~OnTip(n, b)

\* Mutant: the next block is added by its height alone.
Connects_by_height(n, b) == Unseen(n, b) /\ b.index = Height(chain[n]) + 1

Connects(n, b) == Unseen(n, b) /\ OnTip(n, b) /\ ValidateBlock(Tip(chain[n]), b)

Defers(n, b) == Unseen(n, b) /\ Beyond(n, b)

\* The block was seen before, is old or is invalid.
IgnoreBlock(n) ==
  /\ Handling(n)
  /\ LET b == Head(task[n].rest)
     IN  /\ ~Connects(n, b) /\ ~Defers(n, b)
         /\ seen_blocks' = [seen_blocks EXCEPT ![n] = MarkSeen(@, Hash(b))]
  /\ task' = [task EXCEPT ![n] = Handled(@, FALSE)]
  /\ UNCHANGED <<chain, pool, round, orphans, orphans_total, peers, sync, link, net,
                 boot, issued, signed>>

\* The block is the next one: add it, clean the pool, start round 0, gossip it.
ConnectBlock(n) ==
  /\ Handling(n)
  /\ LET b == Head(task[n].rest)
     IN  /\ Connects(n, b)
         /\ seen_blocks' = [seen_blocks EXCEPT ![n] = MarkSeen(@, Hash(b))]
         /\ chain' = [chain EXCEPT ![n] = Append(@, b)]
         /\ pool' = [pool EXCEPT ![n] = RemoveIncluded(@, b.transactions)]
         /\ link' = Gossip(n, BlockMsg(b))
  /\ round' = [round EXCEPT ![n] = 0]
  /\ task' = [task EXCEPT ![n] = Handled(@, TRUE)]
  /\ UNCHANGED <<orphans, orphans_total, peers, sync, net, boot, issued, signed>>

\* Mutant: the state of the sync is set and nothing is asked for.
StartSync_silent(n, p, start) ==
  sync' = [sync EXCEPT ![n] = SyncWith(p, start)] /\ UNCHANGED link

\* start_sync: unless n already waits for this page of p, ask p for it.
StartSync(n, p, start) ==
  IF sync[n] = SyncWith(p, start)
  THEN UNCHANGED <<sync, link>>
  ELSE /\ sync' = [sync EXCEPT ![n] = SyncWith(p, start)]
       /\ link' = Sent(n, {p}, <<GetBlocks(start)>>)

\* The block lies beyond: keep it as an orphan and ask any peer for what is
\* missing.  Which key of the HashMap comes first is left open.
DeferBlock(n) ==
  /\ Handling(n)
  /\ LET b == Head(task[n].rest)
     IN  /\ Defers(n, b)
         /\ seen_blocks' = [seen_blocks EXCEPT ![n] = MarkSeen(@, Hash(b))]
         /\ PutOrphan(n, b)
  /\ \/ peers[n] = {} /\ UNCHANGED <<sync, link>>
     \/ \E p \in peers[n] : StartSync(n, p, Height(chain[n]) + 1)
  /\ task' = [task EXCEPT ![n] = Handled(@, FALSE)]
  /\ UNCHANGED <<chain, pool, round, peers, net, boot, issued, signed>>

\* One turn of try_connect_orphans that connects an orphan.  The pool is not
\* cleaned here, unlike in ConnectBlock.
ConnectOrphan(n) ==
  /\ Connecting(n)
  /\ LET prev == Tip(chain[n])
         bucket == Bucket(orphans[n], Hash(prev))
     IN  \E i \in DOMAIN bucket :
           /\ FirstValid(prev, bucket, i)
           /\ chain' = [chain EXCEPT ![n] = Append(@, bucket[i])]
           /\ link' = Gossip(n, BlockMsg(bucket[i]))
           /\ orphans' = [orphans EXCEPT ![n] =
                PutBack(WithoutBucket(@, Hash(prev)), Hash(bucket[i]), SwapRemove(bucket, i))]
  /\ round' = [round EXCEPT ![n] = 0]
  /\ orphans_total' = [orphans_total EXCEPT ![n] = IF @ = 0 THEN 0 ELSE @ - 1]
  /\ UNCHANGED <<pool, seen_blocks, peers, sync, task, net, boot, issued, signed>>

\* The last turn of try_connect_orphans: no orphan is valid on the tip.
EndOrphans(n) ==
  /\ Connecting(n)
  /\ LET prev == Tip(chain[n])
         bucket == Bucket(orphans[n], Hash(prev))
     IN  \A i \in DOMAIN bucket : ~ValidateBlock(prev, bucket[i])
  /\ task' = [task EXCEPT ![n].progressed = FALSE]
  /\ UNCHANGED <<node, peers, sync, link, net, boot, issued, signed>>

\* Mutant: a short page is followed by another request, too.
FullPage_or_less(got) == got <= SYNC_LIMIT

FullPage(got) == got = SYNC_LIMIT

\* The end of the Blocks handler: ask for the next page after a full one, end
\* the sync after a short one; a page of another peer than sync_peer is not counted.
Paginate(n) ==
  /\ Paging(n)
  /\ LET from == task[n].from
         next == Height(chain[n]) + 1
         more == FullPage(task[n].got)
     IN  IF sync[n].peer # from
         THEN UNCHANGED <<sync, link>>
         ELSE /\ sync' = [sync EXCEPT ![n] = IF more THEN SyncWith(from, next) ELSE NoSync]
              /\ link' = IF more THEN Sent(n, {from}, <<GetBlocks(next)>>) ELSE link
  /\ task' = [task EXCEPT ![n] = NoTask]
  /\ UNCHANGED <<node, peers, net, boot, issued, signed>>

-----------------------------------------------------------------------------
(* Ticks *)

\* on_tick up to the proposer check: no sync is in progress and n, in round r, is the
\* expected proposer of the next height with something to propose.
Proposes(n, r) ==
  /\ IsExpectedProposer(n, Height(chain[n]) + 1, r)
  /\ pool[n].queue # << >>

\* Mutant: the candidate is marked and broadcast, but not added to the own chain.
AddOwnBlock_not_added(n, b) ==
  /\ UNCHANGED chain
  /\ seen_blocks' = [seen_blocks EXCEPT ![n] = MarkSeen(@, Hash(b))]

\* on_tick, the candidate is added and marked as seen.
AddOwnBlock(n, b) ==
  /\ chain' = [chain EXCEPT ![n] = Append(@, b)]
  /\ seen_blocks' = [seen_blocks EXCEPT ![n] = MarkSeen(@, Hash(b))]

\* on_tick, when the slot is over (r is the current round) or the round has timed
\* out (r is the next one) and n is to propose.  The timestamp of the block tells
\* only the starts of the process apart: time goes on between a node's starts.
TickPropose(n, r) ==
  /\ Idle(n) /\ sync[n] = NoSync
  /\ r \in {round[n], round[n] + 1} /\ r <= MaxRound
  /\ Height(chain[n]) < MaxHeight
  /\ Proposes(n, r)
  /\ pool' = [pool EXCEPT ![n] = PopMany(@, MAX_TRX_PER_BLOCK)]
  /\ LET prev == Tip(chain[n])
         b == BuildBlock(n, prev, FirstMany(pool[n], MAX_TRX_PER_BLOCK), r, boot[n])
     IN  /\ signed' = signed \cup {b}
         /\ IF ValidateBlock(prev, b)
            THEN /\ AddOwnBlock(n, b)
                 /\ round' = [round EXCEPT ![n] = 0]
                 /\ link' = Gossip(n, BlockMsg(b))
            ELSE /\ round' = [round EXCEPT ![n] = r]
                 /\ UNCHANGED <<chain, seen_blocks, link>>
  /\ UNCHANGED <<orphans, orphans_total, peers, sync, task, net, boot, issued>>

\* on_tick, when the round has timed out and n has no part in the next one.
TickRound(n) ==
  /\ Idle(n) /\ sync[n] = NoSync
  /\ round[n] < MaxRound
  /\ ~Proposes(n, round[n] + 1)
  /\ round' = [round EXCEPT ![n] = @ + 1]
  /\ UNCHANGED <<chain, pool, seen_blocks, orphans, orphans_total, peers, sync, task,
                 link, net, boot, issued, signed>>

-----------------------------------------------------------------------------
(* Connections *)

\* s without its element at i.
WithoutElement(s, i) == [j \in 1 .. Len(s) - 1 |-> IF j < i THEN s[j] ELSE s[j + 1]]

Joined(n, p) == <<n, p>> \in conn \/ <<p, n>> \in conn

\* d[1] reaches the listener of d[2]; the event at each end is in its channel.
Connect(d) ==
  /\ d \in Dial \ conn
  /\ conn' = conn \cup {d}
  /\ up' = [up EXCEPT ![d[1]][d[2]] = @ + 1, ![d[2]][d[1]] = @ + 1]
  /\ UNCHANGED <<node, peers, sync, task, link, down, breaks, boot, issued, signed>>

\* The connection d fails.  Each end reports it once, except that the accepting end
\* reports it a second time if its writer fails as well as its reader.
Break(d) ==
  /\ d \in conn /\ breaks < MaxBreaks
  /\ conn' = conn \ {d}
  /\ breaks' = breaks + 1
  /\ \E reports \in 1 .. 2 :
       down' = [down EXCEPT ![d[1]][d[2]] = @ + 1, ![d[2]][d[1]] = @ + reports]
  /\ UNCHANGED <<node, peers, sync, task, link, up, boot, issued, signed>>

\* A message n sent to p is lost: there is no connection, or n may still hold the
\* sender of an earlier one.  It need not be the last: what a dialler had written
\* is gone with the connection, what waits in rx_out goes over the next one.
Lose(n, p) ==
  /\ ~Joined(n, p) \/ up[n][p] + down[n][p] > 0
  /\ \E i \in DOMAIN link[n][p] : link' = [link EXCEPT ![n][p] = WithoutElement(@, i)]
  /\ UNCHANGED <<node, peers, sync, task, net, boot, issued, signed>>

\* add_peer: n has a sender for p from now on and exchanges statuses with it.
AddPeer(n, p) ==
  /\ Idle(n)
  /\ up[n][p] > 0
  /\ up' = [up EXCEPT ![n][p] = @ - 1]
  /\ peers' = [peers EXCEPT ![n] = @ \cup {p}]
  /\ link' = [link EXCEPT ![n][p] = @ \o <<GetStatus, Status(Height(chain[n]))>>]
  /\ UNCHANGED <<node, sync, task, conn, down, breaks, boot, issued, signed>>

\* remove_peer
RemovePeer(n, p) ==
  /\ Idle(n)
  /\ down[n][p] > 0
  /\ down' = [down EXCEPT ![n][p] = @ - 1]
  /\ peers' = [peers EXCEPT ![n] = @ \ {p}]
  /\ sync' = IF p \in peers[n] /\ sync[n].peer = p THEN [sync EXCEPT ![n] = NoSync] ELSE sync
  /\ UNCHANGED <<node, task, link, conn, up, breaks, boot, issued, signed>>

\* The connections between n and p: none, one, or one dialled from either end.
Ends(n, p) ==
  (IF <<n, p>> \in conn THEN 1 ELSE 0) + (IF <<p, n>> \in conn THEN 1 ELSE 0)

\* What p still has for n when the process of n dies.  A dialler's rx_out outlives the
\* connection and is written to the next one, but for the message whose write fails;
\* what of it was already written, Lose takes away.  That n may take the rest before
\* Connect makes no difference: no handler looks at conn or up.
Unwritten(p, n) ==
  IF <<p, n>> \notin Dial THEN << >>
  ELSE IF <<p, n>> \in conn /\ link[p][n] # << >> THEN Tail(link[p][n])
  ELSE link[p][n]

\* The process of n dies and is started again.  Nothing is kept on disk: Node::new
\* with the genesis block.  The other ends see their connections fail.
Restart(n) ==
  /\ boot[n] < MaxBoots[n]
  /\ boot' = [boot EXCEPT ![n] = @ + 1]
  /\ chain' = [chain EXCEPT ![n] = <<Genesis>>]
  /\ pool' = [pool EXCEPT ![n] = EmptyPool]
  /\ round' = [round EXCEPT ![n] = 0]
  /\ seen_blocks' = [seen_blocks EXCEPT ![n] = << >>]
  /\ orphans' = [orphans EXCEPT ![n] = << >>]
  /\ orphans_total' = [orphans_total EXCEPT ![n] = 0]
  /\ peers' = [peers EXCEPT ![n] = {}]
  /\ sync' = [sync EXCEPT ![n] = NoSync]
  /\ task' = [task EXCEPT ![n] = NoTask]
  /\ issued' = [issued EXCEPT ![n] = {}]
  /\ link' = [p \in Node |-> [link[p] EXCEPT ![n] = Unwritten(p, n)]]
  /\ conn' = {d \in conn : n \notin {d[1], d[2]}}
  /\ up' = [up EXCEPT ![n] = [p \in Node |-> 0]]
  /\ \E twice \in SUBSET {p \in Node : <<n, p>> \in conn} :
       down' = [p \in Node |->
         IF p = n THEN [q \in Node |-> 0]
         ELSE [down[p] EXCEPT ![n] = @ + Ends(n, p) + (IF p \in twice THEN 1 ELSE 0)]]
  /\ UNCHANGED <<breaks, signed>>

-----------------------------------------------------------------------------
(* Type invariant *)

OrphansOK(o) ==
  DOMAIN o \subseteq Hash32 /\ \A h \in DOMAIN o : o[h] \in Seq(Block)

\* Every variable holds values of its type: the types of the fields of Node, of
\* ProtocolMessage on the links, and of the bookkeeping of the model.
TypeOK ==
  /\ chain \in [Node -> Seq(Block) \ {<< >>}]
  /\ pool \in [Node -> MemPools(Trx)]
  /\ round \in [Node -> Nat]
  /\ peers \in [Node -> SUBSET Node]
  /\ seen_blocks \in [Node -> Seq(Hash32)]
  /\ DOMAIN orphans = Node
  /\ \A n \in Node : OrphansOK(orphans[n])
  /\ orphans_total \in [Node -> Nat]
  /\ sync \in [Node -> [peer : Node \cup {None}, next : Nat]]
  /\ task \in [Node -> Task]
  /\ link \in [Node -> [Node -> Seq(Message)]]
  /\ conn \subseteq Dial
  /\ up \in [Node -> [Node -> Nat]] /\ down \in [Node -> [Node -> Nat]]
  /\ breaks \in Nat
  /\ boot \in [Node -> Nat]
  /\ issued \in [Node -> SUBSET Trx]
  /\ signed \subseteq Block

-----------------------------------------------------------------------------
(* Safety *)

\* What every node holds is a chain: genesis, then blocks each valid on the one
\* before it under the rules of PoAConsensus::validate_block, whichever of the three
\* ways of adding a block (own, received, orphan) put it there.
ChainValid ==
  \A n \in Node :
    /\ chain[n] # << >> /\ chain[n][1] = Genesis
    /\ \A i \in 2 .. Len(chain[n]) : ValidateBlock(chain[n][i - 1], chain[n][i])

\* Between two starts of its process a validator signs at most one block for a
\* height, however rounds time out and blocks of others arrive in between.
NoEquivocation ==
  \A b, c \in signed :
    b.proposer_id = c.proposer_id /\ b.index = c.index /\ b.timestamp = c.timestamp => b = c

\* Two nodes hold different blocks at one height only if the blocks come from
\* different rounds or their proposer was started again in between: nothing else
\* makes the network fork, and a fork is never resolved.
ForkNeedsRoundDrift ==
  \A n, m \in Node : \A i \in DOMAIN chain[n] \cap DOMAIN chain[m] :
    LET b == chain[n][i]  c == chain[m][i]
    IN  b.round = c.round /\ b.timestamp = c.timestamp => b = c

\* A transaction that a node accepted and remembers waits in its queue or is on its
\* chain: popping, proposing and cleaning the pool after a block lose none.
NoLostTransaction ==
  \A n \in Node : \A t \in pool[n].seen :
    t \in {pool[n].queue[i] : i \in DOMAIN pool[n].queue} \/ t \in Confirmed(chain[n])

\* Between two events no block that a node has seen could still be added to its
\* chain: since mark_seen_block makes every later copy of it ignored, it would be
\* out of the node's reach.  Holds while put_orphan's limits are not reached.
NoStrandedSuccessor ==
  \A n \in Node : Idle(n) =>
    \A b \in signed : ~Unseen(n, b) => ~ValidateBlock(Tip(chain[n]), b)

\* The places of the orphans in o: a hash and a position in its list.
Places(o) == UNION {{h} \X DOMAIN o[h] : h \in DOMAIN o}

\* put_orphan's counter bounds what is really kept: the orphans in all the buckets
\* are never more than orphans_total, nor than MAX_ORPHANS_TOTAL.
OrphanAccounting ==
  \A n \in Node :
    /\ Cardinality(Places(orphans[n])) <= orphans_total[n]
    /\ orphans_total[n] <= MAX_ORPHANS_TOTAL

\* A block is at most once among the orphans of a node, and never both there and on
\* its chain.
OrphansDistinct ==
  \A n \in Node : \A g, h \in DOMAIN orphans[n] :
    \A i \in DOMAIN orphans[n][g], j \in DOMAIN orphans[n][h] :
      /\ orphans[n][g][i] = orphans[n][h][j] => g = h /\ i = j
      /\ \A k \in DOMAIN chain[n] : chain[n][k] # orphans[n][h][j]

\* A node that is syncing has a request or its answer under way, or will hear that
\* the peer is gone: is_syncing, which stops on_tick, is not set for nothing.
SyncInProgress ==
  \A n \in Node : \A p \in {sync[n].peer} \ {None} :
    \/ \E i \in DOMAIN link[n][p] : link[n][p][i].type = "GetBlocks"
    \/ \E i \in DOMAIN link[p][n] : link[p][n][i].type = "Blocks"
    \/ task[n].from = p
    \/ down[n][p] > 0

\* While no round ever times out and no process is started again, the chains of any
\* two nodes are prefixes of each other.
Agreement ==
  \A n, m \in Node : \A i \in DOMAIN chain[n] \cap DOMAIN chain[m] :
    chain[n][i] = chain[m][i]

\* No transaction is in two blocks of a chain: node.rs:347 cleans the pool after a
\* block so that transactions do not multiply.
ConfirmedOnce ==
  \A n \in Node : \A i, j \in DOMAIN chain[n] : \A t \in Trx :
    t \in Confirmed(<<chain[n][i]>>) \cap Confirmed(<<chain[n][j]>>) => i = j

\* The network implements the Ledger: whatever the handlers, ticks, orphans, syncs
\* and failures do, each step adds one signed valid block to one chain, or is the
\* start of a process, or leaves the chains alone.
Promise == INSTANCE Ledger WITH Valid <- ValidateBlock, start <- boot

LedgerSpec == Promise!Spec

-----------------------------------------------------------------------------
(* Liveness, for FairSpec and FairColdSpec *)

\* Every submitted transaction reaches the chain of every node.
EveryTrxConfirmed ==
  \A t \in Trx : t \in issued[Origin[t]] ~> \A n \in Node : t \in Confirmed(chain[n])

\* A sync comes to an end: on_tick, which proposes nothing while is_syncing is set,
\* only waits for it (node.rs:384, "a sync is in progress").
SyncEnds == \A n \in Node : sync[n] # NoSync ~> sync[n] = NoSync

\* Whatever a node adds to its chain, the others catch up with it.
EveryoneCatchesUp ==
  \A h \in 1 .. MaxHeight :
    (\E n \in Node : Height(chain[n]) >= h) ~> (\A n \in Node : Height(chain[n]) >= h)

-----------------------------------------------------------------------------
(* Specifications *)

\* What the handlers do with what is in the channel of n.
Receive(n, p) ==
  \/ OnTrx(n, p) \/ OnGetStatus(n, p) \/ OnStatus(n, p) \/ OnGetBlocks(n, p)
  \/ OnBlock(n, p) \/ OnBlocks(n, p) \/ AddPeer(n, p) \/ RemovePeer(n, p)

\* The handler in progress at n goes on.
Continue(n) ==
  \/ IgnoreBlock(n) \/ ConnectBlock(n) \/ DeferBlock(n)
  \/ ConnectOrphan(n) \/ EndOrphans(n) \/ Paginate(n)

Propose(n) == \E r \in 0 .. MaxRound : TickPropose(n, r)

\* A step of the program at node n
NodeStep(n) ==
  \/ \E t \in Trx : LocalTrx(n, t)
  \/ \E p \in Node : Receive(n, p)
  \/ Continue(n)
  \/ Propose(n)
  \/ TickRound(n)

\* A step of the environment
EnvStep ==
  \/ \E d \in Dial : Connect(d) \/ Break(d)
  \/ \E n, p \in Node : Lose(n, p)
  \/ \E n \in Node : Restart(n)

Next == EnvStep \/ \E n \in Node : NodeStep(n)

Spec == Init /\ [][Next]_vars

ConnectedSpec == ConnectedInit /\ [][Next]_vars

\* Fairness of the program: run_loop never stops taking events and ending handlers,
\* and ticks come again and again because every silence of 100 ms brings one.
Fairness ==
  /\ \A n \in Node : WF_vars(Continue(n)) /\ WF_vars(Propose(n))
  /\ \A n, p \in Node : WF_vars(Receive(n, p))

FairSpec == ConnectedSpec /\ Fairness

\* From a cold start, connect_peer also dials until it succeeds.
FairColdSpec == Spec /\ Fairness /\ \A d \in Dial : WF_vars(Connect(d))

\* An order that the transport does not keep: a node handles the Status of a peer
\* only when add_peer has given it a sender for this peer.
Introduced == \A n, p \in Node : OnStatus(n, p) => p \in peers[n]

IntroducedSpec == Init /\ [][Next /\ Introduced]_vars

=============================================================================
