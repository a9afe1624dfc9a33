----------------------------- MODULE B4nProofs ------------------------------
(***************************************************************************)
(* Proofs about the network of nodes of B4n.                               *)
(***************************************************************************)
EXTENDS B4n, MempoolProofs

-----------------------------------------------------------------------------
(* Types of the operators that the actions are built from *)

\* The hash of a block, and the genesis block, have their types.
LEMMA HashType ==
  ASSUME NEW b \in Block
  PROVE  Hash(b) \in Hash32
<1>1. HeaderOf(b) \in Header /\ b.previous_hash \in Seq(Header)
  BY DEF Block, Header, HeaderOf, Hash32
<1> QED
  BY <1>1, AppendProperties DEF Hash, Hash32

LEMMA GenesisType == Genesis \in Block
<1>1. << >> \in Seq(Header) /\ << >> \in Seq(Trx)
  BY EmptySeq
<1> QED
  BY <1>1 DEF Genesis, Block, Hash32

\* A non-empty chain has a tip, and the tip a height.
LEMMA TipType ==
  ASSUME NEW B \in SUBSET Block, NEW c \in Seq(B) \ {<< >>}
  PROVE  Tip(c) \in B /\ Height(c) \in Nat /\ Len(c) \in Nat \ {0} /\ Len(c) \in DOMAIN c
<1>1. Len(c) \in Nat \ {0} /\ DOMAIN c = 1 .. Len(c)
  BY LenProperties, EmptySeq
<1>2. Tip(c) \in B
  BY <1>1, ElementOfSeq DEF Tip
<1> QED
  BY <1>1, <1>2 DEF Height, Block

\* The id of a validator is its place in the list of validators.
LEMMA NodeIdType ==
  ASSUME NEW n \in Node, IsValidator(n)
  PROVE  /\ NodeId(n) \in 0 .. Len(Validators) - 1
         /\ ValidatorKey(NodeId(n)) = n
<1>1. PICK i \in 1 .. Len(Validators) : Validators[i] = n
  BY DEF IsValidator
<1>2. Len(Validators) \in Nat
  BY ValidatorsAssumption, LenProperties
<1>3. i - 1 \in 0 .. Len(Validators) - 1 /\ ValidatorKey(i - 1) = n
  BY <1>1, <1>2 DEF ValidatorKey
<1> QED
  BY <1>3 DEF NodeId

\* What a validator builds on a block is a block.
LEMMA BuildType ==
  ASSUME NEW n \in Node, IsValidator(n), NEW prev \in Block, NEW txs \in Seq(Trx),
         NEW r \in Nat, NEW now \in Nat
  PROVE  BuildBlock(n, prev, txs, r, now) \in Block
<1>1. NodeId(n) \in Nat
  BY NodeIdType, ValidatorsAssumption, LenProperties
<1>2. prev.index + 1 \in Nat /\ Hash(prev) \in Hash32
  BY HashType DEF Block
<1> QED
  BY <1>1, <1>2 DEF BuildBlock, Block

LEMMA MarkSeenType ==
  ASSUME NEW s \in Seq(Hash32), NEW h \in Hash32
  PROVE  MarkSeen(s, h) \in Seq(Hash32)
<1>1. Append(s, h) \in Seq(Hash32) /\ Append(s, h) # << >>
  BY AppendProperties
<1>2. Tail(Append(s, h)) \in Seq(Hash32)
  BY <1>1, HeadTailProperties
<1> QED
  BY <1>1, <1>2 DEF MarkSeen

\* The state of the network when all the blocks in it are members of B: the types of
\* TypeOK are the case B = Block, and no block but genesis is there unsigned is the
\* case B = signed \cup {Genesis}.  Every fact below serves both.
MessageOver(B) ==
  [type : {"GetStatus"}] \cup [type : {"Status"}, height : Nat]
    \cup [type : {"GetBlocks"}, start : Nat] \cup [type : {"Blocks"}, blocks : Seq(B)]
    \cup [type : {"Trx"}, trx : Trx] \cup [type : {"Block"}, block : B]

TaskOver(B) == [rest : Seq(B), progressed : BOOLEAN, from : Node \cup {None}, got : Nat]

OrphansOver(B, o) ==
  DOMAIN o \subseteq Hash32 /\ \A h \in DOMAIN o : o[h] \in Seq(B)

Links(B) == [Node -> [Node -> Seq(MessageOver(B))]]

Syncs == [peer : Node \cup {None}, next : Nat]

Counters == [Node -> [Node -> Nat]]

Typed(B) ==
  /\ chain \in [Node -> Seq(B) \ {<< >>}]
  /\ pool \in [Node -> MemPools(Trx)]
  /\ round \in [Node -> Nat]
  /\ peers \in [Node -> SUBSET Node]
  /\ seen_blocks \in [Node -> Seq(Hash32)]
  /\ DOMAIN orphans = Node
  /\ \A n \in Node : OrphansOver(B, orphans[n])
  /\ orphans_total \in [Node -> Nat]
  /\ sync \in [Node -> Syncs]
  /\ task \in [Node -> TaskOver(B)]
  /\ link \in Links(B)
  /\ conn \subseteq Dial
  /\ up \in Counters /\ down \in Counters
  /\ breaks \in Nat
  /\ boot \in [Node -> Nat]
  /\ issued \in [Node -> SUBSET Trx]
  /\ signed \subseteq B

\* The links stay typed when a node sends messages and when it takes one.
LEMMA SentType ==
  ASSUME NEW B \in SUBSET Block, link \in Links(B), NEW n \in Node, NEW ps,
         NEW ms \in Seq(MessageOver(B))
  PROVE  Sent(n, ps, ms) \in Links(B)
<1>1. \A p \in Node : link[n][p] \o ms \in Seq(MessageOver(B))
  BY ConcatProperties DEF Links
<1>2. [p \in Node |-> IF p \in ps \cap peers[n] THEN link[n][p] \o ms ELSE link[n][p]]
        \in [Node -> Seq(MessageOver(B))]
  BY <1>1 DEF Links
<1> HIDE DEF MessageOver
<1> QED
  BY <1>2, Zenon DEF Sent, Links

LEMMA TakenType ==
  ASSUME NEW B \in SUBSET Block, NEW l \in Links(B), NEW n \in Node, NEW p \in Node,
         l[p][n] # << >>
  PROVE  Taken(l, n, p) \in Links(B)
<1>1. Tail(l[p][n]) \in Seq(MessageOver(B))
  BY HeadTailProperties DEF Links
<1> QED
  BY <1>1 DEF Taken, Links

\* What a node sends is non-empty where it was, so taking a message commutes with it.
LEMMA SentKeeps ==
  ASSUME NEW B \in SUBSET Block, link \in Links(B), NEW n \in Node, NEW q \in Node,
         NEW p \in Node, NEW ps,
         NEW ms \in Seq(MessageOver(B)), link[q][p] # << >>
  PROVE  Sent(n, ps, ms)[q][p] # << >>
<1>1. link[q][p] \in Seq(MessageOver(B))
  BY DEF Links
<1>2. link[q][p] \o ms # << >>
  BY <1>1, ConcatProperties, LenProperties, EmptySeq
<1> QED
  BY <1>1, <1>2 DEF Sent, Links

\* The messages that the handlers send are messages, and the fields that they read
\* of one have the types its tag promises.
LEMMA MessageType ==
  ASSUME NEW B
  PROVE  /\ GetStatus \in MessageOver(B)
         /\ \A h \in Nat : Status(h) \in MessageOver(B) /\ GetBlocks(h) \in MessageOver(B)
         /\ \A bs \in Seq(B) : Blocks(bs) \in MessageOver(B)
         /\ \A t \in Trx : TrxMsg(t) \in MessageOver(B)
         /\ \A b \in B : BlockMsg(b) \in MessageOver(B)
BY DEF MessageOver, GetStatus, Status, GetBlocks, Blocks, TrxMsg, BlockMsg

LEMMA MessageFields ==
  ASSUME NEW B \in SUBSET Block, NEW m \in MessageOver(B)
  PROVE  /\ m.type = "Status" => m.height \in Nat
         /\ m.type = "GetBlocks" => m.start \in Nat
         /\ m.type = "Blocks" => m.blocks \in Seq(B)
         /\ m.type = "Trx" => m.trx \in Trx
         /\ m.type = "Block" => m.block \in B
BY DEF MessageOver

\* A short sequence of elements of S is a sequence over S.
LEMMA TuplesType ==
  ASSUME NEW S, NEW a \in S, NEW b \in S
  PROVE  <<a>> \in Seq(S) /\ <<a, b>> \in Seq(S)
OBVIOUS

\* The blocks a GetBlocks request selects.
LEMMA BlocksFromType ==
  ASSUME NEW B \in SUBSET Block, NEW c \in Seq(B) \ {<< >>}, NEW start \in Nat,
         NEW limit \in Nat
  PROVE  /\ BlocksFrom(c, start, limit) \in Seq(B)
         /\ \A i \in DOMAIN BlocksFrom(c, start, limit) :
              \E k \in DOMAIN c : BlocksFrom(c, start, limit)[i] = c[k]
<1> DEFINE m == IF start + limit < Len(c) THEN start + limit ELSE Len(c)
<1>1. m \in Nat /\ m <= Len(c) /\ DOMAIN c = 1 .. Len(c) /\ Len(c) \in Nat
  BY LenProperties
<1>2. \A i \in start + 1 .. m : c[i] \in B
  BY <1>1, ElementOfSeq
<1>3. BlocksFrom(c, start, limit) = SubSeq(c, start + 1, m)
  BY DEF BlocksFrom
<1> HIDE DEF m
<1>4. SubSeq(c, start + 1, m) \in Seq(B)
  BY <1>1, <1>2, SubSeqProperties
<1>5. \A i \in DOMAIN SubSeq(c, start + 1, m) :
        start + i \in DOMAIN c /\ SubSeq(c, start + 1, m)[i] = c[start + i]
  BY <1>1, <1>2, SubSeqProperties
<1> QED
  BY <1>3, <1>4, <1>5

-----------------------------------------------------------------------------
(* Types of the orphans *)

LEMMA BucketType ==
  ASSUME NEW B \in SUBSET Block, NEW o, OrphansOver(B, o), NEW h
  PROVE  Bucket(o, h) \in Seq(B)
BY EmptySeq DEF Bucket, OrphansOver

LEMMA WithBucketType ==
  ASSUME NEW B \in SUBSET Block, NEW o, OrphansOver(B, o), NEW h \in Hash32,
         NEW bs \in Seq(B)
  PROVE  OrphansOver(B, WithBucket(o, h, bs))
BY DEF WithBucket, OrphansOver

LEMMA WithoutBucketType ==
  ASSUME NEW B \in SUBSET Block, NEW o, OrphansOver(B, o), NEW h
  PROVE  OrphansOver(B, WithoutBucket(o, h))
BY DEF WithoutBucket, OrphansOver

LEMMA SwapRemoveType ==
  ASSUME NEW B \in SUBSET Block, NEW bs \in Seq(B), NEW i \in DOMAIN bs
  PROVE  SwapRemove(bs, i) \in Seq(B)
<1>1. Len(bs) \in Nat \ {0} /\ DOMAIN bs = 1 .. Len(bs)
  BY LenProperties
<1>2. \A j \in 1 .. Len(bs) : bs[j] \in B
  BY ElementOfSeq
<1>3. SwapRemove(bs, i) \in [1 .. Len(bs) - 1 -> B]
  BY <1>1, <1>2 DEF SwapRemove
<1> QED
  BY <1>1, <1>3, FunctionIsSeq

LEMMA PutBackType ==
  ASSUME NEW B \in SUBSET Block, NEW o, OrphansOver(B, o), NEW h \in Hash32,
         NEW left \in Seq(B)
  PROVE  OrphansOver(B, PutBack(o, h, left))
<1> DEFINE all == Bucket(o, h) \o left
<1>1. all \in Seq(B)
  BY BucketType, ConcatProperties
<1>2. MAX_ORPHANS_PER_PREV \in Nat
  BY B4nAssumption
<1> HIDE DEF all
<1>3. SubSeq(all, 1, IF Len(all) < MAX_ORPHANS_PER_PREV
                     THEN Len(all) ELSE MAX_ORPHANS_PER_PREV) \in Seq(B)
  <2>1. (IF Len(all) < MAX_ORPHANS_PER_PREV THEN Len(all) ELSE MAX_ORPHANS_PER_PREV)
          = (IF MAX_ORPHANS_PER_PREV < Len(all) THEN MAX_ORPHANS_PER_PREV ELSE Len(all))
    BY <1>1, <1>2, LenProperties
  <2> QED
    BY <1>1, <1>2, <2>1, PrefixType
<1> QED
  BY <1>3, WithBucketType DEF PutBack, all

-----------------------------------------------------------------------------
(* Type correctness, one lemma for each kind of step *)

\* An update of one node's value keeps the type of the whole function.
LEMMA UpdateType ==
  ASSUME NEW S, NEW f \in [Node -> S], NEW n \in Node, NEW v \in S
  PROVE  [f EXCEPT ![n] = v] \in [Node -> S]
OBVIOUS

\* What a node starts with.
GenesisChain == <<Genesis>>

LEMMA FreshTypes ==
  ASSUME NEW B, Genesis \in B
  PROVE  /\ GenesisChain \in Seq(B) \ {<< >>}
         /\ EmptyPool \in MemPools(Trx)
         /\ NoSync \in Syncs
         /\ NoTask \in TaskOver(B)
         /\ OrphansOver(B, << >>)
<1>1. GenesisChain \in Seq(B) \ {<< >>}
  BY TuplesType DEF GenesisChain
<1>2. EmptyPool \in MemPools(Trx)
  BY EmptySeq DEF EmptyPool, MemPools
<1>3. NoSync \in Syncs
  BY DEF NoSync, Syncs
<1>4. NoTask \in TaskOver(B)
  BY EmptySeq DEF NoTask, TaskOver
<1>5. OrphansOver(B, << >>)
  BY DEF OrphansOver
<1> QED
  BY <1>1, <1>2, <1>3, <1>4, <1>5

\* The message a node is about to take.
LEMMA HeadType ==
  ASSUME NEW B \in SUBSET Block, Typed(B), NEW n \in Node, NEW p \in Node, link[p][n] # << >>
  PROVE  Head(link[p][n]) \in MessageOver(B)
<1>1. link[p][n] \in Seq(MessageOver(B))
  BY DEF Typed, Links
<1> QED
  BY <1>1, HeadTailProperties

LEMMA LocalTrxType ==
  ASSUME NEW B \in SUBSET Block, Typed(B), NEW n \in Node, NEW t \in Trx, LocalTrx(n, t)
  PROVE  Typed(B)'
<1>1. pool' \in [Node -> MemPools(Trx)]
  BY PushType DEF Typed, LocalTrx
<1>2. link' \in Links(B)
  <2>1. link \in Links(B) /\ <<TrxMsg(t)>> \in Seq(MessageOver(B))
    BY MessageType, TuplesType DEF Typed, Links
  <2> QED
    BY <2>1, SentType DEF LocalTrx, Gossip
<1>3. issued' \in [Node -> SUBSET Trx]
  BY DEF Typed, LocalTrx
<1> QED
  BY <1>1, <1>2, <1>3 DEF Typed, LocalTrx, net, Links

LEMMA OnTrxType ==
  ASSUME NEW B \in SUBSET Block, Typed(B), NEW n \in Node, NEW p \in Node, OnTrx(n, p)
  PROVE  Typed(B)'
<1> DEFINE t == Head(link[p][n]).trx
<1>1. t \in Trx
  BY HeadType, MessageFields DEF OnTrx, Receives
<1>2. link \in Links(B) /\ link[p][n] # << >> /\ <<TrxMsg(t)>> \in Seq(MessageOver(B))
  BY <1>1, MessageType, TuplesType DEF Typed, Links, OnTrx, Receives
<1>3. pool' \in [Node -> MemPools(Trx)]
  BY <1>1, PushType DEF Typed, OnTrx
<1>4. link' \in Links(B)
  <2> DEFINE l == IF Accepts(pool[n], t) THEN Gossip(n, TrxMsg(t)) ELSE link
  <2>1. l \in Links(B) /\ l[p][n] # << >>
    BY <1>2, SentType, SentKeeps DEF Gossip
  <2>2. link' = Taken(l, n, p)
    BY DEF OnTrx
  <2> QED
    BY <2>1, <2>2, TakenType
<1> QED
  BY <1>3, <1>4 DEF Typed, OnTrx, net, Links

LEMMA OnGetStatusType ==
  ASSUME NEW B \in SUBSET Block, Typed(B), NEW n \in Node, NEW p \in Node, OnGetStatus(n, p)
  PROVE  Typed(B)'
<1> DEFINE ms == <<Status(Height(chain[n]))>>
<1>1. ms \in Seq(MessageOver(B))
  BY TipType, MessageType, TuplesType DEF Typed
<1>2. link \in Links(B) /\ link[p][n] # << >>
  BY DEF Typed, Links, OnGetStatus, Receives
<1>3. Sent(n, {p}, ms) \in Links(B) /\ Sent(n, {p}, ms)[p][n] # << >>
  BY <1>1, <1>2, SentType, SentKeeps
<1>4. link' \in Links(B)
  BY <1>3, TakenType DEF OnGetStatus
<1> QED
  BY <1>4 DEF Typed, OnGetStatus, node, net, Links

LEMMA OnStatusType ==
  ASSUME NEW B \in SUBSET Block, Typed(B), NEW n \in Node, NEW p \in Node, OnStatus(n, p)
  PROVE  Typed(B)'
<1> DEFINE own == Height(chain[n])
           ahead == Head(link[p][n]).height > own /\ sync[n] = NoSync
           l == IF ahead THEN Sent(n, {p}, <<GetBlocks(own + 1)>>) ELSE link
<1>1. own \in Nat
  BY TipType DEF Typed
<1> HIDE DEF own
<1>2. <<GetBlocks(own + 1)>> \in Seq(MessageOver(B))
  BY <1>1, MessageType, TuplesType
<1>3. link \in Links(B) /\ link[p][n] # << >>
  BY DEF Typed, Links, OnStatus, Receives
<1>4. l \in Links(B) /\ l[p][n] # << >>
  BY <1>2, <1>3, SentType, SentKeeps
<1>5. /\ link' = Taken(l, n, p)
      /\ sync' = IF ahead THEN [sync EXCEPT ![n] = SyncWith(p, own + 1)] ELSE sync
  BY DEF OnStatus, own
<1>6. sync' \in [Node -> Syncs]
  <2>1. SyncWith(p, own + 1) \in Syncs
    BY <1>1 DEF SyncWith, Syncs
  <2>2. sync \in [Node -> Syncs]
    BY DEF Typed, Syncs
  <2> QED
    BY <1>5, <2>1, <2>2, UpdateType
<1>7. link' \in Links(B)
  BY <1>4, <1>5, TakenType
<1> QED
  BY <1>6, <1>7 DEF Typed, OnStatus, node, net, Links, Syncs

LEMMA OnGetBlocksType ==
  ASSUME NEW B \in SUBSET Block, Typed(B), NEW n \in Node, NEW p \in Node, OnGetBlocks(n, p)
  PROVE  Typed(B)'
<1> DEFINE page == BlocksFrom(chain[n], Head(link[p][n]).start, SYNC_LIMIT)
<1>1. page \in Seq(B)
  BY HeadType, MessageFields, BlocksFromType, B4nAssumption DEF Typed, OnGetBlocks, Receives
<1>2. <<Blocks(page)>> \in Seq(MessageOver(B))
  BY <1>1, MessageType, TuplesType
<1>3. link \in Links(B) /\ link[p][n] # << >>
  BY DEF Typed, Links, OnGetBlocks, Receives
<1>4. /\ Sent(n, {p}, <<Blocks(page)>>) \in Links(B)
      /\ Sent(n, {p}, <<Blocks(page)>>)[p][n] # << >>
  BY <1>2, <1>3, SentType, SentKeeps
<1>5. link' = Taken(Sent(n, {p}, <<Blocks(page)>>), n, p)
  BY DEF OnGetBlocks
<1>6. link' \in Links(B)
  <2> HIDE DEF page
  <2> QED
    BY <1>4, <1>5, TakenType
<1> QED
  BY <1>6 DEF Typed, OnGetBlocks, node, net, Links

\* The handler of a Block or Blocks message begins.
LEMMA BeginType ==
  ASSUME NEW B \in SUBSET Block, Typed(B), NEW n \in Node, NEW p \in Node,
         OnBlock(n, p) \/ OnBlocks(n, p)
  PROVE  Typed(B)'
<1> DEFINE m == Head(link[p][n])
<1>1. link \in Links(B) /\ link[p][n] # << >> /\ link' = Taken(link, n, p)
  BY DEF Typed, Links, OnBlock, OnBlocks, Receives
<1>2. link' \in Links(B)
  BY <1>1, TakenType
<1>3. m \in MessageOver(B)
  BY <1>1, HeadType
<1>4. task' \in [Node -> TaskOver(B)]
  <2>1. CASE OnBlock(n, p)
    <3>1. <<m.block>> \in Seq(B)
      BY <1>3, <2>1, MessageFields, TuplesType DEF OnBlock, Receives
    <3> QED
      BY <2>1, <3>1 DEF Typed, OnBlock, NoTask, TaskOver
  <2>2. CASE OnBlocks(n, p)
    <3>1. m.blocks \in Seq(B) /\ Len(m.blocks) \in Nat
      BY <1>3, <2>2, MessageFields, LenProperties DEF OnBlocks, Receives
    <3> QED
      BY <2>2, <3>1 DEF Typed, OnBlocks, NoTask, TaskOver
  <2> QED
    BY <2>1, <2>2
<1> QED
  BY <1>2, <1>4 DEF Typed, OnBlock, OnBlocks, node, net, Links

\* The block a handler is at, and what is left of its task after it.
LEMMA HandledType ==
  ASSUME NEW B \in SUBSET Block, Typed(B), NEW n \in Node, Handling(n),
         NEW progress \in BOOLEAN
  PROVE  Head(task[n].rest) \in B /\ Handled(task[n], progress) \in TaskOver(B)
<1>1. task[n] \in TaskOver(B)
  BY DEF Typed
<1>2. task[n].rest \in Seq(B) /\ task[n].rest # << >>
  BY <1>1 DEF TaskOver, Handling
<1>3. Head(task[n].rest) \in B /\ Tail(task[n].rest) \in Seq(B)
  BY <1>2, HeadTailProperties
<1>4. (task[n].progressed \/ progress) \in BOOLEAN
  BY <1>1 DEF TaskOver
<1> QED
  BY <1>1, <1>3, <1>4 DEF Handled, TaskOver

LEMMA IgnoreBlockType ==
  ASSUME NEW B \in SUBSET Block, Typed(B), NEW n \in Node, IgnoreBlock(n)
  PROVE  Typed(B)'
<1> DEFINE b == Head(task[n].rest)
<1>1. b \in B /\ Handled(task[n], FALSE) \in TaskOver(B)
  BY HandledType DEF IgnoreBlock
<1>2. seen_blocks' \in [Node -> Seq(Hash32)]
  BY <1>1, HashType, MarkSeenType DEF Typed, IgnoreBlock
<1>3. task' \in [Node -> TaskOver(B)]
  BY <1>1, UpdateType DEF Typed, IgnoreBlock
<1> QED
  BY <1>2, <1>3 DEF Typed, IgnoreBlock, net

LEMMA ChainGrows ==
  ASSUME NEW B \in SUBSET Block, Typed(B), NEW n \in Node, NEW b \in B,
         chain' = [chain EXCEPT ![n] = Append(@, b)]
  PROVE  chain' \in [Node -> Seq(B) \ {<< >>}]
<1>1. chain[n] \in Seq(B)
  BY DEF Typed
<1>2. Append(chain[n], b) \in Seq(B) \ {<< >>}
  BY <1>1, AppendProperties
<1>3. chain \in [Node -> Seq(B) \ {<< >>}]
  BY DEF Typed
<1> QED
  BY <1>2, <1>3, UpdateType

\* Gossiping a block keeps the type of the links.
LEMMA GossipType ==
  ASSUME NEW B \in SUBSET Block, Typed(B), NEW n \in Node, NEW b \in B
  PROVE  Gossip(n, BlockMsg(b)) \in Links(B)
<1>1. link \in Links(B) /\ <<BlockMsg(b)>> \in Seq(MessageOver(B))
  BY MessageType, TuplesType DEF Typed, Links
<1> QED
  BY <1>1, SentType DEF Gossip

LEMMA ConnectBlockType ==
  ASSUME NEW B \in SUBSET Block, Typed(B), NEW n \in Node, ConnectBlock(n)
  PROVE  Typed(B)'
<1> DEFINE b == Head(task[n].rest)
<1>1. b \in B /\ Handled(task[n], TRUE) \in TaskOver(B)
  BY HandledType DEF ConnectBlock
<1>2. seen_blocks' \in [Node -> Seq(Hash32)]
  BY <1>1, HashType, MarkSeenType DEF Typed, ConnectBlock
<1>3. task' \in [Node -> TaskOver(B)]
  BY <1>1, UpdateType DEF Typed, ConnectBlock
<1>4. chain' \in [Node -> Seq(B) \ {<< >>}]
  BY <1>1, ChainGrows DEF ConnectBlock
<1>5. pool' \in [Node -> MemPools(Trx)]
  BY RemoveIncludedType DEF Typed, ConnectBlock
<1>6. link' \in Links(B)
  BY <1>1, GossipType DEF ConnectBlock
<1>7. round' \in [Node -> Nat]
  BY DEF Typed, ConnectBlock
<1> QED
  BY <1>2, <1>3, <1>4, <1>5, <1>6, <1>7 DEF Typed, ConnectBlock, net, Links

LEMMA StartSyncType ==
  ASSUME NEW B \in SUBSET Block, Typed(B), NEW n \in Node, NEW p \in Node,
         NEW start \in Nat, StartSync(n, p, start)
  PROVE  sync' \in [Node -> Syncs] /\ link' \in Links(B)
<1>1. link \in Links(B) /\ sync \in [Node -> Syncs]
  BY DEF Typed, Links, Syncs
<1>2. SyncWith(p, start) \in Syncs
  BY DEF SyncWith, Syncs
<1>3. Sent(n, {p}, <<GetBlocks(start)>>) \in Links(B)
  BY <1>1, MessageType, TuplesType, SentType
<1> QED
  BY <1>1, <1>2, <1>3, UpdateType DEF StartSync

LEMMA PutOrphanType ==
  ASSUME NEW B \in SUBSET Block, Typed(B), NEW n \in Node, NEW b \in B, PutOrphan(n, b)
  PROVE  /\ DOMAIN orphans' = Node /\ \A m \in Node : OrphansOver(B, orphans'[m])
         /\ orphans_total' \in [Node -> Nat]
<1>1. CASE ~KeepsOrphan(n, b)
  BY <1>1 DEF PutOrphan, Typed
<1>2. CASE KeepsOrphan(n, b)
  <2> DEFINE h == b.previous_hash
             bs == Append(Bucket(orphans[n], h), b)
  <2>1. h \in Hash32
    BY DEF Block
  <2>2. OrphansOver(B, orphans[n]) /\ DOMAIN orphans = Node
    BY DEF Typed
  <2>3. bs \in Seq(B)
    BY <2>2, BucketType, AppendProperties
  <2>4. OrphansOver(B, WithBucket(orphans[n], h, bs))
    BY <2>1, <2>2, <2>3, WithBucketType
  <2>5. /\ orphans' = [orphans EXCEPT ![n] = WithBucket(orphans[n], h, bs)]
        /\ orphans_total' = [orphans_total EXCEPT ![n] = orphans_total[n] + 1]
    BY <1>2 DEF PutOrphan
  <2>6. \A m \in Node : OrphansOver(B, orphans'[m])
    BY <2>2, <2>4, <2>5 DEF Typed
  <2>7. orphans_total' \in [Node -> Nat]
    BY <2>5 DEF Typed
  <2> QED
    BY <2>2, <2>5, <2>6, <2>7
<1> QED
  BY <1>1, <1>2

LEMMA DeferBlockType ==
  ASSUME NEW B \in SUBSET Block, Typed(B), NEW n \in Node, DeferBlock(n)
  PROVE  Typed(B)'
<1> DEFINE b == Head(task[n].rest)
<1>1. b \in B /\ Handled(task[n], FALSE) \in TaskOver(B)
  BY HandledType DEF DeferBlock
<1>2. seen_blocks' \in [Node -> Seq(Hash32)]
  BY <1>1, HashType, MarkSeenType DEF Typed, DeferBlock
<1>3. task' \in [Node -> TaskOver(B)]
  BY <1>1, UpdateType DEF Typed, DeferBlock
<1>4. /\ DOMAIN orphans' = Node /\ \A m \in Node : OrphansOver(B, orphans'[m])
      /\ orphans_total' \in [Node -> Nat]
  BY <1>1, PutOrphanType DEF DeferBlock
<1>5. sync' \in [Node -> Syncs] /\ link' \in Links(B)
  <2>1. CASE UNCHANGED <<sync, link>>
    BY <2>1 DEF Typed, Syncs, Links
  <2>2. CASE \E p \in peers[n] : StartSync(n, p, Height(chain[n]) + 1)
    <3>1. PICK p \in peers[n] : StartSync(n, p, Height(chain[n]) + 1)
      BY <2>2
    <3>2. p \in Node
      BY DEF Typed
    <3>3. Height(chain[n]) \in Nat
      BY TipType DEF Typed
    <3>4. Height(chain[n]) + 1 \in Nat
      BY <3>3
    <3> QED
      BY <3>1, <3>2, <3>4, StartSyncType
  <2> QED
    BY <2>1, <2>2 DEF DeferBlock
<1> QED
  BY <1>2, <1>3, <1>4, <1>5 DEF Typed, DeferBlock, net, Links, Syncs

LEMMA ConnectOrphanType ==
  ASSUME NEW B \in SUBSET Block, Typed(B), NEW n \in Node, ConnectOrphan(n)
  PROVE  Typed(B)'
<1> DEFINE prev == Tip(chain[n])
           bucket == Bucket(orphans[n], Hash(prev))
<1>1. PICK i \in DOMAIN bucket :
        /\ FirstValid(prev, bucket, i)
        /\ chain' = [chain EXCEPT ![n] = Append(@, bucket[i])]
        /\ link' = Gossip(n, BlockMsg(bucket[i]))
        /\ orphans' = [orphans EXCEPT ![n] =
             PutBack(WithoutBucket(@, Hash(prev)), Hash(bucket[i]), SwapRemove(bucket, i))]
  BY DEF ConnectOrphan
<1>2. OrphansOver(B, orphans[n]) /\ DOMAIN orphans = Node
  BY DEF Typed
<1>3. bucket \in Seq(B)
  BY <1>2, BucketType
<1> HIDE DEF bucket, prev
<1>4. bucket[i] \in B
  BY <1>3, ElementOfSeq, LenProperties
<1>5. chain' \in [Node -> Seq(B) \ {<< >>}] /\ link' \in Links(B)
  BY <1>1, <1>4, ChainGrows, GossipType
<1>6. \A m \in Node : OrphansOver(B, orphans'[m])
  <2>1. OrphansOver(B, PutBack(WithoutBucket(orphans[n], Hash(prev)), Hash(bucket[i]),
                          SwapRemove(bucket, i)))
    BY <1>2, <1>3, <1>4, HashType, SwapRemoveType, WithoutBucketType, PutBackType
  <2> QED
    BY <1>1, <1>2, <2>1 DEF Typed
<1>7. DOMAIN orphans' = Node
  BY <1>1, <1>2
<1>8. round' \in [Node -> Nat] /\ orphans_total' \in [Node -> Nat]
  BY DEF Typed, ConnectOrphan
<1> QED
  BY <1>5, <1>6, <1>7, <1>8 DEF Typed, ConnectOrphan, net, Links

LEMMA EndOrphansType ==
  ASSUME NEW B \in SUBSET Block, Typed(B), NEW n \in Node, EndOrphans(n)
  PROVE  Typed(B)'
<1>1. task[n] \in TaskOver(B)
  BY DEF Typed
<1>2. [task[n] EXCEPT !.progressed = FALSE] \in TaskOver(B)
  BY <1>1 DEF TaskOver
<1>3. task' \in [Node -> TaskOver(B)]
  BY <1>2, UpdateType DEF Typed, EndOrphans
<1> QED
  BY <1>3 DEF Typed, EndOrphans, node, net

LEMMA PaginateType ==
  ASSUME NEW B \in SUBSET Block, Typed(B), NEW n \in Node, Paginate(n)
  PROVE  Typed(B)'
<1> DEFINE from == task[n].from
           next == Height(chain[n]) + 1
           more == FullPage(task[n].got)
<1>1. Height(chain[n]) \in Nat
  BY TipType DEF Typed
<1>2. next \in Nat
  BY <1>1
<1>3. from \in Node
  BY DEF Typed, TaskOver, Paginate, Paging
<1>4. NoTask \in TaskOver(B)
  BY EmptySeq DEF NoTask, TaskOver
<1>5. task' \in [Node -> TaskOver(B)]
  BY <1>4, UpdateType DEF Typed, Paginate
<1>6. link \in Links(B) /\ sync \in [Node -> Syncs]
  BY DEF Typed, Links, Syncs
<1>7. \/ UNCHANGED <<sync, link>>
      \/ /\ sync' = [sync EXCEPT ![n] = IF more THEN SyncWith(from, next) ELSE NoSync]
         /\ link' = IF more THEN Sent(n, {from}, <<GetBlocks(next)>>) ELSE link
  BY DEF Paginate
<1> HIDE DEF from, next, more
<1>8. SyncWith(from, next) \in Syncs /\ NoSync \in Syncs
  BY <1>2, <1>3 DEF SyncWith, NoSync, Syncs
<1>9. Sent(n, {from}, <<GetBlocks(next)>>) \in Links(B)
  BY <1>2, <1>6, MessageType, TuplesType, SentType
<1>10. sync' \in [Node -> Syncs] /\ link' \in Links(B)
  BY <1>6, <1>7, <1>8, <1>9, UpdateType
<1> QED
  BY <1>5, <1>10 DEF Typed, Paginate, node, net, Links, Syncs

\* What a tick that proposes builds: a validator's block, of the pool's transactions.
LEMMA CandidateType ==
  ASSUME Typed(Block), NEW n \in Node, NEW r \in Nat, TickPropose(n, r)
  PROVE  /\ IsValidator(n)
         /\ BuildBlock(n, Tip(chain[n]), FirstMany(pool[n], MAX_TRX_PER_BLOCK), r, boot[n])
              \in Block
<1>1. IsValidator(n)
  BY DEF TickPropose, Proposes, IsExpectedProposer
<1>2. Tip(chain[n]) \in Block /\ boot[n] \in Nat
  BY TipType DEF Typed
<1>3. FirstMany(pool[n], MAX_TRX_PER_BLOCK) \in Seq(Trx)
  BY PopType, B4nAssumption DEF Typed
<1> QED
  BY <1>1, <1>2, <1>3, BuildType

LEMMA TickProposeType ==
  ASSUME NEW B \in SUBSET Block, Typed(B), signed' \subseteq B,
         NEW n \in Node, NEW r \in Nat, TickPropose(n, r)
  PROVE  Typed(B)'
<1> DEFINE b == BuildBlock(n, Tip(chain[n]), FirstMany(pool[n], MAX_TRX_PER_BLOCK),
                           r, boot[n])
<1>1. b \in B
  BY DEF TickPropose
<1>2. pool' \in [Node -> MemPools(Trx)]
  BY PopType, B4nAssumption DEF Typed, TickPropose
<1>3. round' \in [Node -> Nat]
  <2>1. \E k \in {0, r} : round' = [round EXCEPT ![n] = k]
    BY DEF TickPropose
  <2> QED
    BY <2>1 DEF Typed
<1>4. \/ AddOwnBlock(n, b) /\ link' = Gossip(n, BlockMsg(b))
      \/ UNCHANGED <<chain, seen_blocks, link>>
  BY DEF TickPropose
<1> HIDE DEF b
<1>5. /\ chain' \in [Node -> Seq(B) \ {<< >>}]
      /\ seen_blocks' \in [Node -> Seq(Hash32)]
      /\ link' \in Links(B)
  <2>1. CASE AddOwnBlock(n, b) /\ link' = Gossip(n, BlockMsg(b))
    <3>1. seen_blocks' \in [Node -> Seq(Hash32)]
      BY <1>1, <2>1, HashType, MarkSeenType DEF Typed, AddOwnBlock
    <3> QED
      BY <1>1, <2>1, <3>1, ChainGrows, GossipType DEF AddOwnBlock
  <2>2. CASE UNCHANGED <<chain, seen_blocks, link>>
    BY <2>2 DEF Typed, Links
  <2> QED
    BY <1>4, <2>1, <2>2
<1> QED
  BY <1>2, <1>3, <1>5 DEF Typed, TickPropose, net, Links

LEMMA TickRoundType ==
  ASSUME NEW B \in SUBSET Block, Typed(B), NEW n \in Node, TickRound(n)
  PROVE  Typed(B)'
<1>1. round' \in [Node -> Nat]
  BY DEF Typed, TickRound
<1> QED
  BY <1>1 DEF Typed, TickRound, net

\* The two ends of a dialled connection.
LEMMA DialType ==
  ASSUME NEW d \in Dial
  PROVE  d[1] \in Node /\ d[2] \in Node
BY B4nAssumption

LEMMA CounterType ==
  ASSUME NEW f \in Counters, NEW n \in Node, NEW p \in Node, NEW k \in Nat
  PROVE  [f EXCEPT ![n][p] = k] \in Counters
BY DEF Counters

\* The counters at both ends of a connection change.
LEMMA CountersType ==
  ASSUME NEW f \in Counters, NEW n \in Node, NEW p \in Node, NEW k \in Nat, NEW j \in Nat
  PROVE  [f EXCEPT ![n][p] = k, ![p][n] = j] \in Counters
<1> DEFINE g == [f EXCEPT ![n][p] = k]
<1>1. g \in Counters
  BY CounterType
<1>2. [g EXCEPT ![p][n] = j] \in Counters
  BY <1>1, CounterType
<1>3. [f EXCEPT ![n][p] = k, ![p][n] = j] = [g EXCEPT ![p][n] = j]
  OBVIOUS
<1> QED
  BY <1>2, <1>3

LEMMA ConnectType ==
  ASSUME NEW B \in SUBSET Block, Typed(B), NEW d \in Dial, Connect(d)
  PROVE  Typed(B)'
<1>1. up \in Counters /\ d[1] \in Node /\ d[2] \in Node
  BY DialType DEF Typed, Counters
<1>2. up[d[1]][d[2]] + 1 \in Nat /\ up[d[2]][d[1]] + 1 \in Nat
  BY <1>1 DEF Counters
<1>3. up' \in Counters
  BY <1>1, <1>2, CountersType DEF Connect
<1>4. conn' \subseteq Dial
  BY DEF Typed, Connect
<1> QED
  BY <1>4, <1>3 DEF Typed, Connect, node, Counters

LEMMA BreakType ==
  ASSUME NEW B \in SUBSET Block, Typed(B), NEW d \in Dial, Break(d)
  PROVE  Typed(B)'
<1>1. down \in Counters /\ d[1] \in Node /\ d[2] \in Node
  BY DialType DEF Typed, Counters
<1>2. PICK reports \in 1 .. 2 :
        down' = [down EXCEPT ![d[1]][d[2]] = @ + 1, ![d[2]][d[1]] = @ + reports]
  BY DEF Break
<1>3. down[d[1]][d[2]] + 1 \in Nat /\ down[d[2]][d[1]] + reports \in Nat
  BY <1>1 DEF Counters
<1>4. down' \in Counters
  BY <1>1, <1>2, <1>3, CountersType
<1>5. conn' \subseteq Dial /\ breaks' \in Nat
  BY DEF Typed, Break
<1> QED
  BY <1>5, <1>4 DEF Typed, Break, node, Counters

\* An update of one link.
LEMMA LinkType ==
  ASSUME NEW B \in SUBSET Block, NEW l \in Links(B), NEW n \in Node, NEW p \in Node,
         NEW ms \in Seq(MessageOver(B))
  PROVE  [l EXCEPT ![n][p] = ms] \in Links(B)
BY DEF Links

LEMMA WithoutElementType ==
  ASSUME NEW S, NEW s \in Seq(S), NEW i \in DOMAIN s
  PROVE  WithoutElement(s, i) \in Seq(S)
<1>1. Len(s) \in Nat \ {0} /\ DOMAIN s = 1 .. Len(s)
  BY LenProperties
<1>2. \A j \in 1 .. Len(s) : s[j] \in S
  BY ElementOfSeq
<1>3. WithoutElement(s, i) \in [1 .. Len(s) - 1 -> S]
  BY <1>1, <1>2 DEF WithoutElement
<1> QED
  BY <1>1, <1>3, FunctionIsSeq

LEMMA LoseType ==
  ASSUME NEW B \in SUBSET Block, Typed(B), NEW n \in Node, NEW p \in Node, Lose(n, p)
  PROVE  Typed(B)'
<1>1. link \in Links(B) /\ link[n][p] \in Seq(MessageOver(B))
  BY DEF Typed, Links
<1>2. PICK i \in DOMAIN link[n][p] :
        link' = [link EXCEPT ![n][p] = WithoutElement(link[n][p], i)]
  BY <1>1 DEF Lose, Links
<1>3. WithoutElement(link[n][p], i) \in Seq(MessageOver(B))
  BY <1>1, <1>2, WithoutElementType
<1>4. link' \in Links(B)
  BY <1>1, <1>2, <1>3, LinkType
<1> QED
  BY <1>4 DEF Typed, Lose, node, net, Links

LEMMA AddPeerType ==
  ASSUME NEW B \in SUBSET Block, Typed(B), NEW n \in Node, NEW p \in Node, AddPeer(n, p)
  PROVE  Typed(B)'
<1>1. link \in Links(B) /\ link[n][p] \in Seq(MessageOver(B))
  BY DEF Typed, Links
<1>2. up \in Counters
  BY DEF Typed, Counters
<1>3. Height(chain[n]) \in Nat
  BY TipType DEF Typed
<1>4. <<GetStatus, Status(Height(chain[n]))>> \in Seq(MessageOver(B))
  BY <1>3, MessageType, TuplesType
<1>5. link[n][p] \o <<GetStatus, Status(Height(chain[n]))>> \in Seq(MessageOver(B))
  BY <1>1, <1>4, ConcatProperties
<1>6. link' \in Links(B)
  BY <1>1, <1>5, LinkType DEF AddPeer
<1>7. up[n][p] - 1 \in Nat
  BY <1>2 DEF AddPeer, Counters
<1>8. up' \in Counters
  BY <1>7, <1>2, CounterType DEF AddPeer
<1>9. peers' \in [Node -> SUBSET Node]
  BY DEF Typed, AddPeer
<1> QED
  BY <1>6, <1>8, <1>9 DEF Typed, AddPeer, node, Links, Counters

LEMMA RemovePeerType ==
  ASSUME NEW B \in SUBSET Block, Typed(B), NEW n \in Node, NEW p \in Node, RemovePeer(n, p)
  PROVE  Typed(B)'
<1>1. down \in Counters
  BY DEF Typed, Counters
<1>2. down[n][p] - 1 \in Nat
  BY <1>1 DEF RemovePeer, Counters
<1>3. down' \in Counters
  BY <1>2, <1>1, CounterType DEF RemovePeer
<1>4. peers' \in [Node -> SUBSET Node]
  BY DEF Typed, RemovePeer
<1>5. sync' \in [Node -> Syncs]
  <2>1. NoSync \in Syncs /\ sync \in [Node -> Syncs]
    BY DEF NoSync, Syncs, Typed
  <2> QED
    BY <2>1, UpdateType DEF RemovePeer
<1> QED
  BY <1>3, <1>4, <1>5 DEF Typed, RemovePeer, node, Counters, Syncs

\* A node is started again: nothing of its state is left.
LEMMA RestartType ==
  ASSUME NEW B \in SUBSET Block, Genesis \in B, Typed(B), NEW n \in Node, Restart(n)
  PROVE  Typed(B)'
<1>1. GenesisChain \in Seq(B) \ {<< >>} /\ EmptyPool \in MemPools(Trx)
        /\ NoSync \in Syncs /\ NoTask \in TaskOver(B)
  BY FreshTypes
<1>2. /\ chain' \in [Node -> Seq(B) \ {<< >>}]
      /\ pool' \in [Node -> MemPools(Trx)]
      /\ sync' \in [Node -> Syncs]
      /\ task' \in [Node -> TaskOver(B)]
  BY <1>1, UpdateType DEF Typed, Syncs, Restart, GenesisChain
<1>3. /\ round' \in [Node -> Nat] /\ orphans_total' \in [Node -> Nat]
      /\ peers' \in [Node -> SUBSET Node] /\ issued' \in [Node -> SUBSET Trx]
  BY DEF Typed, Restart
<1>4. seen_blocks' \in [Node -> Seq(Hash32)]
  BY EmptySeq, UpdateType DEF Typed, Restart
<1>5. DOMAIN orphans' = Node /\ \A m \in Node : OrphansOver(B, orphans'[m])
  <2>1. OrphansOver(B, << >>)
    BY FreshTypes
  <2>2. orphans' = [orphans EXCEPT ![n] = << >>]
    BY DEF Restart
  <2> QED
    BY <2>1, <2>2 DEF Typed
<1>6. link' \in Links(B)
  <2>1. ASSUME NEW p \in Node
        PROVE  [link[p] EXCEPT ![n] = Unwritten(p, n)] \in [Node -> Seq(MessageOver(B))]
    <3>1. link[p] \in [Node -> Seq(MessageOver(B))] /\ link[p][n] \in Seq(MessageOver(B))
      BY DEF Typed, Links
    <3>2. link[p][n] # << >> => Tail(link[p][n]) \in Seq(MessageOver(B))
      BY <3>1
    <3>3. Unwritten(p, n) \in Seq(MessageOver(B))
      BY <3>1, <3>2, EmptySeq DEF Unwritten
    <3> QED
      BY <3>1, <3>3, UpdateType
  <2> QED
    BY <2>1 DEF Restart, Links
<1>7. up' \in Counters
  <2>1. [p \in Node |-> 0] \in [Node -> Nat]
    OBVIOUS
  <2> QED
    BY <2>1, UpdateType DEF Typed, Counters, Restart
<1>8. down' \in Counters
  <2>1. PICK twice :
          down' = [p \in Node |->
            IF p = n THEN [q \in Node |-> 0]
            ELSE [down[p] EXCEPT ![n] = @ + Ends(n, p) + (IF p \in twice THEN 1 ELSE 0)]]
    BY DEF Restart
  <2>2. ASSUME NEW p \in Node
        PROVE  [down[p] EXCEPT ![n] = @ + Ends(n, p) + (IF p \in twice THEN 1 ELSE 0)]
                 \in [Node -> Nat]
    <3>1. down[p] \in [Node -> Nat]
      BY DEF Typed, Counters
    <3>2. Ends(n, p) \in Nat
      BY DEF Ends
    <3>3. down[p][n] + Ends(n, p) + (IF p \in twice THEN 1 ELSE 0) \in Nat
      BY <3>1, <3>2
    <3> QED
      BY <3>1, <3>3, UpdateType
  <2> QED
    BY <2>1, <2>2 DEF Counters
<1>9. conn' \subseteq Dial /\ boot' \in [Node -> Nat]
  BY DEF Typed, Restart
<1> QED
  BY <1>2, <1>3, <1>4, <1>5, <1>6, <1>7, <1>8, <1>9
  DEF Typed, Restart, Links, Counters, Syncs

\* A block is signed only by a tick that proposes.
LEMMA OnlyTicksSign ==
  ASSUME [Next]_vars
  PROVE  \/ signed' = signed
         \/ \E n \in Node, r \in Nat : TickPropose(n, r)
<1>1. ASSUME NEW d \in Dial, Connect(d) \/ Break(d) PROVE signed' = signed
  BY <1>1 DEF Connect, Break
<1>2. ASSUME NEW n \in Node, NEW p \in Node, Lose(n, p) PROVE signed' = signed
  BY <1>2 DEF Lose
<1>3. ASSUME NEW n \in Node, Restart(n) PROVE signed' = signed
  BY <1>3 DEF Restart
<1>4. ASSUME NEW n \in Node, NodeStep(n)
      PROVE  signed' = signed \/ \E r \in Nat : TickPropose(n, r)
  <2>1. ASSUME NEW t \in Trx, LocalTrx(n, t) PROVE signed' = signed
    BY <2>1 DEF LocalTrx
  <2>2. ASSUME NEW p \in Node, Receive(n, p) PROVE signed' = signed
    BY <2>2 DEF Receive, OnTrx, OnGetStatus, OnStatus, OnGetBlocks, OnBlock, OnBlocks,
       AddPeer, RemovePeer
  <2>3. ASSUME Continue(n) PROVE signed' = signed
    BY <2>3 DEF Continue, IgnoreBlock, ConnectBlock, DeferBlock, ConnectOrphan, EndOrphans,
       Paginate
  <2>4. ASSUME Propose(n) PROVE \E r \in Nat : TickPropose(n, r)
    BY <2>4, B4nAssumption DEF Propose
  <2>5. ASSUME TickRound(n) PROVE signed' = signed
    BY <2>5 DEF TickRound
  <2> QED
    BY <1>4, <2>1, <2>2, <2>3, <2>4, <2>5 DEF NodeStep
<1>5. CASE UNCHANGED vars
  BY <1>5 DEF vars
<1> QED
  BY <1>1, <1>2, <1>3, <1>4, <1>5 DEF Next, EnvStep

\* Every step keeps the network over B, if what it signs is in B.
LEMMA TypedStep ==
  ASSUME NEW B \in SUBSET Block, Genesis \in B, Typed(B), signed' \subseteq B, [Next]_vars
  PROVE  Typed(B)'
<1>1. ASSUME NEW d \in Dial, Connect(d) \/ Break(d) PROVE Typed(B)'
  BY <1>1, ConnectType, BreakType
<1>2. ASSUME NEW n \in Node, NEW p \in Node, Lose(n, p) PROVE Typed(B)'
  BY <1>2, LoseType
<1>3. ASSUME NEW n \in Node, Restart(n) PROVE Typed(B)'
  BY <1>3, RestartType
<1>4. ASSUME NEW n \in Node, NodeStep(n) PROVE Typed(B)'
  <2>1. ASSUME NEW t \in Trx, LocalTrx(n, t) PROVE Typed(B)'
    BY <2>1, LocalTrxType
  <2>2. ASSUME NEW p \in Node, Receive(n, p) PROVE Typed(B)'
    BY <2>2, OnTrxType, OnGetStatusType, OnStatusType, OnGetBlocksType, BeginType,
       AddPeerType, RemovePeerType DEF Receive
  <2>3. CASE Continue(n)
    BY <2>3, IgnoreBlockType, ConnectBlockType, DeferBlockType, ConnectOrphanType,
       EndOrphansType, PaginateType DEF Continue
  <2>4. CASE Propose(n)
    BY <2>4, TickProposeType, B4nAssumption DEF Propose
  <2>5. CASE TickRound(n)
    BY <2>5, TickRoundType
  <2> QED
    BY <1>4, <2>1, <2>2, <2>3, <2>4, <2>5 DEF NodeStep
<1>5. CASE UNCHANGED vars
  BY <1>5 DEF vars, node, net, Typed
<1> QED
  BY <1>1, <1>2, <1>3, <1>4, <1>5 DEF Next, EnvStep

\* Both initial states are networks over any B with the genesis block.
LEMMA TypedInit ==
  ASSUME NEW B \in SUBSET Block, Genesis \in B, Init \/ ConnectedInit
  PROVE  Typed(B)
<1>1. Fresh
  BY DEF Init, ConnectedInit
<1>2. peers \in [Node -> SUBSET Node] /\ conn \subseteq Dial
  BY DEF Init, ConnectedInit
<1>3. /\ chain \in [Node -> Seq(B) \ {<< >>}]
      /\ pool \in [Node -> MemPools(Trx)]
      /\ sync \in [Node -> Syncs]
      /\ task \in [Node -> TaskOver(B)]
  BY <1>1, FreshTypes DEF Fresh, GenesisChain
<1>4. /\ round \in [Node -> Nat] /\ orphans_total \in [Node -> Nat] /\ breaks \in Nat
      /\ boot \in [Node -> Nat] /\ issued \in [Node -> SUBSET Trx] /\ signed \subseteq B
      /\ up \in Counters /\ down \in Counters
  BY <1>1 DEF Fresh, Counters
<1>5. seen_blocks \in [Node -> Seq(Hash32)] /\ link \in Links(B)
  BY <1>1, EmptySeq DEF Fresh, Links
<1>6. DOMAIN orphans = Node /\ \A m \in Node : OrphansOver(B, orphans[m])
  BY <1>1, FreshTypes DEF Fresh
<1> QED
  BY <1>2, <1>3, <1>4, <1>5, <1>6 DEF Typed

\* TypeOK says that the network is one over Block.
LEMMA TypedIsTypeOK == TypeOK <=> Typed(Block)
<1>1. Message = MessageOver(Block)
  BY DEF Message, MessageOver
<1>2. Task = TaskOver(Block)
  BY DEF Task, TaskOver
<1>3. \A o : OrphansOK(o) <=> OrphansOver(Block, o)
  BY DEF OrphansOK, OrphansOver
<1> QED
  BY <1>1, <1>2, <1>3 DEF TypeOK, Typed, Syncs, Links, Counters

\* Every step keeps the types.
LEMMA TypeStep ==
  ASSUME TypeOK, [Next]_vars
  PROVE  TypeOK'
<1>1. Typed(Block)
  BY TypedIsTypeOK
<1>2. signed' \subseteq Block
  <2>1. CASE signed' = signed
    BY <1>1, <2>1 DEF Typed
  <2>2. ASSUME NEW n \in Node, NEW r \in Nat, TickPropose(n, r)
        PROVE  signed' \subseteq Block
    BY <1>1, <2>2, CandidateType DEF TickPropose, Typed
  <2> QED
    BY <2>1, <2>2, OnlyTicksSign
<1>3. Typed(Block)'
  BY <1>1, <1>2, GenesisType, TypedStep
<1> QED
  BY <1>3, TypedIsTypeOK, PTL

\* The types hold in every state of the network, from a cold start ...
THEOREM TypeCorrect == Spec => []TypeOK
<1>1. Init => TypeOK
  BY TypedInit, GenesisType, TypedIsTypeOK
<1>2. TypeOK /\ [Next]_vars => TypeOK'
  BY TypeStep
<1> QED
  BY <1>1, <1>2, PTL DEF Spec

\* ... and from the state in which all connections are up.
THEOREM TypeCorrectConnected == ConnectedSpec => []TypeOK
<1>1. ConnectedInit => TypeOK
  BY TypedInit, GenesisType, TypedIsTypeOK
<1>2. TypeOK /\ [Next]_vars => TypeOK'
  BY TypeStep
<1> QED
  BY <1>1, <1>2, PTL DEF ConnectedSpec

=============================================================================
