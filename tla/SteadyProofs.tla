---------------------------- MODULE SteadyProofs -----------------------------
(***************************************************************************)
(* A network whose connections stay up and whose processes keep running,   *)
(* for any number of nodes and any time-outs: no sync waits for nothing,   *)
(* while the network comes up too if no Status is handled too early, and   *)
(* no transaction is confirmed twice.  What this rests on is that links    *)
(* are first in, first out, and that a node tells its peers everything it  *)
(* accepts before it tells them of the blocks that contain it.             *)
(***************************************************************************)
EXTENDS SafetyProofs

\* No connection fails and no process is started again.
Undisturbed == MaxBreaks = 0 /\ \A n \in Node : MaxBoots[n] <= 1

Neighbours(n) == {p \in Node : <<n, p>> \in Dial \/ <<p, n>> \in Dial}

\* Every dialled connection is up, its events are handled, and only the nodes it
\* joins write to each other.
Steady ==
  /\ conn = Dial
  /\ \A n, p \in Node : up[n][p] = 0 /\ down[n][p] = 0
  /\ \A n \in Node : peers[n] = Neighbours(n) /\ sync[n].peer \in Neighbours(n) \cup {None}
  /\ \A n, p \in Node : link[n][p] # << >> => p \in Neighbours(n)

\* Peers are neighbours; a node writes to its peers only, and syncs with one of them.
Peered ==
  /\ \A n, p \in Node : down[n][p] = 0
  /\ \A n \in Node : peers[n] \subseteq Neighbours(n) /\ sync[n].peer \in peers[n] \cup {None}
  /\ \A n, p \in Node : link[n][p] # << >> => p \in peers[n]

\* Who handles what may have to be answered has the sender to do so.
Answers == \A n, p \in Node : OnStatus(n, p) \/ OnGetBlocks(n, p) => p \in peers[n]

LEMMA NeighboursAre ==
  ASSUME NEW n \in Node, NEW p \in Neighbours(n)
  PROVE  p \in Node /\ p # n /\ p # None /\ n \in Neighbours(p)
BY B4nAssumption, NoneAssumption DEF Neighbours

-----------------------------------------------------------------------------
(* The links *)

\* What the link from q to r carries once n has sent ms to ps.
Longer(n, ps, ms, q, r) ==
  IF q = n /\ r \in ps \cap peers[n] THEN link[q][r] \o ms ELSE link[q][r]

\* What a step at n does to the links: n has sent ms to ps and taken one message of
\* from, if that is a node.
Writes(n, ps, ms, from) ==
  /\ ms \in Seq(Message)
  /\ from \in Node => link[from][n] # << >>
  /\ \A q, r \in Node :
       link'[q][r] = IF q = from /\ r = n THEN Tail(Longer(n, ps, ms, q, r))
                                          ELSE Longer(n, ps, ms, q, r)

LEMMA SentIs ==
  ASSUME NEW S, link \in [Node -> [Node -> S]], NEW n \in Node, NEW ps, NEW ms,
         NEW q \in Node, NEW r \in Node
  PROVE  Sent(n, ps, ms)[q][r] = Longer(n, ps, ms, q, r)
BY DEF Sent, Longer

LEMMA Quiet ==
  ASSUME NEW n, link' = link
  PROVE  Writes(n, {}, << >>, None)
BY NoneAssumption, EmptySeq DEF Writes, Longer

LEMMA Sends ==
  ASSUME link \in Links(Block), NEW n \in Node, NEW ps, NEW ms \in Seq(Message),
         link' = Sent(n, ps, ms)
  PROVE  Writes(n, ps, ms, None)
<1>1. \A q, r \in Node : link'[q][r] = Longer(n, ps, ms, q, r)
  <2> DEFINE S == Seq(MessageOver(Block))
  <2>1. link \in [Node -> [Node -> S]]
    BY DEF Links
  <2> HIDE DEF S
  <2> QED
    BY <2>1, SentIs
<1> QED
  BY <1>1, NoneAssumption DEF Writes

LEMMA Takes ==
  ASSUME link \in Links(Block), NEW n \in Node, NEW p \in Node, link[p][n] # << >>,
         link' = Taken(link, n, p)
  PROVE  Writes(n, {}, << >>, p)
<1>1. \A q, r \in Node : link'[q][r] = IF q = p /\ r = n THEN Tail(link[q][r]) ELSE link[q][r]
  <2> DEFINE S == Seq(MessageOver(Block))
  <2>1. link \in [Node -> [Node -> S]]
    BY DEF Links
  <2> HIDE DEF S
  <2> QED
    BY <2>1 DEF Taken
<1> QED
  BY <1>1, EmptySeq DEF Writes, Longer

LEMMA SendsAndTakes ==
  ASSUME link \in Links(Block), NEW n \in Node, NEW p \in Node, link[p][n] # << >>,
         NEW ps, NEW ms \in Seq(Message), link' = Taken(Sent(n, ps, ms), n, p)
  PROVE  Writes(n, ps, ms, p)
<1> DEFINE S == Seq(MessageOver(Block))
           l == Sent(n, ps, ms)
<1>1. link \in [Node -> [Node -> S]] /\ l \in [Node -> [Node -> S]]
  <2>1. Message = MessageOver(Block) /\ Block \in SUBSET Block
    BY DEF Message, MessageOver
  <2> QED
    BY <2>1, SentType DEF Links
<1> HIDE DEF S
<1>2. \A q, r \in Node : l[q][r] = Longer(n, ps, ms, q, r)
  BY <1>1, SentIs
<1> HIDE DEF l
<1>3. \A q, r \in Node : Taken(l, n, p)[q][r] = IF q = p /\ r = n THEN Tail(l[q][r]) ELSE l[q][r]
  BY <1>1 DEF Taken
<1> QED
  BY <1>2, <1>3 DEF Writes, l

\* A node takes a message of a neighbour only.
LEMMA FromNeighbour ==
  ASSUME Steady, NEW n \in Node, NEW p \in Node, link[p][n] # << >>
  PROVE  p \in Neighbours(n) /\ n \in Neighbours(p) /\ p # n /\ p # None
<1>1. n \in Neighbours(p)
  BY DEF Steady
<1> QED
  BY <1>1, NeighboursAre

LEMMA FromPeer ==
  ASSUME Peered, NEW n \in Node, NEW p \in Node, link[p][n] # << >>
  PROVE  n \in peers[p] /\ p # n /\ p # None
<1>1. n \in peers[p] /\ n \in Neighbours(p)
  BY DEF Peered
<1> QED
  BY <1>1, NeighboursAre

LEMMA SteadyIsPeered ==
  ASSUME Steady
  PROVE  Peered /\ Answers
<1>1. Peered
  BY DEF Steady, Peered
<1>2. ASSUME NEW n \in Node, NEW p \in Node, OnStatus(n, p) \/ OnGetBlocks(n, p)
      PROVE  p \in peers[n]
  <2>1. link[p][n] # << >>
    BY <1>2 DEF OnStatus, OnGetBlocks, Receives
  <2> QED
    BY <2>1, FromNeighbour DEF Steady
<1> QED
  BY <1>1, <1>2 DEF Answers

-----------------------------------------------------------------------------
(* The steps of such a network *)

\* All but add_peer, remove_peer and the steps of the environment.
Handler(n) ==
  \/ \E t \in Trx : LocalTrx(n, t)
  \/ \E p \in Node : OnTrx(n, p) \/ OnGetStatus(n, p) \/ OnStatus(n, p)
                     \/ OnGetBlocks(n, p) \/ OnBlock(n, p) \/ OnBlocks(n, p)
  \/ Continue(n)
  \/ Propose(n)
  \/ TickRound(n)

LEMMA OnlyHandlers ==
  ASSUME Undisturbed, TypeOK, Started, Steady, [Next]_vars
  PROVE  UNCHANGED vars \/ \E n \in Node : Handler(n)
<1>1. ASSUME NEW d \in Dial, Connect(d) \/ Break(d) PROVE FALSE
  <2>1. breaks \in Nat
    BY DEF TypeOK
  <2> QED
    BY <1>1, <2>1 DEF Connect, Break, Steady, Undisturbed
<1>2. ASSUME NEW n \in Node, NEW p \in Node, Lose(n, p) PROVE FALSE
  <2>1. up[n][p] = 0 /\ down[n][p] = 0
    BY DEF Steady
  <2>2. link[n][p] = << >>
    <3>1. <<n, p>> \notin conn /\ <<p, n>> \notin conn
      BY <1>2, <2>1 DEF Lose, Joined
    <3>2. p \notin Neighbours(n)
      BY <3>1 DEF Steady, Neighbours
    <3> QED
      BY <3>2 DEF Steady
  <2>3. \E i : i \in DOMAIN link[n][p]
    BY <1>2 DEF Lose
  <2> QED
    BY <2>2, <2>3
<1>3. ASSUME NEW n \in Node, Restart(n) PROVE FALSE
  <2>1. boot[n] \in Nat /\ MaxBoots[n] \in Nat /\ MaxBoots[n] <= 1 /\ 1 <= boot[n]
    BY B4nAssumption DEF TypeOK, Started, Undisturbed
  <2>2. boot[n] < MaxBoots[n]
    BY <1>3 DEF Restart
  <2> QED
    BY <2>1, <2>2
<1>4. ASSUME NEW n \in Node, NEW p \in Node, AddPeer(n, p) \/ RemovePeer(n, p) PROVE FALSE
  BY <1>4 DEF AddPeer, RemovePeer, Steady
<1>5. ASSUME EnvStep PROVE FALSE
  BY <1>1, <1>2, <1>3, <1>5 DEF EnvStep
<1>6. ASSUME NEW n \in Node, NEW p \in Node, Receive(n, p) PROVE Handler(n)
  BY <1>4, <1>6 DEF Receive, Handler
<1>7. ASSUME NEW n \in Node, NodeStep(n) PROVE Handler(n)
  BY <1>6, <1>7 DEF NodeStep, Handler
<1> QED
  BY <1>5, <1>7 DEF Next

-----------------------------------------------------------------------------
(* What each handler writes *)

LEMMA LinksAre ==
  ASSUME TypeOK
  PROVE  /\ link \in Links(Block) /\ Message = MessageOver(Block)
         /\ \A n, p \in Node : link[n][p] \in Seq(Message)
<1>1. Message = MessageOver(Block)
  BY DEF Message, MessageOver
<1>2. link \in Links(Block)
  BY TypedIsTypeOK DEF Typed
<1> QED
  BY <1>1, <1>2 DEF Links

LEMMA MessagesAre ==
  /\ \A h \in Nat : <<Status(h)>> \in Seq(Message) /\ <<GetBlocks(h)>> \in Seq(Message)
  /\ \A bs \in Seq(Block) : <<Blocks(bs)>> \in Seq(Message)
  /\ \A t \in Trx : <<TrxMsg(t)>> \in Seq(Message)
  /\ \A b \in Block : <<BlockMsg(b)>> \in Seq(Message)
<1>1. Message = MessageOver(Block)
  BY DEF Message, MessageOver
<1>2. /\ \A h \in Nat : Status(h) \in Message /\ GetBlocks(h) \in Message
      /\ \A bs \in Seq(Block) : Blocks(bs) \in Message
      /\ \A t \in Trx : TrxMsg(t) \in Message
      /\ \A b \in Block : BlockMsg(b) \in Message
  BY <1>1, MessageType
<1> QED
  BY <1>2, TuplesType

\* A transaction goes to every peer if the pool accepted it.
LEMMA LocalTrxWrites ==
  ASSUME TypeOK, NEW n \in Node, NEW t \in Trx, LocalTrx(n, t)
  PROVE  IF Accepts(pool[n], t) THEN Writes(n, Node, <<TrxMsg(t)>>, None)
                                ELSE Writes(n, {}, << >>, None)
<1>1. link \in Links(Block) /\ <<TrxMsg(t)>> \in Seq(Message)
  BY LinksAre, MessagesAre
<1> QED
  BY <1>1, Sends, Quiet DEF LocalTrx, Gossip

LEMMA OnTrxWrites ==
  ASSUME TypeOK, NEW n \in Node, NEW p \in Node, OnTrx(n, p),
         NEW t \in Trx, t = Head(link[p][n]).trx
  PROVE  IF Accepts(pool[n], t) THEN Writes(n, Node, <<TrxMsg(t)>>, p)
                                ELSE Writes(n, {}, << >>, p)
<1>1. link \in Links(Block) /\ <<TrxMsg(t)>> \in Seq(Message)
  BY LinksAre, MessagesAre
<1>2. /\ link[p][n] # << >>
      /\ link' = Taken(IF Accepts(pool[n], t) THEN Sent(n, Node, <<TrxMsg(t)>>) ELSE link,
                       n, p)
  BY DEF OnTrx, Receives, Gossip
<1> QED
  BY <1>1, <1>2, SendsAndTakes, Takes

\* A status and a page of blocks go to the peer that asked; the answer to a status is a
\* request or nothing.
LEMMA AnswerWrites ==
  ASSUME TypeOK, NEW n \in Node, NEW p \in Node,
         OnGetStatus(n, p) \/ OnStatus(n, p) \/ OnGetBlocks(n, p)
  PROVE  /\ OnGetStatus(n, p) => Writes(n, {p}, <<Status(Height(chain[n]))>>, p)
         /\ OnStatus(n, p) =>
              \/ sync' = sync /\ Writes(n, {}, << >>, p)
              \/ /\ sync' = [sync EXCEPT ![n] = SyncWith(p, Height(chain[n]) + 1)]
                 /\ Writes(n, {p}, <<GetBlocks(Height(chain[n]) + 1)>>, p)
         /\ OnGetBlocks(n, p) =>
              LET page == BlocksFrom(chain[n], Head(link[p][n]).start, SYNC_LIMIT)
              IN  page \in Seq(Block) /\ Writes(n, {p}, <<Blocks(page)>>, p)
<1>1. link \in Links(Block) /\ link[p][n] # << >>
  BY LinksAre DEF OnGetStatus, OnStatus, OnGetBlocks, Receives
<1>2. Height(chain[n]) \in Nat /\ Height(chain[n]) + 1 \in Nat
  <2>1. chain[n] \in Seq(Block) \ {<< >>}
    BY DEF TypeOK
  <2> QED
    BY <2>1, TipType
<1>3. ASSUME OnGetStatus(n, p)
      PROVE  Writes(n, {p}, <<Status(Height(chain[n]))>>, p)
  BY <1>1, <1>2, <1>3, MessagesAre, SendsAndTakes DEF OnGetStatus
<1>4. ASSUME OnStatus(n, p)
      PROVE  \/ sync' = sync /\ Writes(n, {}, << >>, p)
             \/ /\ sync' = [sync EXCEPT ![n] = SyncWith(p, Height(chain[n]) + 1)]
                /\ Writes(n, {p}, <<GetBlocks(Height(chain[n]) + 1)>>, p)
  <2>1. <<GetBlocks(Height(chain[n]) + 1)>> \in Seq(Message)
    BY <1>2, MessagesAre
  <2>2. \/ sync' = sync /\ link' = Taken(link, n, p)
        \/ /\ sync' = [sync EXCEPT ![n] = SyncWith(p, Height(chain[n]) + 1)]
           /\ link' = Taken(Sent(n, {p}, <<GetBlocks(Height(chain[n]) + 1)>>), n, p)
    BY <1>4 DEF OnStatus
  <2> QED
    BY <1>1, <2>1, <2>2, SendsAndTakes, Takes
<1>5. ASSUME OnGetBlocks(n, p)
      PROVE  LET page == BlocksFrom(chain[n], Head(link[p][n]).start, SYNC_LIMIT)
             IN  page \in Seq(Block) /\ Writes(n, {p}, <<Blocks(page)>>, p)
  <2> DEFINE page == BlocksFrom(chain[n], Head(link[p][n]).start, SYNC_LIMIT)
  <2>1. page \in Seq(Block)
    <3>1. Head(link[p][n]).start \in Nat
      BY <1>1, <1>5, TypedIsTypeOK, HeadType, MessageFields DEF OnGetBlocks, Receives
    <3>2. chain[n] \in Seq(Block) \ {<< >>} /\ SYNC_LIMIT \in Nat
      BY B4nAssumption DEF TypeOK
    <3> QED
      BY <3>1, <3>2, BlocksFromType
  <2>2. link' = Taken(Sent(n, {p}, <<Blocks(page)>>), n, p)
    BY <1>5 DEF OnGetBlocks
  <2>3. <<Blocks(page)>> \in Seq(Message)
    BY <2>1, MessagesAre
  <2> HIDE DEF page
  <2>4. Writes(n, {p}, <<Blocks(page)>>, p)
    BY <1>1, <2>2, <2>3, SendsAndTakes
  <2> QED
    BY <2>1, <2>4 DEF page
<1> QED
  BY <1>3, <1>4, <1>5

\* The handlers of blocks begin with nothing but the message taken.
LEMMA BeginWrites ==
  ASSUME TypeOK, NEW n \in Node, NEW p \in Node, OnBlock(n, p) \/ OnBlocks(n, p)
  PROVE  Writes(n, {}, << >>, p)
BY LinksAre, Takes DEF OnBlock, OnBlocks, Receives

\* A block that a node adds to its chain goes to every peer.
LEMMA GrowWrites ==
  ASSUME TypeOK, NEW n \in Node, NEW b \in Block, link' = Gossip(n, BlockMsg(b))
  PROVE  Writes(n, Node, <<BlockMsg(b)>>, None)
BY LinksAre, MessagesAre, Sends DEF Gossip

\* A deferred block makes the node ask a peer, if it is not waiting for that page.
LEMMA DeferWrites ==
  ASSUME TypeOK, NEW n \in Node, DeferBlock(n)
  PROVE  \/ sync' = sync /\ Writes(n, {}, << >>, None)
         \/ \E p \in peers[n] : \E h \in Nat :
              /\ sync' = [sync EXCEPT ![n] = SyncWith(p, h)]
              /\ Writes(n, {p}, <<GetBlocks(h)>>, None)
<1> DEFINE h == Height(chain[n]) + 1
<1>1. h \in Nat
  <2>1. chain[n] \in Seq(Block) \ {<< >>}
    BY DEF TypeOK
  <2> QED
    BY <2>1, TipType
<1>2. \/ sync' = sync /\ link' = link
      \/ \E p \in peers[n] : /\ sync' = [sync EXCEPT ![n] = SyncWith(p, h)]
                             /\ link' = Sent(n, {p}, <<GetBlocks(h)>>)
  BY DEF DeferBlock, StartSync
<1> HIDE DEF h
<1>3. <<GetBlocks(h)>> \in Seq(Message) /\ link \in Links(Block)
  BY <1>1, MessagesAre, LinksAre
<1> QED
  BY <1>1, <1>2, <1>3, Sends, Quiet

\* The end of a page: of another peer than the one the sync is with, a full one, or a
\* short one, which ends the sync.
LEMMA PageWrites ==
  ASSUME TypeOK, NEW n \in Node, Paginate(n)
  PROVE  \/ sync[n].peer # task[n].from /\ sync' = sync /\ Writes(n, {}, << >>, None)
         \/ /\ sync[n].peer = task[n].from
            /\ \E h \in Nat : /\ sync' = [sync EXCEPT ![n] = SyncWith(sync[n].peer, h)]
                              /\ Writes(n, {sync[n].peer}, <<GetBlocks(h)>>, None)
         \/ sync' = [sync EXCEPT ![n] = NoSync] /\ Writes(n, {}, << >>, None)
<1> DEFINE h == Height(chain[n]) + 1
           from == task[n].from
<1>1. h \in Nat
  <2>1. chain[n] \in Seq(Block) \ {<< >>}
    BY DEF TypeOK
  <2> QED
    BY <2>1, TipType
<1>2. \/ sync[n].peer # from /\ sync' = sync /\ link' = link
      \/ /\ sync[n].peer = from /\ sync' = [sync EXCEPT ![n] = SyncWith(from, h)]
         /\ link' = Sent(n, {from}, <<GetBlocks(h)>>)
      \/ sync' = [sync EXCEPT ![n] = NoSync] /\ link' = link
  BY DEF Paginate
<1> HIDE DEF h
<1>3. <<GetBlocks(h)>> \in Seq(Message) /\ link \in Links(Block)
  BY <1>1, MessagesAre, LinksAre
<1> QED
  BY <1>1, <1>2, <1>3, Sends, Quiet

-----------------------------------------------------------------------------
(* The peers stay as they are *)

LEMMA WritesPeered ==
  ASSUME Peered, NEW n \in Node, NEW ps, NEW ms, NEW from, Writes(n, ps, ms, from),
         UNCHANGED <<down, peers>>, \A m \in Node : sync'[m].peer \in peers[m] \cup {None}
  PROVE  Peered'
<1>1. ASSUME NEW q \in Node, NEW r \in Node, link'[q][r] # << >>
      PROVE  r \in peers[q]
  <2>1. CASE q = from /\ r = n
    BY <2>1 DEF Writes, Peered
  <2>2. CASE ~(q = from /\ r = n)
    <3>1. link'[q][r] = Longer(n, ps, ms, q, r)
      BY <2>2 DEF Writes
    <3>2. (r \in peers[n] /\ q = n) \/ link'[q][r] = link[q][r]
      BY <3>1 DEF Longer
    <3> QED
      BY <1>1, <3>2 DEF Peered
  <2> QED
    BY <2>1, <2>2
<1> QED
  BY <1>1 DEF Peered

\* What a handler does to the sync of each node.
LEMMA SyncStep ==
  ASSUME TypeOK, NEW n \in Node, NEW p, sync' = [sync EXCEPT ![n] = p]
  PROVE  sync'[n] = p /\ \A m \in Node \ {n} : sync'[m] = sync[m]
BY DEF TypeOK

LEMMA HandlerKeeps ==
  ASSUME NEW n \in Node, Handler(n)
  PROVE  UNCHANGED <<conn, up, down, peers>>
BY DEF Handler, Continue, Propose, LocalTrx, OnTrx, OnGetStatus, OnStatus, OnGetBlocks,
   OnBlock, OnBlocks, IgnoreBlock, ConnectBlock, DeferBlock, ConnectOrphan, EndOrphans,
   Paginate, TickPropose, TickRound, net

LEMMA HandlerPeered ==
  ASSUME TypeOK, Peered, Answers, NEW n \in Node, Handler(n)
  PROVE  Peered'
<1>1. UNCHANGED <<down, peers>>
  BY HandlerKeeps
<1>2. ASSUME sync' = sync PROVE \A m \in Node : sync'[m].peer \in peers[m] \cup {None}
  BY <1>2 DEF Peered
<1>3. ASSUME NEW p \in peers[n] \cup {None}, NEW s, s.peer = p,
             sync' = [sync EXCEPT ![n] = s]
      PROVE  \A m \in Node : sync'[m].peer \in peers[m] \cup {None}
  BY <1>3, SyncStep DEF Peered
<1>4. ASSUME NEW t \in Trx, LocalTrx(n, t) PROVE Peered'
  <2>1. sync' = sync
    BY <1>4 DEF LocalTrx
  <2> QED
    BY <1>1, <1>2, <1>4, <2>1, LocalTrxWrites, WritesPeered
<1>5. ASSUME NEW p \in Node, OnTrx(n, p) PROVE Peered'
  <2>1. sync' = sync
    BY <1>5 DEF OnTrx
  <2>2. Head(link[p][n]).trx \in Trx
    BY <1>5, TypedIsTypeOK, HeadType, MessageFields DEF OnTrx, Receives
  <2>3. \E ps, ms : Writes(n, ps, ms, p)
    BY <1>5, <2>2, OnTrxWrites
  <2> QED
    BY <1>1, <1>2, <2>1, <2>3, WritesPeered
<1>6. ASSUME NEW p \in Node, OnGetStatus(n, p) \/ OnGetBlocks(n, p) PROVE Peered'
  <2>1. sync' = sync
    BY <1>6 DEF OnGetStatus, OnGetBlocks
  <2>2. \E ms : Writes(n, {p}, ms, p)
    BY <1>6, AnswerWrites
  <2> QED
    BY <1>1, <1>2, <2>1, <2>2, WritesPeered
<1>7. ASSUME NEW p \in Node, OnStatus(n, p) PROVE Peered'
  <2>1. p \in peers[n]
    BY <1>7 DEF Answers
  <2>2. CASE sync' = sync /\ Writes(n, {}, << >>, p)
    BY <1>1, <1>2, <2>2, WritesPeered
  <2>3. ASSUME sync' = [sync EXCEPT ![n] = SyncWith(p, Height(chain[n]) + 1)],
               Writes(n, {p}, <<GetBlocks(Height(chain[n]) + 1)>>, p)
        PROVE  Peered'
    <3>1. SyncWith(p, Height(chain[n]) + 1).peer = p
      BY DEF SyncWith
    <3>2. \A m \in Node : sync'[m].peer \in peers[m] \cup {None}
      BY <1>3, <2>1, <2>3, <3>1
    <3> QED
      BY <1>1, <2>3, <3>2, WritesPeered
  <2> QED
    BY <1>7, <2>2, <2>3, AnswerWrites
<1>8. ASSUME NEW p \in Node, OnBlock(n, p) \/ OnBlocks(n, p) PROVE Peered'
  <2>1. sync' = sync
    BY <1>8 DEF OnBlock, OnBlocks
  <2> QED
    BY <1>1, <1>2, <1>8, <2>1, BeginWrites, WritesPeered
<1>9. ASSUME IgnoreBlock(n) \/ EndOrphans(n) \/ TickRound(n) PROVE Peered'
  <2>1. sync' = sync /\ link' = link
    BY <1>9 DEF IgnoreBlock, EndOrphans, TickRound
  <2> QED
    BY <1>1, <1>2, <2>1, Quiet, WritesPeered
<1>10. ASSUME NEW b \in Block, sync' = sync, link' = Gossip(n, BlockMsg(b)) PROVE Peered'
  BY <1>1, <1>2, <1>10, GrowWrites, WritesPeered
<1>11. ASSUME ConnectBlock(n) PROVE Peered'
  <2>1. Head(task[n].rest) \in Block
    BY <1>11, TypedIsTypeOK, HandledType DEF ConnectBlock
  <2> QED
    BY <1>10, <1>11, <2>1 DEF ConnectBlock
<1>12. ASSUME DeferBlock(n) PROVE Peered'
  <2>1. CASE sync' = sync /\ Writes(n, {}, << >>, None)
    BY <1>1, <1>2, <2>1, WritesPeered
  <2>2. ASSUME NEW p \in peers[n], NEW h \in Nat, sync' = [sync EXCEPT ![n] = SyncWith(p, h)],
               Writes(n, {p}, <<GetBlocks(h)>>, None)
        PROVE  Peered'
    <3>1. SyncWith(p, h).peer = p
      BY DEF SyncWith
    <3>2. \A m \in Node : sync'[m].peer \in peers[m] \cup {None}
      BY <1>3, <2>2, <3>1
    <3> QED
      BY <1>1, <2>2, <3>2, WritesPeered
  <2> QED
    BY <1>12, <2>1, <2>2, DeferWrites
<1>13. ASSUME ConnectOrphan(n) PROVE Peered'
  <2> DEFINE bucket == Bucket(orphans[n], Hash(Tip(chain[n])))
  <2>1. PICK i \in DOMAIN bucket : link' = Gossip(n, BlockMsg(bucket[i]))
    BY <1>13 DEF ConnectOrphan
  <2>2. bucket \in Seq(Block)
    BY TypedIsTypeOK, BucketType DEF Typed
  <2>3. bucket[i] \in Block
    BY <2>1, <2>2, ElementOfSeq, LenProperties
  <2> QED
    BY <1>10, <1>13, <2>1, <2>3 DEF ConnectOrphan
<1>14. ASSUME Paginate(n) PROVE Peered'
  <2>1. CASE sync' = sync /\ Writes(n, {}, << >>, None)
    BY <1>1, <1>2, <2>1, WritesPeered
  <2>2. ASSUME NEW h \in Nat, sync' = [sync EXCEPT ![n] = SyncWith(sync[n].peer, h)],
               Writes(n, {sync[n].peer}, <<GetBlocks(h)>>, None)
        PROVE  Peered'
    <3>1. SyncWith(sync[n].peer, h).peer \in peers[n] \cup {None}
      BY DEF SyncWith, Peered
    <3>2. \A m \in Node : sync'[m].peer \in peers[m] \cup {None}
      BY <1>3, <2>2, <3>1
    <3> QED
      BY <1>1, <2>2, <3>2, WritesPeered
  <2>3. ASSUME sync' = [sync EXCEPT ![n] = NoSync], Writes(n, {}, << >>, None)
        PROVE  Peered'
    <3>1. NoSync.peer = None
      BY DEF NoSync
    <3>2. \A m \in Node : sync'[m].peer \in peers[m] \cup {None}
      BY <1>3, <2>3, <3>1
    <3> QED
      BY <1>1, <2>3, <3>2, WritesPeered
  <2> QED
    BY <1>14, <2>1, <2>2, <2>3, PageWrites
<1>15. ASSUME Propose(n) PROVE Peered'
  <2>1. PICK r \in Nat : TickPropose(n, r)
    BY <1>15, B4nAssumption DEF Propose
  <2>2. PICK b \in Block : link' = Gossip(n, BlockMsg(b))
    BY <2>1, TickAppends
  <2> QED
    BY <1>10, <2>1, <2>2 DEF TickPropose
<1> QED
  BY <1>4, <1>5, <1>6, <1>7, <1>8, <1>9, <1>11, <1>12, <1>13, <1>14, <1>15
  DEF Handler, Continue

LEMMA HandlerSteady ==
  ASSUME TypeOK, Steady, NEW n \in Node, Handler(n)
  PROVE  Steady'
<1>1. UNCHANGED <<conn, up, down, peers>>
  BY HandlerKeeps
<1>2. Peered'
  BY SteadyIsPeered, HandlerPeered
<1> QED
  BY <1>1, <1>2 DEF Steady, Peered

-----------------------------------------------------------------------------
(* A sync is never set for nothing *)

\* A message of this type is on the way in w.
Has(w, type) == \E i \in DOMAIN w : w[i].type = type

\* The request of n to p is on the way, or its answer is, or is being handled.
InHand(n, p) ==
  Has(link[n][p], "GetBlocks") \/ Has(link[p][n], "Blocks") \/ task[n].from = p

LEMMA SyncIs ==
  ASSUME Peered
  PROVE  SyncInProgress <=> \A n \in Node : sync[n].peer # None => InHand(n, sync[n].peer)
<1>1. ASSUME NEW n \in Node, sync[n].peer # None
      PROVE  sync[n].peer \in Node /\ ~(down[n][sync[n].peer] > 0)
  <2>1. sync[n].peer \in Node
    BY <1>1 DEF Peered, Neighbours
  <2> QED
    BY <2>1 DEF Peered
<1> QED
  BY <1>1 DEF SyncInProgress, InHand, Has

LEMMA HasAppended ==
  ASSUME NEW S, NEW w \in Seq(S), NEW ms \in Seq(S), NEW type, Has(w, type) \/ Has(ms, type)
  PROVE  Has(w \o ms, type)
<1>1. /\ Len(w) \in Nat /\ DOMAIN w = 1 .. Len(w)
      /\ Len(ms) \in Nat /\ DOMAIN ms = 1 .. Len(ms)
  BY LenProperties
<1>2. /\ DOMAIN (w \o ms) = 1 .. Len(w) + Len(ms)
      /\ \A i \in 1 .. Len(w) : (w \o ms)[i] = w[i]
      /\ \A i \in 1 .. Len(ms) : (w \o ms)[Len(w) + i] = ms[i]
  <2>1. /\ w \o ms \in Seq(S) /\ Len(w \o ms) = Len(w) + Len(ms)
        /\ \A i \in 1 .. Len(w) + Len(ms) :
             (w \o ms)[i] = IF i <= Len(w) THEN w[i] ELSE ms[i - Len(w)]
    BY ConcatProperties
  <2>2. DOMAIN (w \o ms) = 1 .. Len(w) + Len(ms)
    BY <2>1, LenProperties
  <2>3. ASSUME NEW i \in 1 .. Len(ms) PROVE (w \o ms)[Len(w) + i] = ms[i]
    <3>1. Len(w) + i \in 1 .. Len(w) + Len(ms) /\ ~(Len(w) + i <= Len(w))
          /\ Len(w) + i - Len(w) = i
      BY <1>1
    <3> QED
      BY <2>1, <3>1
  <2>4. ASSUME NEW i \in 1 .. Len(w) PROVE (w \o ms)[i] = w[i]
    BY <1>1, <2>1
  <2> QED
    BY <2>2, <2>3, <2>4
<1>3. CASE Has(w, type)
  <2>1. PICK i \in 1 .. Len(w) : w[i].type = type
    BY <1>1, <1>3 DEF Has
  <2>2. i \in 1 .. Len(w) + Len(ms)
    BY <1>1
  <2> QED
    BY <1>2, <2>1, <2>2 DEF Has
<1>4. CASE Has(ms, type)
  <2>1. PICK i \in 1 .. Len(ms) : ms[i].type = type
    BY <1>1, <1>4 DEF Has
  <2>2. Len(w) + i \in 1 .. Len(w) + Len(ms)
    BY <1>1
  <2> QED
    BY <1>2, <2>1, <2>2 DEF Has
<1> QED
  BY <1>3, <1>4

LEMMA TailIs ==
  ASSUME NEW S, NEW w \in Seq(S), w # << >>
  PROVE  /\ Head(w) = w[1] /\ Tail(w) \in Seq(S)
         /\ Len(w) \in Nat /\ DOMAIN w = 1 .. Len(w) /\ 1 \in DOMAIN w
         /\ DOMAIN Tail(w) = 1 .. Len(w) - 1
         /\ \A i \in 1 .. Len(w) - 1 : Tail(w)[i] = w[i + 1]
<1>1. Head(w) = w[1] /\ Tail(w) \in Seq(S) /\ Len(Tail(w)) = Len(w) - 1
      /\ \A i \in 1 .. Len(Tail(w)) : Tail(w)[i] = w[i + 1]
  BY HeadTailProperties
<1>2. Len(w) \in Nat \ {0} /\ DOMAIN w = 1 .. Len(w)
  BY LenProperties, EmptySeq
<1>3. DOMAIN Tail(w) = 1 .. Len(Tail(w))
  BY <1>1, LenProperties
<1> QED
  BY <1>1, <1>2, <1>3

LEMMA HasLeft ==
  ASSUME NEW S, NEW w \in Seq(S), w # << >>, NEW type, Has(w, type), Head(w).type # type
  PROVE  Has(Tail(w), type)
<1>1. PICK i \in DOMAIN w : w[i].type = type
  BY DEF Has
<1>2. i # 1 /\ i \in 1 .. Len(w) /\ Len(w) \in Nat
  BY <1>1, TailIs
<1>3. i - 1 \in 1 .. Len(w) - 1 /\ (i - 1) + 1 = i
  BY <1>2
<1> QED
  BY <1>1, <1>3, TailIs DEF Has

\* A message stays on its way except when it is taken.
LEMMA StaysUnderWay ==
  ASSUME TypeOK, NEW n \in Node, NEW ps, NEW ms, NEW from, Writes(n, ps, ms, from), from # n,
         NEW q \in Node, NEW r \in Node, NEW type, Has(link[q][r], type),
         q = from /\ r = n => Head(link[q][r]).type # type
  PROVE  Has(link'[q][r], type)
<1>1. link[q][r] \in Seq(Message) /\ ms \in Seq(Message)
  BY LinksAre DEF Writes
<1>2. CASE q = from /\ r = n
  <2>1. link'[q][r] = Tail(link[q][r]) /\ link[q][r] # << >>
    BY <1>2 DEF Writes, Longer
  <2> QED
    BY <1>1, <1>2, <2>1, HasLeft
<1>3. CASE ~(q = from /\ r = n)
  <2>1. link'[q][r] = link[q][r] \/ link'[q][r] = link[q][r] \o ms
    BY <1>3 DEF Writes, Longer
  <2> QED
    BY <1>1, <2>1, HasAppended
<1> QED
  BY <1>2, <1>3

\* A message that is sent to a peer is on its way.
LEMMA IsUnderWay ==
  ASSUME TypeOK, NEW n \in Node, NEW ps, NEW m \in Message, NEW from,
         Writes(n, ps, <<m>>, from), from # n, NEW r \in ps \cap peers[n]
  PROVE  Has(link'[n][r], m.type)
<1>1. r \in Node
  BY DEF TypeOK
<1>0. PICK ms : ms = <<m>>
  OBVIOUS
<1>2. link[n][r] \in Seq(Message) /\ ms \in Seq(Message)
  BY <1>0, <1>1, LinksAre DEF Writes
<1>3. link'[n][r] = link[n][r] \o ms
  BY <1>0, <1>1 DEF Writes, Longer
<1>4. Has(ms, m.type)
  <2>1. 1 \in DOMAIN ms /\ ms[1] = m
    BY <1>0
  <2> QED
    BY <2>1 DEF Has
<1> QED
  BY <1>2, <1>3, <1>4, HasAppended

\* What is in hand stays so over a step that takes neither a request nor an answer.
LEMMA InHandKept ==
  ASSUME TypeOK, NEW n \in Node, NEW ps, NEW ms, NEW from, Writes(n, ps, ms, from), from # n,
         from \in Node => Head(link[from][n]).type \notin {"GetBlocks", "Blocks"},
         NEW m \in Node, NEW q \in Node, InHand(m, q),
         task[m].from = q => task'[m].from = q
  PROVE  InHand(m, q)'
<1>1. CASE Has(link[m][q], "GetBlocks")
  BY <1>1, StaysUnderWay DEF InHand
<1>2. CASE Has(link[q][m], "Blocks")
  BY <1>2, StaysUnderWay DEF InHand
<1>3. CASE task[m].from = q
  BY <1>3 DEF InHand
<1> QED
  BY <1>1, <1>2, <1>3 DEF InHand

\* Waits(n): if n is syncing, the sync is in hand.
Waits(n) == sync[n].peer # None => InHand(n, sync[n].peer)

\* Steps that leave the sync alone, and take neither a request nor an answer.
LEMMA WaitsKept ==
  ASSUME TypeOK, Peered, \A m \in Node : Waits(m),
         NEW n \in Node, NEW ps, NEW ms, NEW from, Writes(n, ps, ms, from), from # n,
         from \in Node => Head(link[from][n]).type \notin {"GetBlocks", "Blocks"},
         NEW m \in Node, sync'[m] = sync[m],
         sync[m].peer # None /\ task[m].from = sync[m].peer => task'[m].from = sync[m].peer
  PROVE  Waits(m)'
<1>1. PICK q : q = sync[m].peer
  OBVIOUS
<1>2. CASE q = None
  BY <1>1, <1>2 DEF Waits
<1>3. CASE q # None
  <2>1. q \in Node /\ InHand(m, q)
    BY <1>1, <1>3 DEF Peered, Neighbours, Waits
  <2>2. InHand(m, q)'
    BY <1>1, <1>3, <2>1, InHandKept
  <2>3. q = sync'[m].peer
    BY <1>1
  <2> QED
    BY <2>2, <2>3 DEF Waits, InHand
<1> QED
  BY <1>2, <1>3

\* Steps after which n has just asked the peer of its new sync.
LEMMA WaitsAnew ==
  ASSUME TypeOK, Peered, \A m \in Node : Waits(m),
         NEW n \in Node, NEW p \in peers[n], NEW h \in Nat, NEW from,
         sync' = [sync EXCEPT ![n] = SyncWith(p, h)],
         Writes(n, {p}, <<GetBlocks(h)>>, from), from # n,
         from \in Node => Head(link[from][n]).type \notin {"GetBlocks", "Blocks"},
         NEW m \in Node, m # n => task'[m] = task[m]
  PROVE  Waits(m)'
<1>1. CASE m # n
  <2>1. sync'[m] = sync[m]
    BY <1>1, SyncStep
  <2> QED
    BY <1>1, <2>1, WaitsKept
<1>2. CASE m = n
  <2>0. sync'[n] = SyncWith(p, h)
    BY SyncStep
  <2>1. sync'[n].peer = p
    BY <2>0 DEF SyncWith
  <2>2. GetBlocks(h) \in Message /\ GetBlocks(h).type = "GetBlocks"
    BY MessageType, LinksAre DEF GetBlocks
  <2>3. Has(link'[n][p], "GetBlocks")
    BY <2>2, IsUnderWay
  <2> QED
    BY <1>2, <2>1, <2>3 DEF Waits, InHand
<1> QED
  BY <1>1, <1>2

\* A request is taken: the answer is on its way.
LEMMA WaitsAnswered ==
  ASSUME TypeOK, Peered, Answers, \A m \in Node : Waits(m),
         NEW n \in Node, NEW p \in Node, OnGetBlocks(n, p), NEW m \in Node
  PROVE  Waits(m)'
<1>1. PICK ms, bs : /\ ms = <<Blocks(bs)>> /\ bs \in Seq(Block) /\ Writes(n, {p}, ms, p)
  BY AnswerWrites
<1>2. /\ link[p][n] # << >> /\ Head(link[p][n]).type = "GetBlocks"
      /\ sync' = sync /\ task' = task
  BY DEF OnGetBlocks, Receives
<1>3. p # n /\ p # None /\ p \in peers[n]
  BY <1>2, FromPeer DEF Answers
<1>4. PICK q : q = sync[m].peer
  OBVIOUS
<1>5. CASE q = None
  BY <1>2, <1>4, <1>5 DEF Waits
<1>6. CASE q # None
  <2>1. q \in Node /\ InHand(m, q)
    BY <1>4, <1>6 DEF Peered, Neighbours, Waits
  <2>2. CASE m = p /\ q = n
    <3>1. Blocks(bs) \in Message /\ Blocks(bs).type = "Blocks"
      BY <1>1, MessageType, LinksAre DEF Blocks
    <3>2. Writes(n, {p}, <<Blocks(bs)>>, p)
      BY <1>1
    <3>3. Has(link'[n][p], "Blocks")
      BY <1>3, <3>1, <3>2, IsUnderWay
    <3> QED
      BY <1>2, <1>4, <2>2, <3>3 DEF Waits, InHand
  <2>3. CASE ~(m = p /\ q = n)
    <3>1. Has(link[m][q], "GetBlocks") => Has(link'[m][q], "GetBlocks")
      BY <1>1, <1>3, <2>1, <2>3, StaysUnderWay
    <3>2. Has(link[q][m], "Blocks") => Has(link'[q][m], "Blocks")
      BY <1>1, <1>2, <1>3, <2>1, StaysUnderWay
    <3> QED
      BY <1>2, <1>4, <2>1, <3>1, <3>2 DEF Waits, InHand
  <2> QED
    BY <2>2, <2>3
<1> QED
  BY <1>5, <1>6

\* An answer is taken: the handler of blocks is at work.
LEMMA WaitsHandled ==
  ASSUME TypeOK, Peered, \A m \in Node : Waits(m),
         NEW n \in Node, NEW p \in Node, OnBlocks(n, p), NEW m \in Node
  PROVE  Waits(m)'
<1>1. Writes(n, {}, << >>, p)
  BY BeginWrites
<1>2. /\ link[p][n] # << >> /\ Head(link[p][n]).type = "Blocks"
      /\ sync' = sync /\ task[n].from = None
  BY DEF OnBlocks, Receives, Idle, NoTask
<1>3. p # n /\ p # None
  BY <1>2, FromPeer
<1>4. task'[n].from = p /\ \A k \in Node \ {n} : task'[k] = task[k]
  BY DEF OnBlocks, NoTask, TypeOK
<1>5. PICK q : q = sync[m].peer
  OBVIOUS
<1>6. CASE q = None
  BY <1>2, <1>5, <1>6 DEF Waits
<1>7. CASE q # None
  <2>1. q \in Node /\ InHand(m, q)
    BY <1>5, <1>7 DEF Peered, Neighbours, Waits
  <2>2. CASE m = n /\ q = p
    BY <1>2, <1>4, <1>5, <2>2 DEF Waits, InHand
  <2>3. CASE ~(m = n /\ q = p)
    <3>1. Has(link[m][q], "GetBlocks") => Has(link'[m][q], "GetBlocks")
      BY <1>1, <1>2, <1>3, <2>1, StaysUnderWay
    <3>2. Has(link[q][m], "Blocks") => Has(link'[q][m], "Blocks")
      BY <1>1, <1>3, <2>1, <2>3, StaysUnderWay
    <3>3. task[m].from = q => task'[m].from = q
      BY <1>2, <1>4, <1>7
    <3> QED
      BY <1>2, <1>5, <2>1, <3>1, <3>2, <3>3 DEF Waits, InHand
  <2> QED
    BY <2>2, <2>3
<1> QED
  BY <1>6, <1>7

LEMMA HandlerWaits ==
  ASSUME TypeOK, Peered, Answers, \A m \in Node : Waits(m), NEW n \in Node, Handler(n),
         NEW m \in Node
  PROVE  Waits(m)'
<1>1. ASSUME sync' = sync, task' = task \/ \A k \in Node : task'[k].from = task[k].from,
             NEW ps, NEW ms, NEW from, Writes(n, ps, ms, from), from # n,
             from \in Node => Head(link[from][n]).type \notin {"GetBlocks", "Blocks"}
      PROVE  Waits(m)'
  <2>1. task'[m].from = task[m].from /\ sync'[m] = sync[m]
    BY <1>1
  <2> QED
    BY <1>1, <2>1, WaitsKept
<1>2. None # n /\ None \notin Node
  BY NoneAssumption
<1>3. ASSUME NEW progress, task' = [task EXCEPT ![n] = Handled(@, progress)]
      PROVE  \A k \in Node : task'[k].from = task[k].from
  <2>1. Handled(task[n], progress).from = task[n].from
    BY DEF TypeOK, Task, Handled
  <2> QED
    BY <1>3, <2>1 DEF TypeOK
<1>4. ASSUME NEW t \in Trx, LocalTrx(n, t) PROVE Waits(m)'
  <2>1. sync' = sync /\ task' = task
    BY <1>4 DEF LocalTrx
  <2>2. \E ps, ms : Writes(n, ps, ms, None)
    BY <1>4, LocalTrxWrites
  <2> QED
    BY <1>1, <1>2, <2>1, <2>2
<1>5. ASSUME NEW p \in Node, OnTrx(n, p) PROVE Waits(m)'
  <2>1. sync' = sync /\ task' = task /\ link[p][n] # << >> /\ Head(link[p][n]).type = "Trx"
    BY <1>5 DEF OnTrx, Receives
  <2>2. Head(link[p][n]).trx \in Trx
    BY <2>1, TypedIsTypeOK, HeadType, MessageFields
  <2>3. \E ps, ms : Writes(n, ps, ms, p)
    BY <1>5, <2>2, OnTrxWrites
  <2>4. p # n
    BY <2>1, FromPeer
  <2> QED
    BY <1>1, <2>1, <2>3, <2>4
<1>6. ASSUME NEW p \in Node, OnGetStatus(n, p) PROVE Waits(m)'
  <2>1. /\ sync' = sync /\ task' = task
        /\ link[p][n] # << >> /\ Head(link[p][n]).type = "GetStatus"
    BY <1>6 DEF OnGetStatus, Receives
  <2>2. \E ps, ms : Writes(n, ps, ms, p)
    BY <1>6, AnswerWrites
  <2>3. p # n
    BY <2>1, FromPeer
  <2> QED
    BY <1>1, <2>1, <2>2, <2>3
<1>7. ASSUME NEW p \in Node, OnStatus(n, p) PROVE Waits(m)'
  <2>1. task' = task /\ link[p][n] # << >> /\ Head(link[p][n]).type = "Status"
    BY <1>7 DEF OnStatus, Receives
  <2>2. p # n /\ p \in peers[n]
    BY <1>7, <2>1, FromPeer DEF Answers
  <2>3. CASE sync' = sync /\ Writes(n, {}, << >>, p)
    BY <1>1, <2>1, <2>2, <2>3
  <2>4. CASE /\ sync' = [sync EXCEPT ![n] = SyncWith(p, Height(chain[n]) + 1)]
             /\ Writes(n, {p}, <<GetBlocks(Height(chain[n]) + 1)>>, p)
    <3>1. PICK h \in Nat : h = Height(chain[n]) + 1
      <4>1. chain[n] \in Seq(Block) \ {<< >>}
        BY DEF TypeOK
      <4> QED
        BY <4>1, TipType
    <3>2. /\ sync' = [sync EXCEPT ![n] = SyncWith(p, h)]
          /\ Writes(n, {p}, <<GetBlocks(h)>>, p)
      BY <2>4, <3>1
    <3> QED
      BY <2>1, <2>2, <3>2, WaitsAnew
  <2> QED
    BY <1>7, <2>3, <2>4, AnswerWrites
<1>8. ASSUME NEW p \in Node, OnBlock(n, p) PROVE Waits(m)'
  <2>1. /\ sync' = sync /\ link[p][n] # << >> /\ Head(link[p][n]).type = "Block"
        /\ task[n].from = None
    BY <1>8 DEF OnBlock, Receives, Idle, NoTask
  <2>2. task'[n].from = None /\ \A k \in Node \ {n} : task'[k] = task[k]
    BY <1>8 DEF OnBlock, NoTask, TypeOK
  <2>3. p # n
    BY <2>1, FromPeer
  <2>4. \A k \in Node : task'[k].from = task[k].from
    BY <2>1, <2>2
  <2>5. Writes(n, {}, << >>, p)
    BY <1>8, BeginWrites
  <2> QED
    BY <1>1, <2>1, <2>3, <2>4, <2>5
<1>9. ASSUME IgnoreBlock(n) \/ EndOrphans(n) \/ TickRound(n) PROVE Waits(m)'
  <2>1. sync' = sync /\ link' = link
    BY <1>9 DEF IgnoreBlock, EndOrphans, TickRound
  <2>2. Writes(n, {}, << >>, None)
    BY <2>1, Quiet
  <2>3. task' = task \/ \A k \in Node : task'[k].from = task[k].from
    <3>1. CASE IgnoreBlock(n)
      BY <1>3, <3>1 DEF IgnoreBlock
    <3>2. CASE EndOrphans(n)
      BY <3>2 DEF EndOrphans, TypeOK, Task
    <3>3. CASE TickRound(n)
      BY <3>3 DEF TickRound
    <3> QED
      BY <1>9, <3>1, <3>2, <3>3
  <2> QED
    BY <1>1, <1>2, <2>1, <2>2, <2>3
<1>10. ASSUME ConnectBlock(n) PROVE Waits(m)'
  <2>1. PICK b \in Block : link' = Gossip(n, BlockMsg(b))
    BY <1>10, TypedIsTypeOK, HandledType DEF ConnectBlock
  <2>2. Writes(n, Node, <<BlockMsg(b)>>, None)
    BY <2>1, GrowWrites
  <2>3. sync' = sync /\ \A k \in Node : task'[k].from = task[k].from
    BY <1>3, <1>10 DEF ConnectBlock
  <2> QED
    BY <1>1, <1>2, <2>2, <2>3
<1>11. ASSUME DeferBlock(n) PROVE Waits(m)'
  <2>1. \A k \in Node : task'[k].from = task[k].from
    BY <1>3, <1>11 DEF DeferBlock
  <2>2. m # n => task'[m] = task[m]
    BY <1>11 DEF DeferBlock, TypeOK
  <2>3. CASE sync' = sync /\ Writes(n, {}, << >>, None)
    BY <1>1, <1>2, <2>1, <2>3
  <2>4. ASSUME NEW p \in peers[n], NEW h \in Nat, sync' = [sync EXCEPT ![n] = SyncWith(p, h)],
               Writes(n, {p}, <<GetBlocks(h)>>, None)
        PROVE  Waits(m)'
    BY <1>2, <2>2, <2>4, WaitsAnew
  <2> QED
    BY <1>11, <2>3, <2>4, DeferWrites
<1>12. ASSUME ConnectOrphan(n) PROVE Waits(m)'
  <2> DEFINE bucket == Bucket(orphans[n], Hash(Tip(chain[n])))
  <2>1. PICK i \in DOMAIN bucket : link' = Gossip(n, BlockMsg(bucket[i]))
    BY <1>12 DEF ConnectOrphan
  <2>2. bucket \in Seq(Block)
    BY TypedIsTypeOK, BucketType DEF Typed
  <2>3. bucket[i] \in Block
    BY <2>1, <2>2, ElementOfSeq, LenProperties
  <2>4. Writes(n, Node, <<BlockMsg(bucket[i])>>, None)
    BY <2>1, <2>3, GrowWrites
  <2>5. sync' = sync /\ task' = task
    BY <1>12 DEF ConnectOrphan
  <2> QED
    BY <1>1, <1>2, <2>4, <2>5
<1>13. ASSUME Paginate(n) PROVE Waits(m)'
  <2>1. m # n => task'[m] = task[m]
    BY <1>13 DEF Paginate, TypeOK
  <2>2. CASE sync[n].peer # task[n].from /\ sync' = sync /\ Writes(n, {}, << >>, None)
    <3>1. sync[m].peer # None /\ task[m].from = sync[m].peer => task'[m].from = sync[m].peer
      BY <2>1, <2>2
    <3>2. sync'[m] = sync[m]
      BY <2>2
    <3> QED
      BY <1>2, <2>2, <3>1, <3>2, WaitsKept
  <2>3. ASSUME sync[n].peer = task[n].from, NEW h \in Nat,
               sync' = [sync EXCEPT ![n] = SyncWith(sync[n].peer, h)],
               Writes(n, {sync[n].peer}, <<GetBlocks(h)>>, None)
        PROVE  Waits(m)'
    <3>1. sync[n].peer \in peers[n]
      BY <1>13, <2>3 DEF Paginate, Paging, Peered
    <3> QED
      BY <1>2, <2>1, <2>3, <3>1, WaitsAnew
  <2>4. CASE sync' = [sync EXCEPT ![n] = NoSync] /\ Writes(n, {}, << >>, None)
    <3>1. CASE m = n
      <4>1. sync'[m] = NoSync
        BY <2>4, <3>1, SyncStep
      <4> QED
        BY <4>1 DEF NoSync, Waits
    <3>2. CASE m # n
      <4>1. sync'[m] = sync[m]
        BY <2>4, <3>2, SyncStep
      <4> QED
        BY <1>2, <2>1, <2>4, <3>2, <4>1, WaitsKept
    <3> QED
      BY <3>1, <3>2
  <2> QED
    BY <1>13, <2>2, <2>3, <2>4, PageWrites
<1>14. ASSUME Propose(n) PROVE Waits(m)'
  <2>1. PICK r \in Nat : TickPropose(n, r)
    BY <1>14, B4nAssumption DEF Propose
  <2>2. PICK b \in Block : link' = Gossip(n, BlockMsg(b))
    BY <2>1, TickAppends
  <2>3. Writes(n, Node, <<BlockMsg(b)>>, None)
    BY <2>2, GrowWrites
  <2>4. sync' = sync /\ task' = task
    BY <2>1 DEF TickPropose
  <2> QED
    BY <1>1, <1>2, <2>3, <2>4
<1> QED
  BY <1>4, <1>5, <1>6, <1>7, <1>8, <1>9, <1>10, <1>11, <1>12, <1>13, <1>14,
     WaitsAnswered, WaitsHandled
  DEF Handler, Continue

LEMMA SteadyInit ==
  ASSUME ConnectedInit
  PROVE  Steady /\ \A n \in Node : Waits(n)
BY DEF ConnectedInit, Fresh, NoSync, Steady, Neighbours, Waits

LEMMA SteadyStep ==
  ASSUME Undisturbed, Invariant, Steady, [Next]_vars
  PROVE  Steady' /\ ((\A n \in Node : Waits(n)) => (\A n \in Node : Waits(n))')
<1>1. TypeOK /\ Started
  BY DEF Invariant
<1>2. CASE UNCHANGED vars
  BY <1>2 DEF vars, net, Steady, Waits, InHand
<1>3. ASSUME NEW n \in Node, Handler(n)
      PROVE  Steady' /\ ((\A m \in Node : Waits(m)) => (\A m \in Node : Waits(m))')
  BY <1>1, <1>3, SteadyIsPeered, HandlerSteady, HandlerWaits
<1> QED
  BY <1>1, <1>2, <1>3, OnlyHandlers

\* While connections hold and processes run on, is_syncing, which keeps on_tick from
\* proposing, is never set without a request, an answer or a handler of an answer.
THEOREM SyncHasReason ==
  ASSUME Undisturbed
  PROVE  ConnectedSpec => []SyncInProgress
<1>1. ConnectedInit => Steady /\ \A n \in Node : Waits(n)
  BY SteadyInit
<1>2. /\ Invariant /\ Steady /\ (\A n \in Node : Waits(n)) /\ [Next]_vars
      => Steady' /\ (\A n \in Node : Waits(n))'
  BY SteadyStep
<1>3. Steady /\ (\A n \in Node : Waits(n)) => SyncInProgress
  BY SteadyIsPeered, SyncIs DEF Waits
<1> QED
  BY <1>1, <1>2, <1>3, Inductive, PTL DEF ConnectedSpec

-----------------------------------------------------------------------------
(* A network that comes up *)

\* No two nodes dial each other.
OneDialler == \A d \in Dial : <<d[2], d[1]>> \notin Dial

\* What add_peer sends first: a Status, with nothing before it but a GetStatus.
Greeting(w) ==
  \/ 1 \in DOMAIN w /\ w[1].type = "Status"
  \/ 2 \in DOMAIN w /\ w[1].type = "GetStatus" /\ w[2].type = "Status"

\* A node that is joined to another has a sender for it or still is to hear of it, and
\* finds the greeting in front when it does.
Meeting ==
  /\ conn \subseteq Dial
  /\ \A n, p \in Node : up[n][p] = IF Joined(n, p) /\ p \notin peers[n] THEN 1 ELSE 0
  /\ \A n \in Node : \A p \in peers[n] : Joined(n, p)
  /\ \A n, p \in Node : n \in peers[p] /\ p \notin peers[n] => Greeting(link[p][n])

LEMMA MeetingAnswers ==
  ASSUME TypeOK, Peered, Meeting, Introduced
  PROVE  Answers
<1>1. ASSUME NEW n \in Node, NEW p \in Node, OnGetBlocks(n, p), p \notin peers[n] PROVE FALSE
  <2>1. link[p][n] # << >> /\ Head(link[p][n]).type = "GetBlocks"
    BY <1>1 DEF OnGetBlocks, Receives
  <2>2. Head(link[p][n]) = link[p][n][1]
    BY <2>1, LinksAre, TailIs
  <2>3. Greeting(link[p][n])
    BY <1>1, <2>1, FromPeer DEF Meeting
  <2> QED
    BY <2>1, <2>2, <2>3 DEF Greeting
<1> QED
  BY <1>1 DEF Introduced, Answers

\* A greeting stays in front when more is sent.
LEMMA GreetingStays ==
  ASSUME NEW S, NEW w \in Seq(S), NEW ms \in Seq(S), Greeting(w)
  PROVE  Greeting(w \o ms)
<1>1. Len(w) \in Nat /\ DOMAIN w = 1 .. Len(w) /\ Len(ms) \in Nat
  BY LenProperties
<1>2. 1 \in 1 .. Len(w)
  BY <1>1 DEF Greeting
<1>3. \A i \in 1 .. Len(w) : i \in 1 .. Len(w) + Len(ms) /\ (w \o ms)[i] = w[i]
  BY <1>1, ConcatProperties
<1>4. w \o ms \in Seq(S) /\ DOMAIN (w \o ms) = 1 .. Len(w) + Len(ms)
  BY ConcatProperties, LenProperties
<1>5. CASE w[1].type = "Status"
  BY <1>2, <1>3, <1>4, <1>5 DEF Greeting
<1>6. CASE 2 \in DOMAIN w /\ w[1].type = "GetStatus" /\ w[2].type = "Status"
  <2>1. 2 \in DOMAIN (w \o ms) /\ (w \o ms)[1] = w[1] /\ (w \o ms)[2] = w[2]
    BY <1>1, <1>2, <1>3, <1>4, <1>6
  <2> QED
    BY <1>6, <2>1 DEF Greeting
<1> QED
  BY <1>5, <1>6 DEF Greeting

\* What is taken from before a greeting is the GetStatus, unless it is the Status.
LEMMA GreetingLeft ==
  ASSUME NEW S, NEW w \in Seq(S), w # << >>, Greeting(w), Head(w).type # "Status"
  PROVE  Head(w).type = "GetStatus" /\ Greeting(Tail(w))
<1>1. Head(w) = w[1] /\ Len(w) \in Nat /\ DOMAIN w = 1 .. Len(w)
      /\ DOMAIN Tail(w) = 1 .. Len(w) - 1 /\ \A i \in 1 .. Len(w) - 1 : Tail(w)[i] = w[i + 1]
  BY TailIs
<1>2. 2 \in DOMAIN w /\ w[1].type = "GetStatus" /\ w[2].type = "Status"
  BY <1>1 DEF Greeting
<1>3. 1 \in 1 .. Len(w) - 1 /\ 1 + 1 = 2
  BY <1>1, <1>2
<1>4. Tail(w)[1] = w[2] /\ 1 \in DOMAIN Tail(w)
  BY <1>1, <1>3
<1> QED
  BY <1>1, <1>2, <1>4 DEF Greeting

LEMMA WritesMeeting ==
  ASSUME TypeOK, Peered, Meeting, NEW n \in Node, NEW ps, NEW ms, NEW from,
         Writes(n, ps, ms, from), UNCHANGED <<conn, up, peers>>, from # n,
         from \in Node /\ from \notin peers[n] => Head(link[from][n]).type # "Status"
  PROVE  Meeting'
<1>1. ASSUME NEW q \in Node, NEW r \in Node, r \in peers[q], q \notin peers[r]
      PROVE  Greeting(link'[q][r])
  <2>1. link[q][r] \in Seq(Message) /\ ms \in Seq(Message) /\ Greeting(link[q][r])
    BY <1>1, LinksAre DEF Writes, Meeting
  <2>2. CASE q = from /\ r = n
    <3>1. link'[q][r] = Tail(link[q][r]) /\ link[q][r] # << >>
      BY <2>2 DEF Writes, Longer
    <3> QED
      BY <1>1, <2>1, <2>2, <3>1, GreetingLeft
  <2>3. CASE ~(q = from /\ r = n)
    <3>1. link'[q][r] = link[q][r] \/ link'[q][r] = link[q][r] \o ms
      BY <2>3 DEF Writes, Longer
    <3> QED
      BY <2>1, <3>1, GreetingStays
  <2> QED
    BY <2>2, <2>3
<1> QED
  BY <1>1 DEF Meeting, Joined

\* Each handler writes to its peers and takes one message at most: a Status in OnStatus.
LEMMA HandlerWrites ==
  ASSUME TypeOK, Peered, NEW n \in Node, Handler(n)
  PROVE  \E ps, ms, from :
           /\ Writes(n, ps, ms, from) /\ from # n
           /\ from \in Node /\ Head(link[from][n]).type = "Status" => OnStatus(n, from)
<1> DEFINE Some(from) == \E ps, ms : Writes(n, ps, ms, from)
<1>1. ASSUME Some(None)
      PROVE  \E ps, ms, from :
               /\ Writes(n, ps, ms, from) /\ from # n
               /\ from \in Node /\ Head(link[from][n]).type = "Status" => OnStatus(n, from)
  BY <1>1, NoneAssumption
<1>2. ASSUME NEW p \in Node, Some(p), link[p][n] # << >>,
             Head(link[p][n]).type = "Status" => OnStatus(n, p)
      PROVE  \E ps, ms, from :
               /\ Writes(n, ps, ms, from) /\ from # n
               /\ from \in Node /\ Head(link[from][n]).type = "Status" => OnStatus(n, from)
  <2>1. p # n
    BY <1>2, FromPeer
  <2> QED
    BY <1>2, <2>1
<1>3. ASSUME NEW t \in Trx, LocalTrx(n, t) PROVE Some(None)
  BY <1>3, LocalTrxWrites
<1>4. ASSUME NEW p \in Node, OnTrx(n, p)
      PROVE  Some(p) /\ link[p][n] # << >> /\ Head(link[p][n]).type # "Status"
  <2>1. link[p][n] # << >> /\ Head(link[p][n]).type = "Trx"
    BY <1>4 DEF OnTrx, Receives
  <2>2. Head(link[p][n]).trx \in Trx
    BY <2>1, TypedIsTypeOK, HeadType, MessageFields
  <2>3. Some(p)
    BY <1>4, <2>2, OnTrxWrites
  <2> QED
    BY <2>1, <2>3
<1>5. ASSUME NEW p \in Node, OnGetStatus(n, p) \/ OnStatus(n, p) \/ OnGetBlocks(n, p)
      PROVE  /\ Some(p) /\ link[p][n] # << >>
             /\ Head(link[p][n]).type = "Status" => OnStatus(n, p)
  <2>1. Some(p)
    BY <1>5, AnswerWrites
  <2>2. /\ link[p][n] # << >>
        /\ Head(link[p][n]).type = "Status" => OnStatus(n, p)
    BY <1>5 DEF OnGetStatus, OnStatus, OnGetBlocks, Receives
  <2> QED
    BY <2>1, <2>2
<1>6. ASSUME NEW p \in Node, OnBlock(n, p) \/ OnBlocks(n, p)
      PROVE  Some(p) /\ link[p][n] # << >> /\ Head(link[p][n]).type # "Status"
  <2>1. Some(p)
    BY <1>6, BeginWrites
  <2> QED
    BY <1>6, <2>1 DEF OnBlock, OnBlocks, Receives
<1>7. ASSUME link' = link PROVE Some(None)
  BY <1>7, Quiet
<1>8. ASSUME NEW b \in Block, link' = Gossip(n, BlockMsg(b)) PROVE Some(None)
  BY <1>8, GrowWrites
<1>9. ASSUME IgnoreBlock(n) \/ EndOrphans(n) \/ TickRound(n) PROVE Some(None)
  BY <1>7, <1>9 DEF IgnoreBlock, EndOrphans, TickRound
<1>10. ASSUME ConnectBlock(n) PROVE Some(None)
  <2>1. Head(task[n].rest) \in Block
    BY <1>10, TypedIsTypeOK, HandledType DEF ConnectBlock
  <2> QED
    BY <1>8, <1>10, <2>1 DEF ConnectBlock
<1>11. ASSUME DeferBlock(n) PROVE Some(None)
  BY <1>11, DeferWrites
<1>12. ASSUME ConnectOrphan(n) PROVE Some(None)
  <2> DEFINE bucket == Bucket(orphans[n], Hash(Tip(chain[n])))
  <2>1. PICK i \in DOMAIN bucket : link' = Gossip(n, BlockMsg(bucket[i]))
    BY <1>12 DEF ConnectOrphan
  <2>2. bucket \in Seq(Block)
    BY TypedIsTypeOK, BucketType DEF Typed
  <2>3. bucket[i] \in Block
    BY <2>1, <2>2, ElementOfSeq, LenProperties
  <2> QED
    BY <1>8, <2>1, <2>3
<1>13. ASSUME Paginate(n) PROVE Some(None)
  BY <1>13, PageWrites
<1>14. ASSUME Propose(n) PROVE Some(None)
  <2>1. PICK r \in Nat : TickPropose(n, r)
    BY <1>14, B4nAssumption DEF Propose
  <2>2. PICK b \in Block : link' = Gossip(n, BlockMsg(b))
    BY <2>1, TickAppends
  <2> QED
    BY <1>8, <2>2
<1> HIDE DEF Some
<1> QED
  BY <1>1, <1>2, <1>3, <1>4, <1>5, <1>6, <1>9, <1>10, <1>11, <1>12, <1>13, <1>14
  DEF Handler, Continue

LEMMA HandlerMeeting ==
  ASSUME TypeOK, Peered, Meeting, Introduced, NEW n \in Node, Handler(n)
  PROVE  Meeting'
<1>1. PICK ps, ms, from :
        /\ Writes(n, ps, ms, from) /\ from # n
        /\ from \in Node /\ Head(link[from][n]).type = "Status" => OnStatus(n, from)
  BY HandlerWrites
<1>2. from \in Node /\ from \notin peers[n] => Head(link[from][n]).type # "Status"
  BY <1>1 DEF Introduced
<1>3. UNCHANGED <<conn, up, peers>>
  BY HandlerKeeps
<1> QED
  BY <1>1, <1>2, <1>3, WritesMeeting

\* add_peer is called once for each connection, and nothing was sent to the peer before.
LEMMA AddPeerMeets ==
  ASSUME TypeOK, Peered, Meeting, NEW n \in Node, NEW p \in Node, AddPeer(n, p)
  PROVE  /\ Peered' /\ Meeting'
         /\ (\A m \in Node : Waits(m)) => (\A m \in Node : Waits(m))'
<1> DEFINE greeting == <<GetStatus, Status(Height(chain[n]))>>
<1>1. Joined(n, p) /\ p \notin peers[n] /\ up[n][p] = 1
  BY DEF AddPeer, Meeting
<1>2. p \in Neighbours(n)
  BY <1>1 DEF Joined, Meeting, Neighbours
<1>3. link[n][p] = << >>
  BY <1>1 DEF Peered
<1>4. greeting \in Seq(Message)
  <2>1. Height(chain[n]) \in Nat
    <3>1. chain[n] \in Seq(Block) \ {<< >>}
      BY DEF TypeOK
    <3> QED
      BY <3>1, TipType
  <2>2. GetStatus \in Message /\ Status(Height(chain[n])) \in Message
    BY <2>1, MessageType, LinksAre
  <2> QED
    BY <2>2, TuplesType
<1>5. Greeting(greeting)
  <2>1. 2 \in DOMAIN greeting
    OBVIOUS
  <2>2. greeting[1].type = "GetStatus" /\ greeting[2].type = "Status"
    BY DEF GetStatus, Status
  <2> QED
    BY <2>1, <2>2 DEF Greeting
<1> HIDE DEF greeting
<1>6. \A q, r \in Node :
        link'[q][r] = IF q = n /\ r = p THEN link[q][r] \o greeting ELSE link[q][r]
  <2>1. link' = [link EXCEPT ![n][p] = @ \o greeting]
    BY DEF AddPeer, greeting
  <2> DEFINE S == Seq(MessageOver(Block))
  <2>2. link \in [Node -> [Node -> S]]
    BY LinksAre DEF Links
  <2> HIDE DEF S
  <2> QED
    BY <2>1, <2>2
<1>7. link'[n][p] = greeting
  BY <1>3, <1>4, <1>6, ConcatEmptySeq
<1>8. \A q \in Node : \A r : r \in peers'[q] <=> r \in peers[q] \/ (q = n /\ r = p)
  <2>1. \A q \in Node : peers'[q] = IF q = n THEN peers[q] \cup {p} ELSE peers[q]
    BY DEF AddPeer, TypeOK
  <2> QED
    BY <2>1
<1>9. \A q, r \in Node : up'[q][r] = IF q = n /\ r = p THEN 0 ELSE up[q][r]
  <2>1. up \in [Node -> [Node -> Nat]] /\ up' = [up EXCEPT ![n][p] = @ - 1]
    BY DEF AddPeer, TypeOK
  <2>2. up' = [up EXCEPT ![n][p] = 0]
    BY <1>1, <2>1
  <2> QED
    BY <2>1, <2>2
<1>10. UNCHANGED <<conn, down, sync, task>>
  BY DEF AddPeer
<1>11. Peered'
  <2>1. ASSUME NEW q \in Node, NEW r \in Node, link'[q][r] # << >>
        PROVE  r \in peers'[q]
    BY <1>6, <1>8, <2>1 DEF Peered
  <2>2. ASSUME NEW q \in Node
        PROVE  peers'[q] \subseteq Neighbours(q) /\ sync'[q].peer \in peers'[q] \cup {None}
    BY <1>2, <1>8, <1>10 DEF Peered
  <2>3. \A q, r \in Node : down'[q][r] = 0
    BY <1>10 DEF Peered
  <2> QED
    BY <2>1, <2>2, <2>3 DEF Peered
<1>12. Meeting'
  <2>1. ASSUME NEW q \in Node, NEW r \in Node, r \in peers'[q], q \notin peers'[r]
        PROVE  Greeting(link'[q][r])
    <3>1. CASE q = n /\ r = p
      BY <1>5, <1>7, <3>1
    <3>2. CASE ~(q = n /\ r = p)
      BY <1>6, <1>8, <2>1, <3>2 DEF Meeting
    <3> QED
      BY <3>1, <3>2
  <2>2. \A q, r \in Node : Joined(q, r)' <=> Joined(q, r)
    BY <1>10 DEF Joined
  <2>3. ASSUME NEW q \in Node, NEW r \in Node
        PROVE  up'[q][r] = IF Joined(q, r)' /\ r \notin peers'[q] THEN 1 ELSE 0
    BY <1>8, <1>9, <2>2 DEF Meeting
  <2>4. ASSUME NEW q \in Node, NEW r \in peers'[q] PROVE Joined(q, r)'
    BY <1>1, <1>8, <1>10 DEF Meeting, Joined
  <2>5. conn' \subseteq Dial
    BY <1>10 DEF Meeting
  <2> QED
    BY <2>1, <2>3, <2>4, <2>5 DEF Meeting
<1>13. ASSUME NEW q \in Node, NEW r \in Node, NEW type, Has(link[q][r], type)
       PROVE  Has(link'[q][r], type)
  <2>1. link[q][r] \in Seq(Message)
    BY LinksAre
  <2> QED
    BY <1>4, <1>6, <1>13, <2>1, HasAppended
<1>14. ASSUME NEW m \in Node, Waits(m) PROVE Waits(m)'
  <2>1. PICK q : q = sync[m].peer
    OBVIOUS
  <2>2. CASE q = None
    BY <1>10, <2>1, <2>2 DEF Waits
  <2>3. CASE q # None
    <3>1. q \in Node /\ InHand(m, q)
      BY <1>14, <2>1, <2>3 DEF Peered, Neighbours, Waits
    <3> QED
      BY <1>10, <1>13, <2>1, <3>1 DEF Waits, InHand
  <2> QED
    BY <2>2, <2>3
<1> QED
  BY <1>11, <1>12, <1>14

LEMMA ConnectMeets ==
  ASSUME TypeOK, OneDialler, Peered, Meeting, NEW d \in Dial, Connect(d)
  PROVE  /\ Peered' /\ Meeting'
         /\ (\A m \in Node : Waits(m)) => (\A m \in Node : Waits(m))'
<1>1. PICK a \in Node, b \in Node : d = <<a, b>> /\ a # b
  BY B4nAssumption
<1>2. <<a, b>> \notin conn /\ <<b, a>> \notin conn /\ conn' = conn \cup {<<a, b>>}
  BY <1>1 DEF Connect, OneDialler, Meeting
<1>3. b \notin peers[a] /\ a \notin peers[b] /\ up[a][b] = 0 /\ up[b][a] = 0
  BY <1>2 DEF Meeting, Joined
<1>4. \A q, r \in Node :
        up'[q][r] = IF <<q, r>> \in {<<a, b>>, <<b, a>>} THEN 1 ELSE up[q][r]
  <2>1. up \in [Node -> [Node -> Nat]]
    BY DEF TypeOK
  <2>2. up' = [up EXCEPT ![a][b] = @ + 1, ![b][a] = @ + 1]
    BY <1>1 DEF Connect
  <2> DEFINE over == [up EXCEPT ![a][b] = 1]
  <2>3. up' = [over EXCEPT ![b][a] = 1]
    BY <1>1, <1>3, <2>1, <2>2
  <2>4. over \in [Node -> [Node -> Nat]]
        /\ \A q, r \in Node : over[q][r] = IF q = a /\ r = b THEN 1 ELSE up[q][r]
    BY <2>1
  <2> HIDE DEF over
  <2>5. \A q, r \in Node : up'[q][r] = IF q = b /\ r = a THEN 1 ELSE over[q][r]
    BY <2>3, <2>4
  <2> QED
    BY <2>4, <2>5
<1>5. UNCHANGED <<down, sync, task, link, peers>>
  BY DEF Connect
<1>6. \A q, r \in Node :
        Joined(q, r)' <=> Joined(q, r) \/ <<q, r>> \in {<<a, b>>, <<b, a>>}
  BY <1>2 DEF Joined
<1>7. Meeting'
  <2>1. ASSUME NEW q \in Node, NEW r \in Node
        PROVE  up'[q][r] = IF Joined(q, r)' /\ r \notin peers'[q] THEN 1 ELSE 0
    BY <1>3, <1>4, <1>5, <1>6 DEF Meeting
  <2>2. conn' \subseteq Dial
    BY <1>1, <1>2 DEF Meeting
  <2>3. ASSUME NEW q \in Node, NEW r \in peers'[q] PROVE Joined(q, r)'
    <3>1. r \in Node
      BY <1>5 DEF Peered, Neighbours
    <3> QED
      BY <1>5, <1>6, <3>1 DEF Meeting
  <2> QED
    BY <1>5, <2>1, <2>2, <2>3 DEF Meeting
<1> QED
  BY <1>5, <1>7 DEF Peered, Waits, InHand

\* No other step is taken: nothing fails, and nothing is lost of what is sent to a peer.
LEMMA MeetingStep ==
  ASSUME Undisturbed, OneDialler, TypeOK, Started, Peered, Meeting, [Next /\ Introduced]_vars
  PROVE  /\ Peered' /\ Meeting'
         /\ (\A m \in Node : Waits(m)) => (\A m \in Node : Waits(m))'
<1>1. CASE UNCHANGED vars
  BY <1>1 DEF vars, net, Peered, Meeting, Joined, Waits, InHand
<1>2. ASSUME NEW d \in Dial, Break(d) PROVE FALSE
  <2>1. breaks \in Nat
    BY DEF TypeOK
  <2> QED
    BY <1>2, <2>1 DEF Break, Undisturbed
<1>3. ASSUME NEW n \in Node, NEW p \in Node, Lose(n, p) PROVE FALSE
  <2>1. link[n][p] # << >>
    BY <1>3 DEF Lose
  <2>2. p \in peers[n] /\ up[n][p] = 0 /\ down[n][p] = 0 /\ Joined(n, p)
    BY <2>1 DEF Peered, Meeting
  <2> QED
    BY <1>3, <2>2 DEF Lose
<1>4. ASSUME NEW n \in Node, Restart(n) PROVE FALSE
  <2>1. boot[n] \in Nat /\ MaxBoots[n] \in Nat /\ MaxBoots[n] <= 1 /\ 1 <= boot[n]
    BY B4nAssumption DEF TypeOK, Started, Undisturbed
  <2>2. boot[n] < MaxBoots[n]
    BY <1>4 DEF Restart
  <2> QED
    BY <2>1, <2>2
<1>5. ASSUME NEW n \in Node, NEW p \in Node, RemovePeer(n, p) PROVE FALSE
  BY <1>5 DEF RemovePeer, Peered
<1>6. ASSUME NEW n \in Node, Handler(n), Introduced
      PROVE  /\ Peered' /\ Meeting'
             /\ (\A m \in Node : Waits(m)) => (\A m \in Node : Waits(m))'
  BY <1>6, MeetingAnswers, HandlerPeered, HandlerMeeting, HandlerWaits
<1>7. ASSUME NEW n \in Node, NEW p \in Node, Receive(n, p)
      PROVE  Handler(n) \/ AddPeer(n, p)
  BY <1>5, <1>7 DEF Receive, Handler
<1>8. ASSUME NEW n \in Node, NodeStep(n), Introduced
      PROVE  /\ Peered' /\ Meeting'
             /\ (\A m \in Node : Waits(m)) => (\A m \in Node : Waits(m))'
  <2>1. Handler(n) \/ \E p \in Node : AddPeer(n, p)
    BY <1>7, <1>8 DEF NodeStep, Handler
  <2> QED
    BY <1>6, <1>8, <2>1, AddPeerMeets
<1>9. ASSUME EnvStep PROVE \E d \in Dial : Connect(d)
  BY <1>2, <1>3, <1>4, <1>9 DEF EnvStep
<1> QED
  BY <1>1, <1>8, <1>9, ConnectMeets DEF Next

\* From a cold start on, a sync can come to wait for nothing only because the Status of a
\* peer is handled before add_peer, so that request_blocks drops the request
\* (node.rs:492-499): where that does not happen, is_syncing is never set without a request,
\* an answer or a handler of an answer.
THEOREM SyncHasReasonOnceMet ==
  ASSUME Undisturbed, OneDialler
  PROVE  IntroducedSpec => []SyncInProgress
<1>1. Init => Peered /\ Meeting /\ \A n \in Node : Waits(n)
  BY DEF Init, Fresh, NoSync, Peered, Meeting, Joined, Waits
<1>2. /\ Invariant /\ Peered /\ Meeting /\ (\A n \in Node : Waits(n))
      /\ [Next /\ Introduced]_vars
      => Peered' /\ Meeting' /\ (\A n \in Node : Waits(n))'
  BY MeetingStep DEF Invariant
<1>3. Peered /\ (\A n \in Node : Waits(n)) => SyncInProgress
  BY SyncIs DEF Waits
<1>4. [Next /\ Introduced]_vars => [Next]_vars
  OBVIOUS
<1>5. Spec => []Invariant
  BY Inductive
<1> QED
  BY <1>1, <1>2, <1>3, <1>4, <1>5, PTL DEF IntroducedSpec, Spec

-----------------------------------------------------------------------------
(* No transaction is confirmed twice *)

\* Two premises: no pool refuses or forgets a transaction, ...
RoomInPools ==
  \A n \in Node : Len(pool[n].queue) < MAX_MEMPOOL /\ Cardinality(pool[n].seen) < MAX_SEEN

\* ... and no validator ever has an orphan that fits its chain, so that it adds blocks
\* only where it cleans its pool.
NoOrphanFits ==
  \A n \in Node : IsValidator(n) =>
    \A h \in DOMAIN orphans[n] : \A i \in DOMAIN orphans[n][h] :
      ~ValidateBlock(Tip(chain[n]), orphans[n][h][i])

TrxOf(b) == {b.transactions[k] : k \in DOMAIN b.transactions}

\* The blocks whose transactions are all in A.
Within(A) == {b \in Block : TrxOf(b) \subseteq A}

\* The transactions of the blocks in a message
Contents(m) == IF m.type = "Block" THEN TrxOf(m.block)
               ELSE IF m.type = "Blocks" THEN Confirmed(m.blocks) ELSE {}

\* The receiver B knows t or is told of it in w before the message at k.
Told(w, k, t, B) == t \in B \/ \E j \in DOMAIN w : j < k /\ w[j] = TrxMsg(t)

\* On the link w, the receiver, which knows B, is told of all that the sender knows, A,
\* and of the transactions of each block before the block.
Carries(w, A, B) ==
  /\ \A t \in A : Told(w, Len(w) + 1, t, B)
  /\ \A i \in DOMAIN w : \A t \in Contents(w[i]) : Told(w, i, t, B)

Tells == \A n \in Node : \A p \in Neighbours(n) :
           Carries(link[n][p], pool[n].seen, pool[p].seen)

\* A node with the pool p knows the transactions of its queue and of all its blocks.
Remembers(p, c, rest, o) ==
  /\ Queued(p) \subseteq p.seen /\ IsFiniteSet(p.seen)
  /\ c \in Seq(Within(p.seen)) \ {<< >>}
  /\ rest \in Seq(Within(p.seen))
  /\ OrphansOver(Within(p.seen), o)

Distinct(q) == \A i, j \in DOMAIN q : q[i] = q[j] => i = j

\* What waits in the pool of a validator is not on its chain, and nothing waits twice.
Ready(n, p, c) ==
  Distinct(p.queue) /\ (IsValidator(n) => Queued(p) \cap Confirmed(c) = {})

Orderly(n) ==
  /\ Remembers(pool[n], chain[n], task[n].rest, orphans[n])
  /\ Ready(n, pool[n], chain[n])

\* A hash confirms what the chain that it is the hash of does.
Leads(c) ==
  /\ \A i, j \in DOMAIN c : j <= i => TrxOf(c[j]) \subseteq Confirmed(Hash(c[i]))
  /\ Confirmed(Hash(Tip(c))) \subseteq Confirmed(c)

\* No block that was signed confirms what a block before it does.
SignedOnce == \A b \in signed : TrxOf(b) \cap Confirmed(b.previous_hash) = {}

-----------------------------------------------------------------------------
(* Transactions of sequences of blocks *)

LEMMA ConfirmedAppend ==
  ASSUME NEW S, NEW c \in Seq(S), NEW b \in S
  PROVE  Confirmed(Append(c, b)) = Confirmed(c) \cup TrxOf(b)
<1> DEFINE d == Append(c, b)
<1>1. /\ Len(c) \in Nat /\ DOMAIN c = 1 .. Len(c) /\ DOMAIN d = 1 .. Len(c) + 1
      /\ d[Len(c) + 1] = b /\ \A i \in 1 .. Len(c) : d[i] = c[i]
  BY AppendProperties, LenProperties
<1> HIDE DEF d
<1>2. \A t : t \in Confirmed(d) <=> \E i \in DOMAIN d : t \in TrxOf(d[i])
  BY DEF Confirmed, TrxOf
<1>3. \A t : t \in Confirmed(c) <=> \E i \in DOMAIN c : t \in TrxOf(c[i])
  BY DEF Confirmed, TrxOf
<1>4. ASSUME NEW t, t \in Confirmed(d) PROVE t \in Confirmed(c) \cup TrxOf(b)
  <2>1. PICK i \in 1 .. Len(c) + 1 : t \in TrxOf(d[i])
    BY <1>1, <1>2, <1>4
  <2>2. i = Len(c) + 1 \/ i \in 1 .. Len(c)
    BY <1>1
  <2> QED
    BY <1>1, <1>3, <2>1, <2>2
<1>5. ASSUME NEW t, t \in Confirmed(c) PROVE t \in Confirmed(d)
  <2>1. PICK i \in 1 .. Len(c) : t \in TrxOf(c[i])
    BY <1>1, <1>3, <1>5
  <2>2. i \in 1 .. Len(c) + 1
    BY <1>1
  <2> QED
    BY <1>1, <1>2, <2>1, <2>2
<1>6. Len(c) + 1 \in 1 .. Len(c) + 1
  BY <1>1
<1>7. \A t \in TrxOf(b) : t \in Confirmed(d)
  BY <1>1, <1>2, <1>6
<1> QED
  BY <1>4, <1>5, <1>7 DEF d

LEMMA ConfirmedWithin ==
  ASSUME NEW A, NEW c
  PROVE  /\ c \in Seq(Within(A)) => Confirmed(c) \subseteq A
         /\ c \in Seq(Block) /\ Confirmed(c) \subseteq A => c \in Seq(Within(A))
<1>1. \A t : t \in Confirmed(c) <=> \E i \in DOMAIN c : t \in TrxOf(c[i])
  BY DEF Confirmed, TrxOf
<1>2. ASSUME c \in Seq(Within(A)) PROVE Confirmed(c) \subseteq A
  <2>1. \A i \in DOMAIN c : c[i] \in Within(A)
    BY <1>2, ElementOfSeq, LenProperties
  <2> QED
    BY <1>1, <2>1 DEF Within
<1>3. ASSUME c \in Seq(Block), Confirmed(c) \subseteq A PROVE c \in Seq(Within(A))
  <2>1. /\ Len(c) \in Nat /\ DOMAIN c = 1 .. Len(c) /\ c \in [1 .. Len(c) -> Block]
        /\ \A i \in DOMAIN c : c[i] \in Block
    BY <1>3, LenProperties, ElementOfSeq
  <2>2. \A i \in DOMAIN c : c[i] \in Within(A)
    BY <1>1, <1>3, <2>1 DEF Within
  <2>3. c \in [1 .. Len(c) -> Within(A)]
    BY <2>1, <2>2
  <2> QED
    BY <2>1, <2>3, FunctionIsSeq
<1> QED
  BY <1>2, <1>3

LEMMA WithinGrows ==
  ASSUME NEW A, NEW B, A \subseteq B
  PROVE  Seq(Within(A)) \subseteq Seq(Within(B)) /\ Within(A) \subseteq Within(B)
<1>1. Within(A) \subseteq Within(B)
  BY DEF Within
<1> QED
  BY <1>1, SeqDef

\* A hash is the path to a block: it confirms what the path before it does, and what
\* the block does.
LEMMA HashConfirms ==
  ASSUME NEW b \in Block
  PROVE  Confirmed(Hash(b)) = Confirmed(b.previous_hash) \cup TrxOf(b)
<1>1. HeaderOf(b) \in Header /\ b.previous_hash \in Seq(Header)
  BY DEF Block, Header, HeaderOf, Hash32
<1>2. TrxOf(HeaderOf(b)) = TrxOf(b)
  BY DEF TrxOf, HeaderOf
<1> QED
  BY <1>1, <1>2, ConfirmedAppend DEF Hash

LEMMA LeadsOn ==
  ASSUME NEW c \in Seq(Block) \ {<< >>}, NEW b \in Block, ValidateBlock(Tip(c), b), Leads(c)
  PROVE  Leads(Append(c, b))
<1> DEFINE d == Append(c, b)
           n == Len(c)
<1>1. /\ DOMAIN d = 1 .. n + 1 /\ DOMAIN c = 1 .. n /\ n \in Nat \ {0}
      /\ d[n + 1] = b /\ Tip(d) = b /\ \A i \in 1 .. n : d[i] = c[i]
  BY AppendedChain
<1>2. Confirmed(d) = Confirmed(c) \cup TrxOf(b)
  BY ConfirmedAppend
<1> HIDE DEF d, n
<1>3. b.previous_hash = Hash(Tip(c)) /\ Tip(c) = c[n] /\ n \in DOMAIN c
  BY <1>1 DEF ValidateBlock, Validate, Tip, n
<1>4. Confirmed(Hash(b)) = Confirmed(Hash(Tip(c))) \cup TrxOf(b)
  BY <1>3, HashConfirms
<1>5. ASSUME NEW i \in DOMAIN d, NEW j \in DOMAIN d, j <= i
      PROVE  TrxOf(d[j]) \subseteq Confirmed(Hash(d[i]))
  <2>1. CASE i \in 1 .. n
    <3>1. j \in 1 .. n
      BY <1>1, <1>5, <2>1
    <3> QED
      BY <1>1, <1>5, <2>1, <3>1 DEF Leads
  <2>2. CASE i = n + 1 /\ j \in 1 .. n
    <3>1. j <= n
      BY <1>1, <2>2
    <3>2. TrxOf(c[j]) \subseteq Confirmed(Hash(c[n]))
      BY <1>1, <1>3, <2>2, <3>1 DEF Leads
    <3> QED
      BY <1>1, <1>3, <1>4, <2>2, <3>2
  <2>3. CASE i = n + 1 /\ j = n + 1
    BY <1>1, <1>4, <2>3
  <2> QED
    BY <1>1, <2>1, <2>2, <2>3
<1>6. Confirmed(Hash(Tip(d))) \subseteq Confirmed(d)
  BY <1>1, <1>2, <1>4 DEF Leads
<1> QED
  BY <1>5, <1>6 DEF Leads, d

LEMMA GenesisLeads == Leads(<<Genesis>>) /\ Confirmed(<<Genesis>>) = {} /\ TrxOf(Genesis) = {}
<1>1. TrxOf(Genesis) = {} /\ Genesis.previous_hash = << >> /\ Genesis \in Block
  <2>1. Genesis.transactions = << >> /\ Genesis.previous_hash = << >>
    BY DEF Genesis
  <2>2. TrxOf(Genesis) = {}
    BY <2>1 DEF TrxOf
  <2> QED
    BY <2>1, <2>2, GenesisType
<1>2. PICK c : c = <<Genesis>>
  OBVIOUS
<1>3. DOMAIN c = {1} /\ c[1] = Genesis /\ Len(c) = 1
  BY <1>2
<1>4. Confirmed(c) = {}
  <2>1. \A i \in DOMAIN c : c[i].transactions = << >>
    BY <1>3 DEF Genesis
  <2> QED
    BY <2>1 DEF Confirmed
<1>5. Confirmed(<< >>) = {}
  BY DEF Confirmed
<1>6. Confirmed(Hash(Genesis)) = {}
  BY <1>1, <1>5, HashConfirms
<1>7. Leads(c)
  BY <1>1, <1>3, <1>4, <1>6 DEF Leads, Tip
<1> QED
  BY <1>1, <1>2, <1>4, <1>7

-----------------------------------------------------------------------------
(* What a link tells its receiver *)

LEMMA AppendedIs ==
  ASSUME NEW S, NEW w \in Seq(S), NEW ms \in Seq(S)
  PROVE  /\ Len(w) \in Nat /\ DOMAIN w = 1 .. Len(w)
         /\ Len(ms) \in Nat /\ DOMAIN ms = 1 .. Len(ms)
         /\ DOMAIN (w \o ms) = 1 .. Len(w) + Len(ms) /\ Len(w \o ms) = Len(w) + Len(ms)
         /\ \A i \in DOMAIN w : i \in DOMAIN (w \o ms) /\ (w \o ms)[i] = w[i]
         /\ \A j \in DOMAIN (w \o ms) \ DOMAIN w :
              \E i \in DOMAIN ms : j = Len(w) + i /\ (w \o ms)[j] = ms[i]
         /\ \A i \in DOMAIN ms :
              Len(w) + i \in DOMAIN (w \o ms) /\ (w \o ms)[Len(w) + i] = ms[i]
<1>1. /\ Len(w) \in Nat /\ DOMAIN w = 1 .. Len(w)
      /\ Len(ms) \in Nat /\ DOMAIN ms = 1 .. Len(ms)
  BY LenProperties
<1>2. /\ w \o ms \in Seq(S) /\ Len(w \o ms) = Len(w) + Len(ms)
      /\ \A i \in 1 .. Len(w) + Len(ms) :
           (w \o ms)[i] = IF i <= Len(w) THEN w[i] ELSE ms[i - Len(w)]
  BY ConcatProperties
<1>3. DOMAIN (w \o ms) = 1 .. Len(w) + Len(ms)
  BY <1>2, LenProperties
<1>4. ASSUME NEW i \in DOMAIN w PROVE i \in DOMAIN (w \o ms) /\ (w \o ms)[i] = w[i]
  BY <1>1, <1>2, <1>3
<1>5. ASSUME NEW i \in DOMAIN ms
      PROVE  Len(w) + i \in DOMAIN (w \o ms) /\ (w \o ms)[Len(w) + i] = ms[i]
  <2>1. Len(w) + i \in 1 .. Len(w) + Len(ms) /\ ~(Len(w) + i <= Len(w))
        /\ Len(w) + i - Len(w) = i
    BY <1>1
  <2> QED
    BY <1>2, <1>3, <2>1
<1>6. ASSUME NEW j \in DOMAIN (w \o ms) \ DOMAIN w
      PROVE  \E i \in DOMAIN ms : j = Len(w) + i /\ (w \o ms)[j] = ms[i]
  <2>1. j - Len(w) \in 1 .. Len(ms) /\ j = Len(w) + (j - Len(w)) /\ ~(j <= Len(w))
    BY <1>1, <1>3
  <2> QED
    BY <1>1, <1>2, <1>3, <2>1
<1> QED
  BY <1>1, <1>2, <1>3, <1>4, <1>5, <1>6

LEMMA ToldLater ==
  ASSUME NEW S, NEW w \in Seq(S), NEW ms \in Seq(S), NEW k \in Nat, NEW l \in Nat, k <= l,
         NEW t, NEW B, Told(w, k, t, B)
  PROVE  Told(w \o ms, l, t, B)
<1>1. CASE t \in B
  BY <1>1 DEF Told
<1>2. ASSUME NEW j \in DOMAIN w, j < k, w[j] = TrxMsg(t) PROVE Told(w \o ms, l, t, B)
  <2>1. j \in DOMAIN (w \o ms) /\ (w \o ms)[j] = TrxMsg(t)
    BY <1>2, AppendedIs
  <2>2. j < l
    <3>1. j \in Nat
      BY AppendedIs
    <3> QED
      BY <1>2, <3>1
  <2> QED
    BY <2>1, <2>2 DEF Told
<1> QED
  BY <1>1, <1>2 DEF Told

\* Messages whose blocks the sender knows are sent, and news about what it learns.
LEMMA CarriesMore ==
  ASSUME NEW S, NEW w \in Seq(S), NEW ms \in Seq(S), NEW A, NEW B, NEW C, Carries(w, A, B),
         \A i \in DOMAIN ms : Contents(ms[i]) \subseteq A,
         \A t \in C : t \in A \/ \E i \in DOMAIN ms : ms[i] = TrxMsg(t)
  PROVE  Carries(w \o ms, C, B)
<1> DEFINE v == w \o ms
<1>1. /\ Len(w) \in Nat /\ DOMAIN w = 1 .. Len(w)
      /\ Len(ms) \in Nat /\ DOMAIN ms = 1 .. Len(ms)
      /\ DOMAIN v = 1 .. Len(w) + Len(ms) /\ Len(v) = Len(w) + Len(ms)
      /\ \A i \in DOMAIN w : i \in DOMAIN v /\ v[i] = w[i]
      /\ \A j \in DOMAIN v \ DOMAIN w : \E i \in DOMAIN ms : j = Len(w) + i /\ v[j] = ms[i]
      /\ \A i \in DOMAIN ms : Len(w) + i \in DOMAIN v /\ v[Len(w) + i] = ms[i]
  BY AppendedIs
<1>2. \A k \in Nat, l \in Nat : \A t : k <= l /\ Told(w, k, t, B) => Told(v, l, t, B)
  BY ToldLater
<1> HIDE DEF v
<1>3. ASSUME NEW t \in C PROVE Told(v, Len(v) + 1, t, B)
  <2>1. CASE t \in A
    <3>1. Told(w, Len(w) + 1, t, B) /\ Len(w) + 1 \in Nat /\ Len(v) + 1 \in Nat
          /\ Len(w) + 1 <= Len(v) + 1
      BY <1>1, <2>1 DEF Carries
    <3> QED
      BY <1>2, <3>1
  <2>2. ASSUME NEW i \in DOMAIN ms, ms[i] = TrxMsg(t) PROVE Told(v, Len(v) + 1, t, B)
    <3>1. Len(w) + i \in DOMAIN v /\ v[Len(w) + i] = TrxMsg(t) /\ Len(w) + i < Len(v) + 1
      BY <1>1, <2>2
    <3> QED
      BY <3>1 DEF Told
  <2> QED
    BY <2>1, <2>2
<1>4. ASSUME NEW j \in DOMAIN v, NEW t \in Contents(v[j]) PROVE Told(v, j, t, B)
  <2>1. CASE j \in DOMAIN w
    <3>1. Told(w, j, t, B) /\ j \in Nat /\ j <= j
      BY <1>1, <1>4, <2>1 DEF Carries
    <3> QED
      BY <1>2, <3>1
  <2>2. CASE j \notin DOMAIN w
    <3>1. PICK i \in DOMAIN ms : j = Len(w) + i /\ v[j] = ms[i]
      BY <1>1, <2>2
    <3>2. t \in A
      BY <1>4, <3>1
    <3>3. Told(w, Len(w) + 1, t, B)
      BY <3>2 DEF Carries
    <3>4. Len(w) + 1 \in Nat /\ j \in Nat /\ Len(w) + 1 <= j
      BY <1>1, <3>1
    <3> QED
      BY <1>2, <3>3, <3>4
  <2> QED
    BY <2>1, <2>2
<1> QED
  BY <1>3, <1>4 DEF Carries, v

\* A message is taken; the receiver learns of the transaction in it, if it is one.
LEMMA CarriesRest ==
  ASSUME NEW S, NEW w \in Seq(S), w # << >>, NEW A, NEW B, NEW C, Carries(w, A, B),
         B \subseteq C, \A t : Head(w) = TrxMsg(t) => t \in C
  PROVE  /\ Carries(Tail(w), A, C)
         /\ Contents(Head(w)) \subseteq B
<1> DEFINE v == Tail(w)
<1>1. /\ Head(w) = w[1] /\ Len(w) \in Nat /\ DOMAIN w = 1 .. Len(w) /\ 1 \in DOMAIN w
      /\ DOMAIN v = 1 .. Len(w) - 1 /\ \A i \in 1 .. Len(w) - 1 : v[i] = w[i + 1]
      /\ Len(v) = Len(w) - 1
  BY TailIs, HeadTailProperties
<1> HIDE DEF v
<1>2. ASSUME NEW t, NEW k \in Nat, Told(w, k + 1, t, B) PROVE Told(v, k, t, C)
  <2>1. CASE t \in B
    BY <2>1 DEF Told
  <2>2. ASSUME NEW j \in DOMAIN w, j < k + 1, w[j] = TrxMsg(t) PROVE Told(v, k, t, C)
    <3>1. CASE j = 1
      BY <1>1, <2>2, <3>1 DEF Told
    <3>2. CASE j # 1
      <4>1. j - 1 \in DOMAIN v /\ (j - 1) + 1 = j /\ j - 1 < k
        BY <1>1, <2>2, <3>2
      <4>2. v[j - 1] = w[j]
        BY <1>1, <4>1
      <4> QED
        BY <2>2, <4>1, <4>2 DEF Told
    <3> QED
      BY <3>1, <3>2
  <2> QED
    BY <1>2, <2>1, <2>2 DEF Told
<1>3. ASSUME NEW t \in A PROVE Told(v, Len(v) + 1, t, C)
  <2>1. Told(w, Len(w) + 1, t, B) /\ Len(v) + 1 \in Nat /\ Len(w) + 1 = (Len(v) + 1) + 1
    BY <1>1 DEF Carries
  <2> QED
    BY <1>2, <2>1
<1>4. ASSUME NEW i \in DOMAIN v, NEW t \in Contents(v[i]) PROVE Told(v, i, t, C)
  <2>1. i + 1 \in DOMAIN w /\ v[i] = w[i + 1] /\ i \in Nat
    BY <1>1
  <2>2. Told(w, i + 1, t, B)
    BY <1>4, <2>1 DEF Carries
  <2> QED
    BY <1>2, <2>1, <2>2
<1>5. ASSUME NEW t \in Contents(Head(w)) PROVE t \in B
  <2>1. Told(w, 1, t, B)
    BY <1>1, <1>5 DEF Carries
  <2>2. \A j \in DOMAIN w : ~(j < 1)
    BY <1>1
  <2> QED
    BY <2>1, <2>2 DEF Told
<1> QED
  BY <1>3, <1>4, <1>5 DEF Carries, v

LEMMA CarriesOn ==
  ASSUME NEW w, NEW A, NEW B, NEW C, Carries(w, A, B), B \subseteq C
  PROVE  Carries(w, A, C)
BY DEF Carries, Told

\* A step at n that sends only blocks whose transactions n knows, sends what it learns to
\* all its peers, and learns of the transaction it takes.
LEMMA TellsKept ==
  ASSUME TypeOK, Steady, Tells,
         NEW n \in Node, NEW ps, NEW ms, NEW from, Writes(n, ps, ms, from), from # n,
         \A m \in Node : m # n => pool'[m].seen = pool[m].seen,
         pool[n].seen \subseteq pool'[n].seen,
         \A i \in DOMAIN ms : Contents(ms[i]) \subseteq pool[n].seen,
         \A t \in pool'[n].seen : \/ t \in pool[n].seen
                                  \/ ps = Node /\ \E i \in DOMAIN ms : ms[i] = TrxMsg(t),
         from \in Node => \A t : Head(link[from][n]) = TrxMsg(t) => t \in pool'[n].seen
  PROVE  Tells'
<1> SUFFICES ASSUME NEW q \in Node, NEW r \in Neighbours(q)
             PROVE  Carries(link'[q][r], pool'[q].seen, pool'[r].seen)
  BY DEF Tells
<1>1. r \in Node /\ r # q /\ r \in peers[q]
  BY NeighboursAre DEF Steady
<1>2. PICK w : w = link[q][r]
  OBVIOUS
<1>3. w \in Seq(Message) /\ ms \in Seq(Message)
  BY <1>1, <1>2, LinksAre DEF Writes
<1>4. PICK A, B, C, D : /\ A = pool[q].seen /\ B = pool[r].seen
                        /\ C = pool'[q].seen /\ D = pool'[r].seen
  OBVIOUS
<1>5. Carries(w, A, B)
  BY <1>2, <1>4 DEF Tells
<1>6. CASE q = n
  <2>1. D = B
    BY <1>1, <1>4, <1>6
  <2>2. CASE r \in ps
    <3>1. link'[q][r] = w \o ms
      BY <1>1, <1>2, <1>6, <2>2 DEF Writes, Longer
    <3>2. \A i \in DOMAIN ms : Contents(ms[i]) \subseteq A
      BY <1>4, <1>6
    <3>3. \A t \in C : t \in A \/ \E i \in DOMAIN ms : ms[i] = TrxMsg(t)
      BY <1>4, <1>6
    <3>4. Carries(w \o ms, C, B)
      BY <1>3, <1>5, <3>2, <3>3, CarriesMore
    <3> QED
      BY <1>4, <2>1, <3>1, <3>4
  <2>3. CASE r \notin ps
    <3>1. link'[q][r] = w
      BY <1>1, <1>2, <1>6, <2>3 DEF Writes, Longer
    <3>2. C = A
      BY <1>1, <1>4, <1>6, <2>3
    <3> QED
      BY <1>4, <1>5, <2>1, <3>1, <3>2
  <2> QED
    BY <2>2, <2>3
<1>7. CASE q # n /\ r = n
  <2>1. C = A /\ B \subseteq D
    BY <1>4, <1>7
  <2>2. CASE q = from
    <3>1. link'[q][r] = Tail(w) /\ w # << >>
      BY <1>1, <1>2, <1>7, <2>2 DEF Writes, Longer
    <3>2. \A t : Head(w) = TrxMsg(t) => t \in D
      BY <1>2, <1>4, <1>7, <2>2
    <3>3. Carries(Tail(w), A, D)
      BY <1>3, <1>5, <2>1, <3>1, <3>2, CarriesRest
    <3> QED
      BY <1>4, <2>1, <3>1, <3>3
  <2>3. CASE q # from
    <3>1. link'[q][r] = w
      BY <1>1, <1>2, <1>7, <2>3 DEF Writes, Longer
    <3> QED
      BY <1>4, <1>5, <2>1, <3>1, CarriesOn
  <2> QED
    BY <2>2, <2>3
<1>8. CASE q # n /\ r # n
  <2>1. link'[q][r] = w
    BY <1>1, <1>2, <1>8 DEF Writes, Longer
  <2> QED
    BY <1>1, <1>4, <1>5, <1>8, <2>1
<1> QED
  BY <1>6, <1>7, <1>8

-----------------------------------------------------------------------------
(* What a pool does *)

LEMMA PushLearns ==
  ASSUME NEW p \in MemPools(Trx), NEW t \in Trx, IsFiniteSet(p.seen),
         Len(p.queue) < MAX_MEMPOOL, Cardinality(p.seen) < MAX_SEEN
  PROVE  /\ Accepts(p, t) <=> t \notin p.seen
         /\ Push(p, t).seen = p.seen \cup {t} /\ IsFiniteSet(Push(p, t).seen)
         /\ t \in p.seen => Push(p, t) = p
         /\ t \notin p.seen => Push(p, t).queue = Append(p.queue, t)
<1> DEFINE longer == [queue |-> Append(p.queue, t), seen |-> p.seen \cup {t},
                      seen_order |-> Append(p.seen_order, t)]
<1>1. Accepts(p, t) <=> t \notin p.seen
  BY DEF Accepts
<1>2. CASE t \in p.seen
  <2>1. Push(p, t) = p /\ p.seen = p.seen \cup {t}
    BY <1>1, <1>2 DEF Push
  <2> QED
    BY <1>1, <1>2, <2>1
<1>3. CASE t \notin p.seen
  <2>1. IsFiniteSet(p.seen \cup {t}) /\ Cardinality(p.seen \cup {t}) = Cardinality(p.seen) + 1
        /\ Cardinality(p.seen) \in Nat
    BY <1>3, FS_AddElement, FS_CardinalityType
  <2>2. ~(Cardinality(p.seen \cup {t}) > MAX_SEEN)
    BY <2>1, MempoolAssumption
  <2>3. Forget(longer) = longer
    BY <2>2 DEF Forget
  <2>4. Push(p, t) = longer
    BY <1>1, <1>3, <2>3 DEF Push
  <2> QED
    BY <1>1, <1>3, <2>1, <2>4
<1> QED
  BY <1>2, <1>3

LEMMA QueueGrows ==
  ASSUME NEW q \in Seq(Trx), NEW t \in Trx, Distinct(q), \A i \in DOMAIN q : q[i] # t
  PROVE  Distinct(Append(q, t)) /\ \A i \in DOMAIN Append(q, t) :
           Append(q, t)[i] = t \/ \E j \in DOMAIN q : Append(q, t)[i] = q[j]
<1> DEFINE r == Append(q, t)
<1>1. /\ Len(q) \in Nat /\ DOMAIN q = 1 .. Len(q) /\ DOMAIN r = 1 .. Len(q) + 1
      /\ r[Len(q) + 1] = t /\ \A i \in 1 .. Len(q) : r[i] = q[i]
  BY AppendProperties, LenProperties
<1> HIDE DEF r
<1>2. \A i \in DOMAIN r : \/ i = Len(q) + 1 /\ r[i] = t
                          \/ i \in DOMAIN q /\ r[i] = q[i]
  BY <1>1
<1>3. Distinct(r)
  BY <1>2 DEF Distinct
<1> QED
  BY <1>2, <1>3 DEF r

LEMMA QueuePart ==
  ASSUME NEW q, NEW r, NEW f, Distinct(q),
         \A i \in DOMAIN r : f[i] \in DOMAIN q /\ r[i] = q[f[i]],
         \A i, j \in DOMAIN r : f[i] = f[j] => i = j
  PROVE  Distinct(r)
BY DEF Distinct

LEMMA PopApart ==
  ASSUME NEW p \in MemPools(Trx), NEW count \in Nat, Distinct(p.queue)
  PROVE  /\ Distinct(PopMany(p, count).queue)
         /\ Queued(PopMany(p, count)) \subseteq Queued(p)
         /\ \A i \in DOMAIN FirstMany(p, count) :
              /\ FirstMany(p, count)[i] \in Queued(p)
              /\ FirstMany(p, count)[i] \notin Queued(PopMany(p, count))
<1> DEFINE q == p.queue
           n == Len(q)
           m == IF count < n THEN count ELSE n
           first == FirstMany(p, count)
           rest == PopMany(p, count).queue
<1>1. q \in Seq(Trx) /\ n \in Nat /\ DOMAIN q = 1 .. n
  BY LenProperties DEF MemPools
<1>2. first = SubSeq(q, 1, m) /\ rest = SubSeq(q, count + 1, n)
  BY DEF FirstMany, PopMany, MemPools
<1>3. m \in Nat /\ m <= n /\ m <= count
  BY <1>1
<1>4. DOMAIN first = 1 .. m /\ \A i \in 1 .. m : first[i] = q[i]
  <2>1. \A i \in 1 .. m : q[i] \in Trx
    BY <1>1, <1>3, ElementOfSeq
  <2>2. /\ first \in Seq(Trx)
        /\ Len(first) = IF 1 <= m THEN m - 1 + 1 ELSE 0
        /\ \A i \in 1 .. m - 1 + 1 : first[i] = q[1 + i - 1]
    BY <1>1, <1>2, <1>3, <2>1, SubSeqProperties
  <2>3. Len(first) = m /\ DOMAIN first = 1 .. Len(first)
    BY <1>3, <2>2, LenProperties
  <2> QED
    BY <1>3, <2>2, <2>3
<1>5. /\ DOMAIN rest = 1 .. (IF count < n THEN n - count ELSE 0)
      /\ \A i \in DOMAIN rest : count + i \in 1 .. n /\ rest[i] = q[count + i]
  <2>1. \A i \in count + 1 .. n : q[i] \in Trx
    BY <1>1, ElementOfSeq
  <2>2. /\ rest \in Seq(Trx)
        /\ Len(rest) = IF count + 1 <= n THEN n - (count + 1) + 1 ELSE 0
        /\ \A i \in 1 .. n - (count + 1) + 1 : rest[i] = q[count + 1 + i - 1]
    BY <1>1, <1>2, <2>1, SubSeqProperties
  <2>3. Len(rest) = (IF count < n THEN n - count ELSE 0) /\ DOMAIN rest = 1 .. Len(rest)
    BY <1>1, <2>2, LenProperties
  <2> QED
    BY <1>1, <2>2, <2>3
<1> HIDE DEF q, n, m, first, rest
<1>6. Distinct(rest)
  <2> DEFINE f == [i \in DOMAIN rest |-> count + i]
  <2>1. \A i \in DOMAIN rest : f[i] \in DOMAIN q /\ rest[i] = q[f[i]]
    BY <1>1, <1>5
  <2>2. \A i, j \in DOMAIN rest : f[i] = f[j] => i = j
    BY <1>1, <1>5
  <2>3. Distinct(q)
    BY DEF q
  <2> HIDE DEF f
  <2> QED
    BY <2>1, <2>2, <2>3, QueuePart
<1>7. ASSUME NEW i \in DOMAIN first
      PROVE  i \in DOMAIN q /\ first[i] = q[i] /\ \A j \in DOMAIN rest : rest[j] # first[i]
  <2>1. i \in DOMAIN q /\ first[i] = q[i] /\ i <= count /\ i \in Nat
    BY <1>1, <1>3, <1>4
  <2>2. ASSUME NEW j \in DOMAIN rest PROVE rest[j] # first[i]
    <3>1. count + j \in DOMAIN q /\ rest[j] = q[count + j] /\ count + j # i
      BY <1>1, <1>5, <2>1
    <3> QED
      BY <2>1, <3>1 DEF Distinct, q
  <2> QED
    BY <2>1, <2>2
<1>8. \A j \in DOMAIN rest : \E i \in DOMAIN q : rest[j] = q[i]
  BY <1>1, <1>5
<1>9. Queued(p) = {q[i] : i \in DOMAIN q} /\ Queued(PopMany(p, count)) = {rest[i] : i \in DOMAIN rest}
  BY DEF Queued, q, rest
<1>10. Queued(PopMany(p, count)) \subseteq Queued(p)
  BY <1>8, <1>9
<1>11. \A i \in DOMAIN first : first[i] \in Queued(p) /\ first[i] \notin Queued(PopMany(p, count))
  BY <1>7, <1>9
<1> QED
  BY <1>6, <1>10, <1>11 DEF rest, first

LEMMA RemoveApart ==
  ASSUME NEW p \in MemPools(Trx), NEW txs, Distinct(p.queue)
  PROVE  /\ Distinct(RemoveIncluded(p, txs).queue)
         /\ Queued(RemoveIncluded(p, txs)) \subseteq Queued(p)
         /\ \A i \in DOMAIN txs : txs[i] \notin Queued(RemoveIncluded(p, txs))
<1> DEFINE included == {txs[i] : i \in DOMAIN txs}
           q == p.queue
           S == {i \in DOMAIN q : q[i] \notin included}
           left == ElementsAt(q, S)
           f == [k \in 1 .. Cardinality(S) |-> Nth(S, k)]
<1>1. q \in Seq(Trx) /\ Len(q) \in Nat /\ DOMAIN q = 1 .. Len(q)
  BY LenProperties DEF MemPools
<1>2. RemoveIncluded(p, txs).queue = left
  BY DEF RemoveIncluded, MemPools
<1>3. \A j \in S : j \in Nat /\ 1 <= j /\ j <= Len(q)
  BY <1>1
<1>4. Cardinality(S) \in Nat
  <2>1. IsFiniteSet(1 .. Len(q)) /\ S \in SUBSET (1 .. Len(q))
    BY <1>1, FS_Interval
  <2> QED
    BY <2>1, FS_Subset, FS_CardinalityType
<1>5. DOMAIN left = 1 .. Cardinality(S) /\ \A k \in 1 .. Cardinality(S) : left[k] = q[Nth(S, k)]
  BY DEF ElementsAt
<1> HIDE DEF S, left
<1>6. ASSUME NEW k \in 1 .. Cardinality(S)
      PROVE  Nth(S, k) \in S /\ Cardinality({j \in S : j <= Nth(S, k)}) = k
  BY <1>1, <1>3, <1>4, NthExists
<1>7. \A i \in DOMAIN left : f[i] \in S /\ left[i] = q[f[i]]
  BY <1>5, <1>6
<1>8. ASSUME NEW i \in DOMAIN left, NEW j \in DOMAIN left, f[i] = f[j] PROVE i = j
  <2>1. PICK x : x = Nth(S, i) /\ x = Nth(S, j)
    BY <1>5, <1>8
  <2> DEFINE below == Cardinality({y \in S : y <= x})
  <2>2. below = i
    BY <1>5, <1>6, <2>1
  <2>3. below = j
    BY <1>5, <1>6, <2>1
  <2> QED
    BY <2>2, <2>3
<1> HIDE DEF f
<1>9. \A i \in S : i \in DOMAIN q /\ q[i] \notin included
  BY DEF S
<1>10. Distinct(left)
  BY <1>7, <1>8, <1>9, QueuePart
<1>11. Queued(RemoveIncluded(p, txs)) = {left[i] : i \in DOMAIN left}
  BY <1>2 DEF Queued
<1>12. Queued(RemoveIncluded(p, txs)) \subseteq Queued(p)
  BY <1>7, <1>9, <1>11 DEF Queued
<1>13. \A t \in Queued(RemoveIncluded(p, txs)) : t \notin included
  BY <1>7, <1>9, <1>11
<1> QED
  BY <1>2, <1>10, <1>12, <1>13

-----------------------------------------------------------------------------
(* What a handler does at its own node *)

\* Everywhere else nothing changes but the links.
LEMMA Elsewhere ==
  ASSUME TypeOK, NEW n \in Node, Handler(n), NEW m \in Node, m # n
  PROVE  /\ pool'[m] = pool[m] /\ chain'[m] = chain[m]
         /\ task'[m] = task[m] /\ orphans'[m] = orphans[m]
<1>1. ASSUME Propose(n)
      PROVE  /\ pool'[m] = pool[m] /\ chain'[m] = chain[m]
             /\ task'[m] = task[m] /\ orphans'[m] = orphans[m]
  <2>1. PICK r \in Nat : TickPropose(n, r)
    BY <1>1, B4nAssumption DEF Propose
  <2>2. /\ \E b : chain' = [chain EXCEPT ![n] = Append(@, b)]
        /\ pool' = [pool EXCEPT ![n] = PopMany(@, MAX_TRX_PER_BLOCK)]
    BY <2>1, TickAppends
  <2>3. task' = task /\ orphans' = orphans
    BY <2>1 DEF TickPropose
  <2> QED
    BY <2>2, <2>3 DEF TypeOK
<1>2. ASSUME Continue(n)
      PROVE  /\ pool'[m] = pool[m] /\ chain'[m] = chain[m]
             /\ task'[m] = task[m] /\ orphans'[m] = orphans[m]
  <2>1. CASE IgnoreBlock(n)
    BY <2>1 DEF TypeOK, IgnoreBlock, node
  <2>2. CASE ConnectBlock(n)
    BY <2>2 DEF TypeOK, ConnectBlock
  <2>3. CASE DeferBlock(n)
    BY <2>3 DEF TypeOK, DeferBlock, PutOrphan
  <2>4. CASE ConnectOrphan(n)
    BY <2>4 DEF TypeOK, ConnectOrphan
  <2>5. CASE EndOrphans(n) \/ Paginate(n)
    BY <2>5 DEF TypeOK, EndOrphans, Paginate, node
  <2> QED
    BY <1>2, <2>1, <2>2, <2>3, <2>4, <2>5 DEF Continue
<1>3. ASSUME \/ \E t \in Trx : LocalTrx(n, t)
             \/ \E p \in Node : OnTrx(n, p) \/ OnGetStatus(n, p) \/ OnStatus(n, p)
                                \/ OnGetBlocks(n, p) \/ OnBlock(n, p) \/ OnBlocks(n, p)
             \/ TickRound(n)
      PROVE  /\ pool'[m] = pool[m] /\ chain'[m] = chain[m]
             /\ task'[m] = task[m] /\ orphans'[m] = orphans[m]
  BY <1>3 DEF TypeOK, LocalTrx, OnTrx, OnGetStatus, OnStatus, OnGetBlocks, OnBlock,
     OnBlocks, TickRound, node
<1> QED
  BY <1>1, <1>2, <1>3 DEF Handler

LEMMA PushOrderly ==
  ASSUME TypeOK, RoomInPools, NEW n \in Node, Orderly(n), NEW t \in Trx,
         pool' = [pool EXCEPT ![n] = Push(@, t)], chain' = chain, task' = task,
         orphans' = orphans
  PROVE  /\ Orderly(n)'
         /\ pool'[n].seen = pool[n].seen \cup {t}
         /\ Accepts(pool[n], t) <=> t \notin pool[n].seen
<1>1. PICK p, q, A : /\ p = pool[n] /\ q = Push(p, t) /\ A = p.seen
  OBVIOUS
<1>2. p \in MemPools(Trx) /\ pool'[n] = q
  BY <1>1 DEF TypeOK
<1>3. Remembers(p, chain[n], task[n].rest, orphans[n]) /\ Ready(n, p, chain[n])
  BY <1>1 DEF Orderly
<1>4. /\ Accepts(p, t) <=> t \notin A
      /\ q.seen = A \cup {t} /\ IsFiniteSet(q.seen)
      /\ t \in A => q = p
      /\ t \notin A => q.queue = Append(p.queue, t)
  BY <1>1, <1>2, <1>3, PushLearns DEF RoomInPools, Remembers
<1>5. /\ Seq(Within(A)) \subseteq Seq(Within(q.seen)) /\ Within(A) \subseteq Within(q.seen)
  BY <1>4, WithinGrows
<1>6. OrphansOver(Within(q.seen), orphans[n])
  BY <1>1, <1>3, <1>5 DEF Remembers, OrphansOver
<1>7. Queued(p) \subseteq A /\ Confirmed(chain[n]) \subseteq A /\ Distinct(p.queue)
  BY <1>1, <1>3, ConfirmedWithin DEF Remembers, Ready
<1>8. CASE t \in A
  <2>1. q = p
    BY <1>4, <1>8
  <2> QED
    BY <1>1, <1>2, <1>3, <1>4, <2>1, <1>8 DEF Orderly
<1>9. CASE t \notin A
  <2>1. p.queue \in Seq(Trx) /\ \A i \in DOMAIN p.queue : p.queue[i] # t
    BY <1>2, <1>7, <1>9 DEF MemPools, Queued
  <2>2. /\ Distinct(q.queue)
        /\ \A i \in DOMAIN q.queue : \/ q.queue[i] = t
                                     \/ \E j \in DOMAIN p.queue : q.queue[i] = p.queue[j]
    <3>1. PICK s : s = p.queue
      OBVIOUS
    <3>2. /\ Distinct(Append(s, t))
          /\ \A i \in DOMAIN Append(s, t) : \/ Append(s, t)[i] = t
                                            \/ \E j \in DOMAIN s : Append(s, t)[i] = s[j]
      BY <1>7, <2>1, <3>1, QueueGrows
    <3>3. q.queue = Append(s, t)
      BY <1>4, <1>9, <3>1
    <3> QED
      BY <3>1, <3>2, <3>3
  <2>3. Queued(q) \subseteq Queued(p) \cup {t}
    BY <2>2 DEF Queued
  <2>4. IsValidator(n) => Queued(q) \cap Confirmed(chain[n]) = {}
    BY <1>3, <1>7, <1>9, <2>3 DEF Ready
  <2>5. Ready(n, q, chain[n])
    BY <2>2, <2>4 DEF Ready
  <2>6. Remembers(q, chain[n], task[n].rest, orphans[n])
    BY <1>1, <1>3, <1>4, <1>5, <1>6, <1>7, <2>3 DEF Remembers
  <2> QED
    BY <1>1, <1>2, <1>4, <2>5, <2>6 DEF Orderly
<1> QED
  BY <1>8, <1>9

\* Other steps leave what the node remembers alone.
LEMMA OrderlyIntro ==
  ASSUME TypeOK, NEW n \in Node, Orderly(n), NEW p, NEW c, NEW rest, NEW o,
         pool'[n] = p, chain'[n] = c, task'[n].rest = rest, orphans'[n] = o,
         p.seen = pool[n].seen,
         p = pool[n] \/ (Distinct(p.queue) /\ Queued(p) \subseteq Queued(pool[n])),
         c \in Seq(Within(p.seen)) \ {<< >>}, rest \in Seq(Within(p.seen)),
         OrphansOver(Within(p.seen), o),
         IsValidator(n) => Queued(p) \cap Confirmed(c) = {}
  PROVE  Orderly(n)'
BY DEF Orderly, Remembers, Ready

LEMMA OrderlyIs ==
  ASSUME NEW n \in Node, Orderly(n)
  PROVE  /\ chain[n] \in Seq(Within(pool[n].seen)) \ {<< >>}
         /\ task[n].rest \in Seq(Within(pool[n].seen))
         /\ OrphansOver(Within(pool[n].seen), orphans[n])
         /\ IsValidator(n) => Queued(pool[n]) \cap Confirmed(chain[n]) = {}
         /\ Distinct(pool[n].queue) /\ Queued(pool[n]) \subseteq pool[n].seen
         /\ Confirmed(chain[n]) \subseteq pool[n].seen
         /\ Within(pool[n].seen) \in SUBSET Block
BY ConfirmedWithin DEF Orderly, Remembers, Ready, Within

\* Steps that change at most the blocks in hand.
LEMMA RestOrderly ==
  ASSUME TypeOK, NEW n \in Node, Orderly(n), pool' = pool, chain' = chain,
         orphans' = orphans, task'[n].rest \in Seq(Within(pool[n].seen))
  PROVE  Orderly(n)'
BY OrderlyIs, OrderlyIntro

LEMMA RestHandled ==
  ASSUME TypeOK, NEW n \in Node, Orderly(n), Handling(n), NEW progress,
         task' = [task EXCEPT ![n] = Handled(@, progress)]
  PROVE  /\ Head(task[n].rest) \in Within(pool[n].seen)
         /\ task'[n].rest \in Seq(Within(pool[n].seen))
<1>1. task[n].rest \in Seq(Within(pool[n].seen)) /\ task[n].rest # << >>
  BY OrderlyIs DEF Handling
<1>2. task'[n].rest = Tail(task[n].rest)
  BY DEF TypeOK, Task, Handled
<1> QED
  BY <1>1, <1>2, HeadTailProperties

LEMMA ConnectOrderly ==
  ASSUME TypeOK, NEW n \in Node, Orderly(n), ConnectBlock(n)
  PROVE  Orderly(n)' /\ \A m \in Node : pool'[m].seen = pool[m].seen
<1>1. PICK b, K, p, c : /\ b = Head(task[n].rest) /\ K = Within(pool[n].seen)
                        /\ p = RemoveIncluded(pool[n], b.transactions)
                        /\ c = Append(chain[n], b)
  OBVIOUS
<1>2. b \in K /\ task'[n].rest \in Seq(K)
  BY <1>1, RestHandled DEF ConnectBlock
<1>3. /\ pool' = [pool EXCEPT ![n] = p] /\ chain' = [chain EXCEPT ![n] = c]
      /\ orphans' = orphans
  BY <1>1 DEF ConnectBlock
<1>4. pool'[n] = p /\ chain'[n] = c
  BY <1>3 DEF TypeOK
<1>5. pool[n] \in MemPools(Trx)
  BY DEF TypeOK
<1>6. p.seen = pool[n].seen
  BY <1>1, <1>5, RemoveKeeps
<1>7. /\ chain[n] \in Seq(K) \ {<< >>} /\ OrphansOver(K, orphans[n])
      /\ IsValidator(n) => Queued(pool[n]) \cap Confirmed(chain[n]) = {}
      /\ Distinct(pool[n].queue)
  BY <1>1, OrderlyIs
<1>8. c \in Seq(K) \ {<< >>} /\ Confirmed(c) = Confirmed(chain[n]) \cup TrxOf(b)
  BY <1>1, <1>2, <1>7, AppendProperties, ConfirmedAppend
<1>9. /\ Distinct(p.queue) /\ Queued(p) \subseteq Queued(pool[n])
      /\ \A i \in DOMAIN b.transactions : b.transactions[i] \notin Queued(p)
  BY <1>1, <1>5, <1>7, RemoveApart
<1>10. IsValidator(n) => Queued(p) \cap Confirmed(c) = {}
  BY <1>7, <1>8, <1>9 DEF TrxOf
<1>11. Orderly(n)'
  BY <1>1, <1>2, <1>3, <1>4, <1>6, <1>7, <1>8, <1>9, <1>10, OrderlyIntro
<1>12. \A m \in Node : pool'[m].seen = pool[m].seen
  BY <1>3, <1>6 DEF TypeOK
<1> QED
  BY <1>11, <1>12

LEMMA DeferOrderly ==
  ASSUME TypeOK, NEW n \in Node, Orderly(n), DeferBlock(n)
  PROVE  Orderly(n)'
<1>1. PICK b, K : b = Head(task[n].rest) /\ K = Within(pool[n].seen)
  OBVIOUS
<1>2. b \in K /\ task'[n].rest \in Seq(K)
  BY <1>1, RestHandled DEF DeferBlock
<1>3. /\ chain[n] \in Seq(K) \ {<< >>} /\ OrphansOver(K, orphans[n]) /\ K \in SUBSET Block
      /\ IsValidator(n) => Queued(pool[n]) \cap Confirmed(chain[n]) = {}
  BY <1>1, OrderlyIs
<1>4. pool' = pool /\ chain' = chain /\ PutOrphan(n, b)
  BY <1>1 DEF DeferBlock
<1>5. OrphansOver(K, orphans'[n])
  <2>1. CASE KeepsOrphan(n, b)
    <3>1. PICK h, bs : h = b.previous_hash /\ bs = Append(Bucket(orphans[n], h), b)
      OBVIOUS
    <3>2. h \in Hash32
      BY <1>2, <1>3, <3>1 DEF Block
    <3>3. bs \in Seq(K)
      BY <1>2, <1>3, <3>1, BucketType, AppendProperties
    <3>4. OrphansOver(K, WithBucket(orphans[n], h, bs))
      BY <1>3, <3>2, <3>3, WithBucketType
    <3>5. orphans' = [orphans EXCEPT ![n] = WithBucket(orphans[n], h, bs)]
      BY <1>4, <2>1, <3>1 DEF PutOrphan
    <3> QED
      BY <3>4, <3>5 DEF TypeOK
  <2>2. CASE ~KeepsOrphan(n, b)
    BY <1>3, <1>4, <2>2 DEF PutOrphan
  <2> QED
    BY <2>1, <2>2
<1> QED
  BY <1>1, <1>2, <1>3, <1>4, <1>5, OrderlyIntro

LEMMA OrphanOrderly ==
  ASSUME TypeOK, NoOrphanFits, NEW n \in Node, Orderly(n), ConnectOrphan(n)
  PROVE  /\ Orderly(n)' /\ pool' = pool
         /\ \E b \in Within(pool[n].seen) : link' = Gossip(n, BlockMsg(b))
<1>1. PICK prev, bucket, K, o : /\ prev = Tip(chain[n])
                                /\ bucket = Bucket(orphans[n], Hash(prev))
                                /\ K = Within(pool[n].seen) /\ o = orphans[n]
  OBVIOUS
<1>2. PICK i \in DOMAIN bucket :
        /\ FirstValid(prev, bucket, i)
        /\ chain' = [chain EXCEPT ![n] = Append(@, bucket[i])]
        /\ link' = Gossip(n, BlockMsg(bucket[i]))
        /\ orphans' = [orphans EXCEPT ![n] =
             PutBack(WithoutBucket(@, Hash(prev)), Hash(bucket[i]), SwapRemove(bucket, i))]
  BY <1>1 DEF ConnectOrphan
<1>3. pool' = pool /\ task' = task
  BY DEF ConnectOrphan
<1>4. /\ chain[n] \in Seq(K) \ {<< >>} /\ OrphansOver(K, o) /\ K \in SUBSET Block
      /\ task[n].rest \in Seq(K)
  BY <1>1, OrderlyIs
<1>5. bucket \in Seq(K)
  BY <1>1, <1>4, BucketType
<1>6. PICK b : b = bucket[i]
  OBVIOUS
<1>7. b \in K
  BY <1>5, <1>6, ElementOfSeq, LenProperties
<1>8. ~IsValidator(n)
  <2>1. ValidateBlock(prev, b)
    BY <1>2, <1>6 DEF FirstValid
  <2>2. Hash(prev) \in DOMAIN o /\ bucket = o[Hash(prev)]
    <3>1. bucket # << >>
      BY <1>2
    <3> QED
      BY <1>1, <3>1 DEF Bucket
  <2> QED
    BY <1>1, <1>2, <1>6, <2>1, <2>2 DEF NoOrphanFits
<1>9. chain'[n] = Append(chain[n], b) /\ Append(chain[n], b) \in Seq(K) \ {<< >>}
  <2>1. chain'[n] = Append(chain[n], b)
    BY <1>2, <1>6 DEF TypeOK
  <2>2. Append(chain[n], b) \in Seq(K) \ {<< >>}
    BY <1>4, <1>7, AppendProperties
  <2> QED
    BY <2>1, <2>2
<1>10. OrphansOver(K, orphans'[n])
  <2>1. OrphansOver(K, PutBack(WithoutBucket(o, Hash(prev)), Hash(b), SwapRemove(bucket, i)))
    <3>1. Hash(b) \in Hash32
      BY <1>4, <1>7, HashType
    <3>2. SwapRemove(bucket, i) \in Seq(K)
      BY <1>4, <1>5, SwapRemoveType
    <3>3. OrphansOver(K, WithoutBucket(o, Hash(prev)))
      BY <1>4, WithoutBucketType
    <3> QED
      BY <1>4, <3>1, <3>2, <3>3, PutBackType
  <2>2. orphans'[n] = PutBack(WithoutBucket(o, Hash(prev)), Hash(b), SwapRemove(bucket, i))
    BY <1>1, <1>2, <1>6 DEF TypeOK
  <2> QED
    BY <2>1, <2>2
<1>11. Orderly(n)'
  BY <1>1, <1>3, <1>4, <1>8, <1>9, <1>10, OrderlyIntro
<1> QED
  BY <1>1, <1>2, <1>3, <1>6, <1>7, <1>11

LEMMA TickOrderly ==
  ASSUME TypeOK, NEW n \in Node, Orderly(n), NEW r \in Nat, TickPropose(n, r),
         Leads(chain[n])
  PROVE  /\ Orderly(n)' /\ \A m \in Node : pool'[m].seen = pool[m].seen
         /\ \E b \in Within(pool[n].seen) :
              /\ link' = Gossip(n, BlockMsg(b)) /\ signed' = signed \cup {b}
              /\ TrxOf(b) \cap Confirmed(b.previous_hash) = {}
<1>1. PICK K, p, txs, b : /\ K = Within(pool[n].seen)
                          /\ p = PopMany(pool[n], MAX_TRX_PER_BLOCK)
                          /\ txs = FirstMany(pool[n], MAX_TRX_PER_BLOCK)
                          /\ b = BuildBlock(n, Tip(chain[n]), txs, r, boot[n])
  OBVIOUS
<1>2. /\ IsValidator(n) /\ b \in Block
      /\ signed' = signed \cup {b}
      /\ chain' = [chain EXCEPT ![n] = Append(@, b)]
      /\ pool' = [pool EXCEPT ![n] = p]
      /\ link' = Gossip(n, BlockMsg(b))
  BY <1>1, TickAppends
<1>3. task' = task /\ orphans' = orphans
  BY DEF TickPropose
<1>4. b.transactions = txs /\ b.previous_hash = Hash(Tip(chain[n]))
  BY <1>1 DEF BuildBlock
<1>5. /\ chain[n] \in Seq(K) \ {<< >>} /\ OrphansOver(K, orphans[n])
      /\ task[n].rest \in Seq(K)
      /\ Queued(pool[n]) \cap Confirmed(chain[n]) = {}
      /\ Distinct(pool[n].queue) /\ Queued(pool[n]) \subseteq pool[n].seen
  BY <1>1, <1>2, OrderlyIs
<1>6. pool[n] \in MemPools(Trx) /\ MAX_TRX_PER_BLOCK \in Nat
  BY B4nAssumption DEF TypeOK
<1>7. /\ Distinct(p.queue) /\ Queued(p) \subseteq Queued(pool[n])
      /\ \A i \in DOMAIN txs : txs[i] \in Queued(pool[n]) /\ txs[i] \notin Queued(p)
  BY <1>1, <1>5, <1>6, PopApart
<1>8. p.seen = pool[n].seen
  BY <1>1, <1>6, PopKeeps
<1>9. TrxOf(b) \subseteq Queued(pool[n]) /\ TrxOf(b) \cap Queued(p) = {}
  BY <1>4, <1>7 DEF TrxOf
<1>10. b \in K
  BY <1>1, <1>2, <1>5, <1>9 DEF Within
<1>11. /\ Append(chain[n], b) \in Seq(K) \ {<< >>}
       /\ Confirmed(Append(chain[n], b)) = Confirmed(chain[n]) \cup TrxOf(b)
  BY <1>5, <1>10, AppendProperties, ConfirmedAppend
<1>12. chain'[n] = Append(chain[n], b) /\ pool'[n] = p
  BY <1>2 DEF TypeOK
<1>13. Queued(p) \cap Confirmed(Append(chain[n], b)) = {}
  BY <1>5, <1>7, <1>9, <1>11
<1>14. Orderly(n)'
  BY <1>1, <1>3, <1>5, <1>7, <1>8, <1>11, <1>12, <1>13, OrderlyIntro
<1>15. \A m \in Node : pool'[m].seen = pool[m].seen
  BY <1>2, <1>8 DEF TypeOK
<1>16. TrxOf(b) \cap Confirmed(b.previous_hash) = {}
  BY <1>4, <1>5, <1>9 DEF Leads
<1> QED
  BY <1>1, <1>2, <1>10, <1>14, <1>15, <1>16

-----------------------------------------------------------------------------
(* Every step of an undisturbed network *)

OnceInv ==
  /\ \A n \in Node : Orderly(n) /\ Leads(chain[n])
  /\ Tells
  /\ SignedOnce

LEMMA LeadsStep ==
  ASSUME TypeOK, [Next]_vars, NEW m \in Node, Leads(chain[m])
  PROVE  Leads(chain'[m])
<1>1. CASE Stays(m)
  BY <1>1 DEF Stays
<1>2. CASE Grows(m)
  <2>1. chain[m] \in Seq(Block) \ {<< >>}
    BY DEF TypeOK
  <2>2. PICK b \in Block : ValidateBlock(Tip(chain[m]), b) /\ chain'[m] = Append(chain[m], b)
    BY <1>2 DEF Grows
  <2> QED
    BY <2>1, <2>2, LeadsOn
<1>3. CASE Restarts(m)
  BY <1>3, GenesisLeads DEF Restarts
<1> QED
  BY <1>1, <1>2, <1>3, ChainStep

\* The next message on a link brings a node no block with a transaction it does not know.
LEMMA HeadKnown ==
  ASSUME TypeOK, Steady, Tells, NEW n \in Node, NEW p \in Node, link[p][n] # << >>,
         Head(link[p][n]).type # "Trx"
  PROVE  Contents(Head(link[p][n])) \subseteq pool[n].seen
<1>1. n \in Neighbours(p)
  BY DEF Steady
<1>2. PICK w, A, B : w = link[p][n] /\ A = pool[p].seen /\ B = pool[n].seen
  OBVIOUS
<1>3. Carries(w, A, B) /\ w \in Seq(Message) /\ w # << >>
  BY <1>1, <1>2, LinksAre DEF Tells
<1>4. \A t : Head(w) = TrxMsg(t) => t \in B
  BY <1>2 DEF TrxMsg
<1> QED
  BY <1>2, <1>3, <1>4, CarriesRest

\* Steps that teach no node a transaction.
LEMMA TellsQuietly ==
  ASSUME TypeOK, Steady, Tells, \A m \in Node : pool'[m].seen = pool[m].seen,
         NEW n \in Node, NEW ps, NEW ms, NEW from, Writes(n, ps, ms, from), from # n,
         \A i \in DOMAIN ms : Contents(ms[i]) \subseteq pool[n].seen,
         from \in Node => Head(link[from][n]).type # "Trx"
  PROVE  Tells'
<1>1. from \in Node => \A t : Head(link[from][n]) = TrxMsg(t) => t \in pool'[n].seen
  BY DEF TrxMsg
<1> QED
  BY <1>1, TellsKept

LEMMA TellsBlock ==
  ASSUME TypeOK, Steady, Tells, \A m \in Node : pool'[m].seen = pool[m].seen,
         NEW n \in Node, NEW b \in Within(pool[n].seen), link' = Gossip(n, BlockMsg(b))
  PROVE  Tells'
<1>1. PICK ms : ms = <<BlockMsg(b)>>
  OBVIOUS
<1>2. Writes(n, Node, ms, None)
  BY <1>1, GrowWrites DEF Within
<1>3. \A i \in DOMAIN ms : ms[i] = BlockMsg(b)
  BY <1>1
<1>4. Contents(BlockMsg(b)) \subseteq pool[n].seen
  BY DEF Contents, BlockMsg, Within
<1> QED
  BY <1>2, <1>3, <1>4, NoneAssumption, TellsQuietly

\* A transaction submitted to n, or taken from p.
LEMMA TellsTrx ==
  ASSUME TypeOK, Steady, Tells, RoomInPools, NEW n \in Node, Orderly(n), NEW t \in Trx,
         pool' = [pool EXCEPT ![n] = Push(@, t)], chain' = chain, task' = task,
         orphans' = orphans, NEW from, from # n,
         IF Accepts(pool[n], t) THEN Writes(n, Node, <<TrxMsg(t)>>, from)
                                ELSE Writes(n, {}, << >>, from),
         from \in Node => Head(link[from][n]).trx = t
  PROVE  Orderly(n)' /\ Tells'
<1>1. /\ Orderly(n)'
      /\ pool'[n].seen = pool[n].seen \cup {t}
      /\ Accepts(pool[n], t) <=> t \notin pool[n].seen
  BY PushOrderly
<1>2. \A m \in Node : m # n => pool'[m].seen = pool[m].seen
  BY DEF TypeOK
<1>3. from \in Node => \A x : Head(link[from][n]) = TrxMsg(x) => x \in pool'[n].seen
  BY <1>1 DEF TrxMsg
<1>4. CASE Accepts(pool[n], t)
  <2>1. PICK ms : ms = <<TrxMsg(t)>>
    OBVIOUS
  <2>2. Writes(n, Node, ms, from)
    BY <1>4, <2>1
  <2>3. 1 \in DOMAIN ms /\ ms[1] = TrxMsg(t) /\ \A i \in DOMAIN ms : ms[i] = TrxMsg(t)
    BY <2>1
  <2>4. Contents(TrxMsg(t)) = {}
    BY DEF Contents, TrxMsg
  <2>5. \A x \in pool'[n].seen : \/ x \in pool[n].seen
                                 \/ Node = Node /\ \E i \in DOMAIN ms : ms[i] = TrxMsg(x)
    BY <1>1, <2>3
  <2>6. \A i \in DOMAIN ms : Contents(ms[i]) \subseteq pool[n].seen
    BY <2>3, <2>4
  <2>7. pool[n].seen \subseteq pool'[n].seen
    BY <1>1
  <2>8. Tells'
    BY <1>2, <1>3, <2>2, <2>5, <2>6, <2>7, TellsKept
  <2> QED
    BY <1>1, <2>8
<1>5. CASE ~Accepts(pool[n], t)
  <2>1. PICK ms : ms = << >>
    OBVIOUS
  <2>2. Writes(n, {}, ms, from) /\ DOMAIN ms = {}
    BY <1>5, <2>1
  <2>3. pool'[n].seen = pool[n].seen
    BY <1>1, <1>5
  <2>4. Tells'
    BY <1>2, <1>3, <2>2, <2>3, TellsKept
  <2> QED
    BY <1>1, <2>4
<1> QED
  BY <1>4, <1>5

LEMMA HandlerOrderly ==
  ASSUME TypeOK, Steady, RoomInPools, NoOrphanFits, OnceInv, NEW n \in Node, Handler(n)
  PROVE  Orderly(n)' /\ Tells' /\ SignedOnce'
<1>1. Orderly(n) /\ Tells /\ SignedOnce /\ Leads(chain[n])
  BY DEF OnceInv
<1>2. None # n /\ None \notin Node
  BY NoneAssumption
<1>3. signed' = signed => SignedOnce'
  BY <1>1 DEF SignedOnce
<1>4. PICK none : none = << >>
  OBVIOUS
<1>5. DOMAIN none = {}
  BY <1>4
<1>6. ASSUME NEW ms, NEW ps, NEW from, Writes(n, ps, ms, from), from # n, pool' = pool,
             \A i \in DOMAIN ms : Contents(ms[i]) \subseteq pool[n].seen,
             from \in Node => Head(link[from][n]).type # "Trx"
      PROVE  Tells'
  BY <1>1, <1>6, TellsQuietly
<1>7. ASSUME NEW h
      PROVE  \A i \in DOMAIN <<GetBlocks(h)>> : Contents(<<GetBlocks(h)>>[i]) \subseteq pool[n].seen
  BY DEF Contents, GetBlocks
<1>8. ASSUME NEW t \in Trx, LocalTrx(n, t) PROVE Orderly(n)' /\ Tells' /\ SignedOnce'
  <2>1. /\ pool' = [pool EXCEPT ![n] = Push(@, t)] /\ chain' = chain /\ task' = task
        /\ orphans' = orphans /\ signed' = signed
    BY <1>8 DEF LocalTrx
  <2>2. IF Accepts(pool[n], t) THEN Writes(n, Node, <<TrxMsg(t)>>, None)
                               ELSE Writes(n, {}, << >>, None)
    BY <1>8, LocalTrxWrites
  <2> QED
    BY <1>1, <1>2, <1>3, <2>1, <2>2, TellsTrx
<1>9. ASSUME NEW p \in Node, OnTrx(n, p) PROVE Orderly(n)' /\ Tells' /\ SignedOnce'
  <2>1. PICK t : t = Head(link[p][n]).trx
    OBVIOUS
  <2>2. /\ pool' = [pool EXCEPT ![n] = Push(@, t)] /\ chain' = chain /\ task' = task
        /\ orphans' = orphans /\ signed' = signed
        /\ link[p][n] # << >> /\ Head(link[p][n]).type = "Trx"
    BY <1>9, <2>1 DEF OnTrx, Receives
  <2>3. t \in Trx /\ p # n
    BY <2>1, <2>2, FromNeighbour, TypedIsTypeOK, HeadType, MessageFields
  <2>4. IF Accepts(pool[n], t) THEN Writes(n, Node, <<TrxMsg(t)>>, p)
                               ELSE Writes(n, {}, << >>, p)
    BY <1>9, <2>1, <2>3, OnTrxWrites
  <2> QED
    BY <1>1, <1>3, <2>1, <2>2, <2>3, <2>4, TellsTrx
<1>10. ASSUME pool' = pool, chain' = chain, orphans' = orphans, task' = task
       PROVE  Orderly(n)'
  BY <1>1, <1>10, OrderlyIs, RestOrderly
<1>11. ASSUME NEW p \in Node, OnGetStatus(n, p) \/ OnStatus(n, p)
       PROVE  Orderly(n)' /\ Tells' /\ SignedOnce'
  <2>1. /\ pool' = pool /\ chain' = chain /\ orphans' = orphans /\ task' = task
        /\ signed' = signed /\ link[p][n] # << >> /\ Head(link[p][n]).type # "Trx"
    BY <1>11 DEF OnGetStatus, OnStatus, Receives, node
  <2>2. p # n
    BY <2>1, FromNeighbour
  <2>3. CASE OnGetStatus(n, p)
    <3>1. PICK m, ms : m = Status(Height(chain[n])) /\ ms = <<m>>
      OBVIOUS
    <3>2. Writes(n, {p}, ms, p)
      BY <2>3, <3>1, AnswerWrites
    <3>3. \A i \in DOMAIN ms : ms[i] = m
      BY <3>1
    <3>4. Contents(m) = {}
      BY <3>1 DEF Contents, Status
    <3> QED
      BY <1>3, <1>6, <1>10, <2>1, <2>2, <3>2, <3>3, <3>4
  <2>4. CASE OnStatus(n, p)
    <3>1. CASE Writes(n, {}, << >>, p)
      BY <1>3, <1>4, <1>5, <1>6, <1>10, <2>1, <2>2, <3>1
    <3>2. ASSUME NEW h, Writes(n, {p}, <<GetBlocks(h)>>, p)
          PROVE  Orderly(n)' /\ Tells' /\ SignedOnce'
      BY <1>3, <1>6, <1>7, <1>10, <2>1, <2>2, <3>2
    <3> QED
      BY <2>4, <3>1, <3>2, AnswerWrites
  <2> QED
    BY <1>11, <2>3, <2>4
<1>12. ASSUME NEW p \in Node, OnGetBlocks(n, p)
       PROVE  Orderly(n)' /\ Tells' /\ SignedOnce'
  <2>1. /\ pool' = pool /\ chain' = chain /\ orphans' = orphans /\ task' = task
        /\ signed' = signed /\ link[p][n] # << >> /\ Head(link[p][n]).type = "GetBlocks"
    BY <1>12 DEF OnGetBlocks, Receives, node
  <2>2. p # n
    BY <2>1, FromNeighbour
  <2>3. PICK page, m, ms :
          /\ page = BlocksFrom(chain[n], Head(link[p][n]).start, SYNC_LIMIT)
          /\ m = Blocks(page) /\ ms = <<m>>
    OBVIOUS
  <2>4. Writes(n, {p}, ms, p)
    BY <1>12, <2>3, AnswerWrites
  <2>5. Confirmed(page) \subseteq pool[n].seen
    <3>1. PICK K : K = Within(pool[n].seen)
      OBVIOUS
    <3>2. chain[n] \in Seq(K) \ {<< >>} /\ K \in SUBSET Block
      BY <1>1, <3>1, OrderlyIs
    <3>3. Head(link[p][n]).start \in Nat /\ SYNC_LIMIT \in Nat
      BY <2>1, TypedIsTypeOK, HeadType, MessageFields, B4nAssumption
    <3>4. page \in Seq(K)
      BY <2>3, <3>2, <3>3, BlocksFromType
    <3> QED
      BY <3>1, <3>4, ConfirmedWithin
  <2>6. Contents(m) \subseteq pool[n].seen
    BY <2>3, <2>5 DEF Contents, Blocks
  <2>7. \A i \in DOMAIN ms : ms[i] = m
    BY <2>3
  <2> QED
    BY <1>3, <1>6, <1>10, <2>1, <2>2, <2>4, <2>6, <2>7
<1>13. ASSUME NEW p \in Node, OnBlock(n, p) \/ OnBlocks(n, p)
       PROVE  Orderly(n)' /\ Tells' /\ SignedOnce'
  <2>1. PICK m : m = Head(link[p][n])
    OBVIOUS
  <2>2. /\ pool' = pool /\ chain' = chain /\ orphans' = orphans
        /\ signed' = signed /\ link[p][n] # << >> /\ m.type \in {"Block", "Blocks"}
        /\ m.type = "Block" => task'[n].rest = <<m.block>>
        /\ m.type = "Blocks" => task'[n].rest = m.blocks
    <3>1. /\ pool' = pool /\ chain' = chain /\ orphans' = orphans
          /\ signed' = signed
      BY <1>13 DEF OnBlock, OnBlocks, node
    <3>2. task \in [Node -> Task]
      BY DEF TypeOK
    <3>3. CASE OnBlock(n, p)
      <4>1. link[p][n] # << >> /\ m.type = "Block"
        BY <2>1, <3>3 DEF OnBlock, Receives
      <4>2. PICK r : r = [NoTask EXCEPT !.rest = <<m.block>>]
        OBVIOUS
      <4>3. r.rest = <<m.block>>
        BY <4>2 DEF NoTask
      <4>4. task' = [task EXCEPT ![n] = r]
        BY <2>1, <3>3, <4>2 DEF OnBlock
      <4>5. task'[n] = r
        BY <3>2, <4>4
      <4> QED
        BY <3>1, <4>1, <4>3, <4>5
    <3>4. CASE OnBlocks(n, p)
      <4>1. link[p][n] # << >> /\ m.type = "Blocks"
        BY <2>1, <3>4 DEF OnBlocks, Receives
      <4>2. PICK r : r = [NoTask EXCEPT !.rest = m.blocks, !.from = p, !.got = Len(m.blocks)]
        OBVIOUS
      <4>3. r.rest = m.blocks
        BY <4>2 DEF NoTask
      <4>4. task' = [task EXCEPT ![n] = r]
        BY <2>1, <3>4, <4>2 DEF OnBlocks
      <4>5. task'[n] = r
        BY <3>2, <4>4
      <4> QED
        BY <3>1, <4>1, <4>3, <4>5
    <3> QED
      BY <1>13, <3>3, <3>4
  <2>3. p # n /\ Writes(n, {}, none, p)
    BY <1>4, <1>13, <2>2, FromNeighbour, BeginWrites
  <2>4. Contents(m) \subseteq pool[n].seen
    BY <1>1, <2>1, <2>2, HeadKnown
  <2>5. m \in MessageOver(Block) /\ Block \in SUBSET Block
    BY <2>1, <2>2, TypedIsTypeOK, HeadType
  <2>6. task'[n].rest \in Seq(Within(pool[n].seen))
    <3>1. CASE m.type = "Block"
      <4>1. m.block \in Within(pool[n].seen)
        BY <2>4, <2>5, <3>1, MessageFields DEF Contents, Within
      <4> QED
        BY <2>2, <3>1, <4>1, TuplesType
    <3>2. CASE m.type = "Blocks"
      <4>1. m.blocks \in Seq(Block) /\ Confirmed(m.blocks) \subseteq pool[n].seen
        BY <2>4, <2>5, <3>2, MessageFields DEF Contents
      <4> QED
        BY <2>2, <3>2, <4>1, ConfirmedWithin
    <3> QED
      BY <2>2, <3>1, <3>2
  <2>7. Orderly(n)'
    BY <1>1, <2>2, <2>6, RestOrderly
  <2>8. Tells'
    BY <1>5, <1>6, <2>1, <2>2, <2>3
  <2> QED
    BY <1>3, <2>2, <2>7, <2>8
<1>14. ASSUME IgnoreBlock(n) \/ EndOrphans(n) \/ Paginate(n) \/ TickRound(n)
       PROVE  Orderly(n)'
  <2>1. pool' = pool /\ chain' = chain /\ orphans' = orphans
    BY <1>14 DEF IgnoreBlock, EndOrphans, Paginate, TickRound, node
  <2>2. task[n].rest \in Seq(Within(pool[n].seen))
    BY <1>1, OrderlyIs
  <2>3. task'[n].rest \in Seq(Within(pool[n].seen))
    <3>1. CASE IgnoreBlock(n)
      BY <1>1, <3>1, RestHandled DEF IgnoreBlock
    <3>2. CASE EndOrphans(n)
      <4>1. task'[n].rest = task[n].rest
        BY <3>2 DEF EndOrphans, TypeOK, Task
      <4> QED
        BY <2>2, <4>1
    <3>3. CASE Paginate(n)
      <4>1. task'[n].rest = << >>
        BY <3>3 DEF Paginate, TypeOK, NoTask
      <4> QED
        BY <4>1, EmptySeq
    <3>4. CASE TickRound(n)
      BY <2>2, <3>4 DEF TickRound
    <3> QED
      BY <1>14, <3>1, <3>2, <3>3, <3>4
  <2> QED
    BY <1>1, <2>1, <2>3, RestOrderly
<1>15. ASSUME pool' = pool, Writes(n, {}, << >>, None) PROVE Tells'
  BY <1>2, <1>4, <1>5, <1>6, <1>15
<1>16. ASSUME pool' = pool, NEW h, NEW ps, Writes(n, ps, <<GetBlocks(h)>>, None) PROVE Tells'
  BY <1>2, <1>6, <1>7, <1>16
<1>17. ASSUME IgnoreBlock(n) \/ EndOrphans(n) \/ Paginate(n) \/ TickRound(n)
       PROVE  Tells' /\ SignedOnce'
  <2>1. pool' = pool /\ signed' = signed
    BY <1>17 DEF IgnoreBlock, EndOrphans, Paginate, TickRound, node
  <2>2. CASE Paginate(n)
    BY <1>3, <1>15, <1>16, <2>1, <2>2, PageWrites
  <2>3. CASE ~Paginate(n)
    <3>1. link' = link
      BY <1>17, <2>3 DEF IgnoreBlock, EndOrphans, TickRound
    <3> QED
      BY <1>3, <1>15, <2>1, <3>1, Quiet
  <2> QED
    BY <2>2, <2>3
<1>18. ASSUME DeferBlock(n) PROVE Orderly(n)' /\ Tells' /\ SignedOnce'
  <2>1. pool' = pool /\ signed' = signed
    BY <1>18 DEF DeferBlock
  <2>2. Tells'
    BY <1>15, <1>16, <1>18, <2>1, DeferWrites
  <2> QED
    BY <1>1, <1>3, <1>18, <2>1, <2>2, DeferOrderly
<1>19. ASSUME ConnectBlock(n) PROVE Orderly(n)' /\ Tells' /\ SignedOnce'
  <2>1. PICK b : b = Head(task[n].rest) /\ link' = Gossip(n, BlockMsg(b)) /\ signed' = signed
    BY <1>19 DEF ConnectBlock
  <2>2. b \in Within(pool[n].seen)
    BY <1>1, <1>19, <2>1, RestHandled DEF ConnectBlock
  <2>3. Orderly(n)' /\ \A m \in Node : pool'[m].seen = pool[m].seen
    BY <1>1, <1>19, ConnectOrderly
  <2> QED
    BY <1>1, <1>3, <2>1, <2>2, <2>3, TellsBlock
<1>20. ASSUME ConnectOrphan(n) PROVE Orderly(n)' /\ Tells' /\ SignedOnce'
  <2>1. signed' = signed
    BY <1>20 DEF ConnectOrphan
  <2>2. Orderly(n)' /\ pool' = pool
    BY <1>1, <1>20, OrphanOrderly
  <2>3. PICK b \in Within(pool[n].seen) : link' = Gossip(n, BlockMsg(b))
    BY <1>1, <1>20, OrphanOrderly
  <2> QED
    BY <1>1, <1>3, <2>1, <2>2, <2>3, TellsBlock
<1>21. ASSUME Propose(n) PROVE Orderly(n)' /\ Tells' /\ SignedOnce'
  <2>1. PICK r \in Nat : TickPropose(n, r)
    BY <1>21, B4nAssumption DEF Propose
  <2>2. Orderly(n)' /\ \A m \in Node : pool'[m].seen = pool[m].seen
    BY <1>1, <2>1, TickOrderly
  <2>3. PICK b \in Within(pool[n].seen) :
          /\ link' = Gossip(n, BlockMsg(b)) /\ signed' = signed \cup {b}
          /\ TrxOf(b) \cap Confirmed(b.previous_hash) = {}
    BY <1>1, <2>1, TickOrderly
  <2>4. SignedOnce'
    BY <1>1, <2>3 DEF SignedOnce
  <2> QED
    BY <1>1, <2>2, <2>3, <2>4, TellsBlock
<1> QED
  BY <1>8, <1>9, <1>11, <1>12, <1>13, <1>14, <1>17, <1>18, <1>19, <1>20, <1>21
  DEF Handler, Continue

LEMMA OnceStep ==
  ASSUME Undisturbed, Invariant, Steady, RoomInPools, NoOrphanFits, OnceInv, [Next]_vars
  PROVE  OnceInv'
<1>1. TypeOK /\ Started
  BY DEF Invariant
<1>2. \A m \in Node : Leads(chain'[m])
  BY <1>1, LeadsStep DEF OnceInv
<1>3. CASE UNCHANGED vars
  BY <1>3 DEF vars, node, OnceInv, Orderly, Tells, SignedOnce
<1>4. ASSUME NEW n \in Node, Handler(n) PROVE OnceInv'
  <2>1. Orderly(n)' /\ Tells' /\ SignedOnce'
    BY <1>1, <1>4, HandlerOrderly
  <2>2. ASSUME NEW m \in Node, m # n PROVE Orderly(m)'
    <3>1. /\ pool'[m] = pool[m] /\ chain'[m] = chain[m]
          /\ task'[m] = task[m] /\ orphans'[m] = orphans[m]
      BY <1>1, <1>4, <2>2, Elsewhere
    <3>2. Orderly(m)
      BY DEF OnceInv
    <3> QED
      BY <3>1, <3>2 DEF Orderly
  <2>3. \A m \in Node : Orderly(m)'
    BY <2>1, <2>2
  <2> QED
    BY <1>2, <2>1, <2>3 DEF OnceInv
<1> QED
  BY <1>1, <1>3, <1>4, OnlyHandlers

LEMMA OnceInit ==
  ASSUME ConnectedInit
  PROVE  OnceInv
<1> SUFFICES ASSUME NEW n \in Node PROVE Orderly(n) /\ Leads(chain[n])
  <2>1. SignedOnce /\ Tells
    <3>1. Carries(<< >>, {}, {})
      BY DEF Carries
    <3> QED
      BY <3>1, NeighboursAre DEF ConnectedInit, Fresh, EmptyPool, SignedOnce, Tells
  <2> QED
    BY <2>1 DEF OnceInv
<1>1. /\ pool[n] = EmptyPool /\ chain[n] = <<Genesis>> /\ task[n].rest = << >>
      /\ orphans[n] = << >>
  BY DEF ConnectedInit, Fresh, NoTask
<1>2. Genesis \in Within({})
  BY GenesisType, GenesisLeads DEF Within
<1>3. <<Genesis>> \in Seq(Within({})) \ {<< >>}
  BY <1>2, TuplesType
<1>4. << >> \in Seq(Within({})) /\ OrphansOver(Within({}), << >>)
  BY EmptySeq DEF OrphansOver
<1>5. EmptyPool.seen = {} /\ Queued(EmptyPool) = {} /\ Distinct(EmptyPool.queue)
  BY DEF EmptyPool, Queued, Distinct
<1>6. IsFiniteSet({})
  BY FS_EmptySet
<1>7. Orderly(n)
  BY <1>1, <1>3, <1>4, <1>5, <1>6 DEF Orderly, Remembers, Ready
<1> QED
  BY <1>1, <1>7, GenesisLeads

LEMMA OnceConfirms ==
  ASSUME Invariant, OnceInv
  PROVE  ConfirmedOnce
<1> SUFFICES ASSUME NEW n \in Node, NEW i \in DOMAIN chain[n], NEW j \in DOMAIN chain[n],
                    NEW t \in Confirmed(<<chain[n][i]>>) \cap Confirmed(<<chain[n][j]>>)
             PROVE  i = j
  BY DEF ConfirmedOnce
<1>1. ASSUME NEW b, t \in Confirmed(<<b>>) PROVE t \in TrxOf(b)
  <2>1. PICK c : c = <<b>>
    OBVIOUS
  <2>2. DOMAIN c = {1} /\ c[1] = b
    BY <2>1
  <2> QED
    BY <1>1, <2>1, <2>2 DEF Confirmed, TrxOf
<1>2. ASSUME NEW k \in DOMAIN chain[n], NEW l \in DOMAIN chain[n], k < l,
             t \in TrxOf(chain[n][k]), t \in TrxOf(chain[n][l])
      PROVE  FALSE
  <2>1. /\ chain[n] \in Seq(Block) \ {<< >>} /\ DOMAIN chain[n] = 1 .. Len(chain[n])
        /\ Len(chain[n]) \in Nat
    BY LenProperties DEF Invariant, TypeOK
  <2>2. l \in 2 .. Len(chain[n]) /\ l # 1 /\ l - 1 \in DOMAIN chain[n] /\ k <= l - 1
    BY <1>2, <2>1
  <2>3. chain[n][l].previous_hash = Hash(chain[n][l - 1])
    BY <2>2 DEF Invariant, ChainValid, ValidateBlock, Validate
  <2>4. TrxOf(chain[n][k]) \subseteq Confirmed(Hash(chain[n][l - 1]))
    BY <2>2 DEF OnceInv, Leads
  <2>5. chain[n][l] \in signed
    BY <2>2, BlocksOfChains
  <2> QED
    BY <1>2, <2>3, <2>4, <2>5 DEF OnceInv, SignedOnce
<1>3. t \in TrxOf(chain[n][i]) /\ t \in TrxOf(chain[n][j])
  BY <1>1
<1>4. i \in Nat /\ j \in Nat
  BY LenProperties DEF Invariant, TypeOK
<1> QED
  BY <1>2, <1>3, <1>4

\* While connections hold, processes run on and pools have room, a transaction is
\* confirmed twice only by way of a validator that connects an orphan, after which
\* try_connect_orphans does not clean the pool.
THEOREM NoneTwice ==
  ASSUME Undisturbed
  PROVE  ConnectedSpec /\ []RoomInPools /\ []NoOrphanFits => []ConfirmedOnce
<1>1. ConnectedInit => Steady /\ OnceInv
  BY SteadyInit, OnceInit
<1>2. /\ Invariant /\ Steady /\ OnceInv /\ RoomInPools /\ NoOrphanFits /\ [Next]_vars
      => Steady' /\ OnceInv'
  BY SteadyStep, OnceStep
<1>3. Invariant /\ OnceInv => ConfirmedOnce
  BY OnceConfirms
<1> QED
  BY <1>1, <1>2, <1>3, Inductive, PTL DEF ConnectedSpec

=============================================================================
