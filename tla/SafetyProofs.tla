---------------------------- MODULE SafetyProofs ----------------------------
(***************************************************************************)
(* What the chains of the nodes have in common: the argument from one      *)
(* signature a height and a start of the process to the shape of every     *)
(* fork, and that B4n implements Ledger, for any number of nodes,          *)
(* validators, transactions and any limits.                                *)
(***************************************************************************)
EXTENDS B4nProofs

-----------------------------------------------------------------------------
(* The inductive invariant *)

\* No block goes round that nobody signed: chains, links, handlers and orphans hold
\* signed blocks and the genesis block only.
Known == signed \cup {Genesis}

BlocksKnown == Typed(Known)

\* A block is at the place of the chain that its index says.
Indexed ==
  \A n \in Node : \A i \in DOMAIN chain[n] : chain[n][i].index = i - 1

\* A signed block carries the id and the key of one validator, and a time at which this
\* validator was running.  If it still runs since then, its chain has reached the block.
SignedInReach ==
  \A b \in signed :
    /\ b.signature \in Node /\ IsValidator(b.signature)
    /\ b.proposer_id = NodeId(b.signature)
    /\ b.round <= MaxRound
    /\ 1 <= b.timestamp /\ b.timestamp <= boot[b.signature]
    /\ b.timestamp = boot[b.signature] => b.index <= Height(chain[b.signature])

\* Every node was started, and is started again as long as MaxBoots lets it.
Started ==
  \A n \in Node : 1 <= boot[n] /\ (boot[n] = 1 \/ boot[n] <= MaxBoots[n])

Invariant ==
  /\ TypeOK /\ BlocksKnown
  /\ ChainValid /\ Indexed
  /\ Started
  /\ SignedInReach /\ NoEquivocation

-----------------------------------------------------------------------------
(* What a step does to the chains *)

\* The block a validator builds when it is its turn passes its own validation, so the
\* branch of on_tick that loses the popped transactions is never taken.
LEMMA OwnBlockIsValid ==
  ASSUME NEW n \in Node, NEW prev \in Block, NEW r, NEW txs, NEW now,
         IsExpectedProposer(n, prev.index + 1, r)
  PROVE  ValidateBlock(prev, BuildBlock(n, prev, txs, r, now))
<1>1. ValidatorKey(NodeId(n)) = n
  BY NodeIdType DEF IsExpectedProposer
<1>2. prev.index \in Nat
  BY DEF Block
<1> QED
  BY <1>1, <1>2 DEF ValidateBlock, Validate, BuildBlock, IsExpectedProposer

\* A tick that proposes signs a block and puts it on the proposer's chain.
LEMMA TickAppends ==
  ASSUME TypeOK, NEW n \in Node, NEW r \in Nat, TickPropose(n, r)
  PROVE  LET b == BuildBlock(n, Tip(chain[n]), FirstMany(pool[n], MAX_TRX_PER_BLOCK),
                             r, boot[n])
         IN  /\ IsValidator(n) /\ r <= MaxRound /\ b \in Block
             /\ signed' = signed \cup {b}
             /\ ValidateBlock(Tip(chain[n]), b)
             /\ chain' = [chain EXCEPT ![n] = Append(@, b)]
             /\ pool' = [pool EXCEPT ![n] = PopMany(@, MAX_TRX_PER_BLOCK)]
             /\ boot' = boot /\ link' = Gossip(n, BlockMsg(b))
<1> DEFINE b == BuildBlock(n, Tip(chain[n]), FirstMany(pool[n], MAX_TRX_PER_BLOCK),
                           r, boot[n])
<1>1. IsValidator(n) /\ b \in Block
  BY CandidateType, TypedIsTypeOK
<1>2. Tip(chain[n]) \in Block
  BY TipType DEF TypeOK
<1>3. IsExpectedProposer(n, Tip(chain[n]).index + 1, r)
  BY DEF TickPropose, Proposes, Height
<1>4. ValidateBlock(Tip(chain[n]), b)
  BY <1>2, <1>3, OwnBlockIsValid
<1>5. AddOwnBlock(n, b)
  BY <1>4 DEF TickPropose
<1> QED
  BY <1>1, <1>4, <1>5 DEF TickPropose, AddOwnBlock

\* The chain of a node stays, grows by a block valid on its tip, or starts again with
\* the process of the node.
Stays(n) == chain'[n] = chain[n] /\ boot'[n] = boot[n]

Grows(n) ==
  /\ boot'[n] = boot[n]
  /\ \E b \in Block : /\ ValidateBlock(Tip(chain[n]), b)
                      /\ chain'[n] = Append(chain[n], b)

Restarts(n) ==
  chain'[n] = <<Genesis>> /\ boot'[n] = boot[n] + 1 /\ boot[n] < MaxBoots[n]

LEMMA ChainStep ==
  ASSUME TypeOK, [Next]_vars, NEW m \in Node
  PROVE  Stays(m) \/ Grows(m) \/ Restarts(m)
<1>1. Typed(Block)
  BY TypedIsTypeOK
<1>2. chain \in [Node -> Seq(Block) \ {<< >>}] /\ boot \in [Node -> Nat]
  BY DEF TypeOK
<1>3. ASSUME NEW d \in Dial, Connect(d) \/ Break(d) PROVE Stays(m)
  BY <1>3 DEF Connect, Break, node, Stays
<1>4. ASSUME NEW n \in Node, NEW p \in Node, Lose(n, p) PROVE Stays(m)
  BY <1>4 DEF Lose, node, Stays
<1>5. ASSUME NEW n \in Node, Restart(n) PROVE Stays(m) \/ Restarts(m)
  BY <1>2, <1>5 DEF Restart, Stays, Restarts
<1>6. ASSUME NEW n \in Node, NEW b \in Block, ValidateBlock(Tip(chain[n]), b),
             chain' = [chain EXCEPT ![n] = Append(@, b)], boot' = boot
      PROVE  Stays(m) \/ Grows(m)
  BY <1>2, <1>6 DEF Stays, Grows
<1>7. ASSUME NEW n \in Node, NodeStep(n) PROVE Stays(m) \/ Grows(m)
  <2>1. ASSUME NEW t \in Trx, LocalTrx(n, t) PROVE Stays(m)
    BY <2>1 DEF LocalTrx, Stays
  <2>2. ASSUME NEW p \in Node, Receive(n, p) PROVE Stays(m)
    BY <2>2 DEF Receive, OnTrx, OnGetStatus, OnStatus, OnGetBlocks, OnBlock, OnBlocks,
       AddPeer, RemovePeer, node, Stays
  <2>3. ASSUME IgnoreBlock(n) \/ DeferBlock(n) \/ EndOrphans(n) \/ Paginate(n) PROVE Stays(m)
    BY <2>3 DEF IgnoreBlock, DeferBlock, EndOrphans, Paginate, node, Stays
  <2>4. ASSUME ConnectBlock(n) PROVE Stays(m) \/ Grows(m)
    <3> DEFINE b == Head(task[n].rest)
    <3>1. b \in Block
      BY <1>1, <2>4, HandledType DEF ConnectBlock
    <3>2. ValidateBlock(Tip(chain[n]), b) /\ chain' = [chain EXCEPT ![n] = Append(@, b)]
            /\ boot' = boot
      BY <2>4 DEF ConnectBlock, Connects
    <3> QED
      BY <1>6, <3>1, <3>2
  <2>5. ASSUME ConnectOrphan(n) PROVE Stays(m) \/ Grows(m)
    <3> DEFINE prev == Tip(chain[n])
               bucket == Bucket(orphans[n], Hash(prev))
    <3>1. PICK i \in DOMAIN bucket :
            FirstValid(prev, bucket, i) /\ chain' = [chain EXCEPT ![n] = Append(@, bucket[i])]
      BY <2>5 DEF ConnectOrphan
    <3>2. bucket \in Seq(Block)
      BY <1>1, BucketType DEF Typed
    <3>3. bucket[i] \in Block
      BY <3>1, <3>2, ElementOfSeq, LenProperties
    <3>4. ValidateBlock(Tip(chain[n]), bucket[i]) /\ boot' = boot
      BY <2>5, <3>1 DEF FirstValid, ConnectOrphan
    <3> QED
      BY <1>6, <3>1, <3>3, <3>4
  <2>6. ASSUME Propose(n) PROVE Stays(m) \/ Grows(m)
    <3>1. PICK r \in Nat : TickPropose(n, r)
      BY <2>6, B4nAssumption DEF Propose
    <3> QED
      BY <1>6, <3>1, TickAppends
  <2>7. ASSUME TickRound(n) PROVE Stays(m)
    BY <2>7 DEF TickRound, net, Stays
  <2> QED
    BY <1>7, <2>1, <2>2, <2>3, <2>4, <2>5, <2>6, <2>7 DEF NodeStep, Continue
<1>8. CASE UNCHANGED vars
  BY <1>8 DEF vars, node, Stays
<1> QED
  BY <1>3, <1>4, <1>5, <1>7, <1>8 DEF Next, EnvStep

-----------------------------------------------------------------------------
(* The parts of the invariant are kept *)

\* A network over B is one over every set of blocks around B.
LEMMA TypedMonotone ==
  ASSUME NEW B, NEW C, B \subseteq C, Typed(B)
  PROVE  Typed(C)
<1>1. Seq(B) \subseteq Seq(C)
  BY SeqDef
<1>2. MessageOver(B) \subseteq MessageOver(C) /\ TaskOver(B) \subseteq TaskOver(C)
  BY <1>1 DEF MessageOver, TaskOver
<1>3. Seq(MessageOver(B)) \subseteq Seq(MessageOver(C))
  BY <1>2, SeqDef
<1>4. \A o : OrphansOver(B, o) => OrphansOver(C, o)
  BY <1>1 DEF OrphansOver
<1>5. Links(B) \subseteq Links(C)
  BY <1>3 DEF Links
<1>6. [Node -> TaskOver(B)] \subseteq [Node -> TaskOver(C)]
  BY <1>2
<1>7. [Node -> Seq(B) \ {<< >>}] \subseteq [Node -> Seq(C) \ {<< >>}]
  BY <1>1
<1> QED
  BY <1>4, <1>5, <1>6, <1>7 DEF Typed

LEMMA BlocksKnownStep ==
  ASSUME TypeOK, BlocksKnown, [Next]_vars
  PROVE  BlocksKnown'
<1>1. PICK K : K = Known'
  OBVIOUS
<1>2. Known \subseteq K /\ signed' \subseteq K /\ Genesis \in K
  <2>1. signed \subseteq signed'
    <3>1. ASSUME NEW n \in Node, NEW r \in Nat, TickPropose(n, r) PROVE signed \subseteq signed'
      BY <3>1 DEF TickPropose
    <3> QED
      BY <3>1, OnlyTicksSign
  <2> QED
    BY <1>1, <2>1 DEF Known
<1>3. K \in SUBSET Block
  BY <1>1, TypeStep, GenesisType DEF Known, TypeOK
<1>4. Typed(K)
  BY <1>2, TypedMonotone DEF BlocksKnown
<1>5. Typed(K)'
  BY <1>2, <1>3, <1>4, TypedStep
<1> QED
  BY <1>1, <1>5 DEF BlocksKnown

\* The last block of a chain that grew, and the others.
LEMMA AppendedChain ==
  ASSUME NEW c \in Seq(Block) \ {<< >>}, NEW b \in Block
  PROVE  /\ DOMAIN Append(c, b) = 1 .. Len(c) + 1 /\ DOMAIN c = 1 .. Len(c)
         /\ Len(c) \in Nat \ {0} /\ Len(Append(c, b)) = Len(c) + 1
         /\ Append(c, b) # << >>
         /\ Append(c, b)[Len(c) + 1] = b /\ Tip(Append(c, b)) = b
         /\ \A i \in 1 .. Len(c) : Append(c, b)[i] = c[i]
BY AppendProperties, LenProperties, EmptySeq DEF Tip

LEMMA ChainValidStep ==
  ASSUME TypeOK, ChainValid, Indexed, [Next]_vars
  PROVE  ChainValid' /\ Indexed'
<1> SUFFICES ASSUME NEW n \in Node
             PROVE  /\ chain'[n] # << >> /\ chain'[n][1] = Genesis
                    /\ \A i \in 2 .. Len(chain'[n]) :
                         ValidateBlock(chain'[n][i - 1], chain'[n][i])
                    /\ \A i \in DOMAIN chain'[n] : chain'[n][i].index = i - 1
  BY DEF ChainValid, Indexed
<1> DEFINE c == chain[n]
<1>1. c \in Seq(Block) \ {<< >>}
  BY DEF TypeOK
<1>2. /\ c[1] = Genesis
      /\ \A i \in 2 .. Len(c) : ValidateBlock(c[i - 1], c[i])
      /\ \A i \in DOMAIN c : c[i].index = i - 1
  BY DEF ChainValid, Indexed
<1>3. CASE chain'[n] = c
  BY <1>1, <1>2, <1>3
<1>4. CASE Grows(n)
  <2>1. PICK b \in Block : ValidateBlock(Tip(c), b) /\ chain'[n] = Append(c, b)
    BY <1>4 DEF Grows
  <2> DEFINE d == Append(c, b)
  <2> HIDE DEF c
  <2>2. /\ DOMAIN d = 1 .. Len(c) + 1 /\ DOMAIN c = 1 .. Len(c) /\ Len(c) \in Nat \ {0}
        /\ Len(d) = Len(c) + 1 /\ d # << >> /\ d[Len(c) + 1] = b
        /\ \A i \in 1 .. Len(c) : d[i] = c[i]
    BY <1>1, AppendedChain
  <2>3. b.index = Tip(c).index + 1
    BY <2>1 DEF ValidateBlock, Validate
  <2> HIDE DEF d
  <2>4. d[1] = Genesis
    BY <1>2, <2>2
  <2>5. \A i \in 2 .. Len(d) : ValidateBlock(d[i - 1], d[i])
    <3> TAKE i \in 2 .. Len(d)
    <3>1. CASE i = Len(c) + 1
      <4>1. d[i - 1] = Tip(c) /\ d[i] = b
        BY <2>2, <3>1 DEF Tip
      <4> QED
        BY <2>1, <4>1
    <3>2. CASE i <= Len(c)
      <4>1. d[i - 1] = c[i - 1] /\ d[i] = c[i] /\ i \in 2 .. Len(c)
        BY <2>2, <3>2
      <4> QED
        BY <1>2, <4>1
    <3> QED
      BY <2>2, <3>1, <3>2
  <2>6. \A i \in DOMAIN d : d[i].index = i - 1
    <3> TAKE i \in DOMAIN d
    <3>1. CASE i = Len(c) + 1
      <4>1. Tip(c).index = Len(c) - 1
        BY <1>2, <2>2 DEF Tip
      <4> QED
        BY <2>2, <2>3, <3>1, <4>1
    <3>2. CASE i \in DOMAIN c
      BY <1>2, <2>2, <3>2
    <3> QED
      BY <2>2, <3>1, <3>2
  <2> QED
    BY <2>1, <2>2, <2>4, <2>5, <2>6 DEF d
<1>5. CASE Restarts(n)
  <2>1. chain'[n] = <<Genesis>>
    BY <1>5 DEF Restarts
  <2>2. Genesis.index = 0
    BY DEF Genesis
  <2> QED
    BY <2>1, <2>2
<1> QED
  BY <1>3, <1>4, <1>5, ChainStep DEF Stays

\* While a process runs, the height of its chain never falls.
LEMMA HeightStep ==
  ASSUME TypeOK, Started, [Next]_vars, NEW m \in Node
  PROVE  /\ boot[m] \in Nat /\ boot'[m] \in Nat /\ boot[m] <= boot'[m]
         /\ Height(chain[m]) \in Nat /\ Height(chain'[m]) \in Nat
         /\ boot'[m] = boot[m] => Height(chain[m]) <= Height(chain'[m])
         /\ 1 <= boot'[m] /\ (boot'[m] = 1 \/ boot'[m] <= MaxBoots[m])
<1>1. chain[m] \in Seq(Block) \ {<< >>} /\ boot[m] \in Nat
  BY DEF TypeOK
<1>2. Height(chain[m]) \in Nat
  BY <1>1, TipType
<1>3. 1 <= boot[m] /\ (boot[m] = 1 \/ boot[m] <= MaxBoots[m]) /\ MaxBoots[m] \in Nat
  BY B4nAssumption DEF Started
<1>4. CASE Stays(m)
  BY <1>1, <1>2, <1>3, <1>4 DEF Stays
<1>5. CASE Grows(m)
  <2>1. PICK b \in Block : ValidateBlock(Tip(chain[m]), b) /\ chain'[m] = Append(chain[m], b)
    BY <1>5 DEF Grows
  <2>2. Tip(chain'[m]) = b
    BY <1>1, <2>1, AppendedChain
  <2>3. Height(chain'[m]) = Height(chain[m]) + 1
    BY <2>1, <2>2 DEF ValidateBlock, Validate, Height
  <2> QED
    BY <1>1, <1>2, <1>3, <1>5, <2>3 DEF Grows
<1>6. CASE Restarts(m)
  <2>1. Height(chain'[m]) = 0
    BY <1>6 DEF Restarts, Height, Tip, Genesis
  <2> QED
    BY <1>1, <1>2, <1>3, <1>6, <2>1 DEF Restarts
<1> QED
  BY <1>4, <1>5, <1>6, ChainStep

\* What is known of a block just signed.
LEMMA SignedStep ==
  ASSUME TypeOK, Started, NEW n \in Node, NEW r \in Nat, TickPropose(n, r)
  PROVE  \E b \in Block :
           /\ signed' = signed \cup {b}
           /\ b.signature = n /\ IsValidator(n) /\ b.proposer_id = NodeId(n)
           /\ b.round <= MaxRound /\ b.timestamp = boot[n] /\ boot' = boot
           /\ b.index = Height(chain[n]) + 1 /\ b.index = Height(chain'[n])
<1> DEFINE b == BuildBlock(n, Tip(chain[n]), FirstMany(pool[n], MAX_TRX_PER_BLOCK),
                           r, boot[n])
<1>1. /\ IsValidator(n) /\ r <= MaxRound /\ b \in Block
      /\ signed' = signed \cup {b}
      /\ chain' = [chain EXCEPT ![n] = Append(@, b)]
      /\ boot' = boot
  BY TickAppends
<1>2. chain \in [Node -> Seq(Block) \ {<< >>}]
  BY DEF TypeOK
<1>3. /\ b.signature = n /\ b.proposer_id = NodeId(n) /\ b.round = r
      /\ b.timestamp = boot[n] /\ b.index = Height(chain[n]) + 1
  BY DEF BuildBlock, Height
<1> HIDE DEF b
<1>4. Tip(chain'[n]) = b
  BY <1>1, <1>2, AppendedChain
<1> QED
  BY <1>1, <1>3, <1>4 DEF Height

LEMMA SignedInReachStep ==
  ASSUME TypeOK, Started, SignedInReach, [Next]_vars
  PROVE  SignedInReach' /\ Started'
<1>1. Started'
  BY HeightStep DEF Started
<1>2. ASSUME NEW b \in signed
      PROVE  /\ b.signature \in Node /\ IsValidator(b.signature)
             /\ b.proposer_id = NodeId(b.signature)
             /\ b.round <= MaxRound
             /\ 1 <= b.timestamp /\ b.timestamp <= boot'[b.signature]
             /\ b.timestamp = boot'[b.signature] => b.index <= Height(chain'[b.signature])
  <2>1. b.timestamp \in Nat /\ b.index \in Nat
    BY DEF TypeOK, Block
  <2>2. /\ b.signature \in Node /\ IsValidator(b.signature)
        /\ b.proposer_id = NodeId(b.signature)
        /\ b.round <= MaxRound
        /\ 1 <= b.timestamp /\ b.timestamp <= boot[b.signature]
        /\ b.timestamp = boot[b.signature] => b.index <= Height(chain[b.signature])
    BY DEF SignedInReach
  <2> QED
    BY <2>1, <2>2, HeightStep
<1>3. ASSUME NEW n \in Node, NEW r \in Nat, TickPropose(n, r)
      PROVE  SignedInReach'
  <2>1. PICK b \in Block :
           /\ signed' = signed \cup {b}
           /\ b.signature = n /\ IsValidator(n) /\ b.proposer_id = NodeId(n)
           /\ b.round <= MaxRound /\ b.timestamp = boot[n] /\ boot' = boot
           /\ b.index = Height(chain[n]) + 1 /\ b.index = Height(chain'[n])
    BY <1>3, SignedStep
  <2>2. /\ b.signature \in Node /\ IsValidator(b.signature)
        /\ b.proposer_id = NodeId(b.signature)
        /\ b.round <= MaxRound
        /\ 1 <= b.timestamp /\ b.timestamp <= boot'[b.signature]
        /\ b.index <= Height(chain'[b.signature])
    BY <2>1, HeightStep DEF Started
  <2> QED
    BY <1>2, <2>1, <2>2 DEF SignedInReach
<1>4. ASSUME signed' = signed PROVE SignedInReach'
  BY <1>2, <1>4 DEF SignedInReach
<1> QED
  BY <1>1, <1>3, <1>4, OnlyTicksSign

LEMMA NoEquivocationStep ==
  ASSUME TypeOK, Started, SignedInReach, NoEquivocation, [Next]_vars
  PROVE  NoEquivocation'
<1>1. CASE signed' = signed
  BY <1>1 DEF NoEquivocation
<1>2. ASSUME NEW n \in Node, NEW r \in Nat, TickPropose(n, r)
      PROVE  NoEquivocation'
  <2>1. PICK b \in Block :
           /\ signed' = signed \cup {b}
           /\ b.signature = n /\ IsValidator(n) /\ b.proposer_id = NodeId(n)
           /\ b.round <= MaxRound /\ b.timestamp = boot[n] /\ boot' = boot
           /\ b.index = Height(chain[n]) + 1 /\ b.index = Height(chain'[n])
    BY <1>2, SignedStep
  <2>2. ASSUME NEW c \in signed, b.proposer_id = c.proposer_id, b.index = c.index,
               b.timestamp = c.timestamp
        PROVE  FALSE
    <3>1. c.signature \in Node /\ IsValidator(c.signature) /\ NodeId(c.signature) = NodeId(n)
      BY <2>1, <2>2 DEF SignedInReach
    <3>2. c.signature = n
      BY <2>1, <3>1, NodeIdType
    <3>3. c.index <= Height(chain[n])
      BY <2>1, <2>2, <3>2 DEF SignedInReach
    <3>4. Height(chain[n]) \in Nat
      BY TipType DEF TypeOK
    <3> QED
      BY <2>1, <2>2, <3>3, <3>4
  <2> QED
    BY <2>1, <2>2 DEF NoEquivocation
<1> QED
  BY <1>1, <1>2, OnlyTicksSign

-----------------------------------------------------------------------------
(* The theorems *)

LEMMA InvariantInit ==
  ASSUME Init \/ ConnectedInit
  PROVE  Invariant
<1>1. TypeOK /\ Fresh
  BY TypedInit, GenesisType, TypedIsTypeOK DEF Init, ConnectedInit
<1>2. BlocksKnown
  <2>1. PICK K : K = Known
    OBVIOUS
  <2>2. K \in SUBSET Block /\ Genesis \in K
    BY <1>1, <2>1, GenesisType DEF Known, TypeOK
  <2> QED
    BY <2>1, <2>2, TypedInit DEF BlocksKnown
<1>3. ChainValid /\ Indexed /\ Started
  BY <1>1 DEF Fresh, ChainValid, Indexed, Started, Genesis
<1>4. SignedInReach /\ NoEquivocation
  BY <1>1 DEF Fresh, SignedInReach, NoEquivocation
<1> QED
  BY <1>1, <1>2, <1>3, <1>4 DEF Invariant

LEMMA InvariantStep ==
  ASSUME Invariant, [Next]_vars
  PROVE  Invariant'
BY TypeStep, BlocksKnownStep, ChainValidStep, SignedInReachStep, NoEquivocationStep
DEF Invariant

\* The invariant holds in every state, from a cold start or from the connected one.
THEOREM Inductive == (Spec \/ ConnectedSpec) => []Invariant
<1>1. Init \/ ConnectedInit => Invariant
  BY InvariantInit
<1>2. Invariant /\ [Next]_vars => Invariant'
  BY InvariantStep
<1> QED
  BY <1>1, <1>2, PTL DEF Spec, ConnectedSpec

\* Every node holds a chain of blocks each valid on the one before it, whichever way
\* of adding a block, on_tick, handle_incoming_block or try_connect_orphans, put it there.
THEOREM EveryChainValid == (Spec \/ ConnectedSpec) => []ChainValid
<1>1. Invariant => ChainValid
  BY DEF Invariant
<1> QED
  BY <1>1, Inductive, PTL

\* A validator signs one block a height between two starts of its process: on_tick
\* signs above its own chain, which takes the block and does not fall while it runs.
THEOREM OneSignaturePerHeight == (Spec \/ ConnectedSpec) => []NoEquivocation
<1>1. Invariant => NoEquivocation
  BY DEF Invariant
<1> QED
  BY <1>1, Inductive, PTL

\* A block of a chain after genesis was signed by the proposer of its height and round.
LEMMA BlocksOfChains ==
  ASSUME Invariant, NEW n \in Node, NEW i \in DOMAIN chain[n]
  PROVE  LET b == chain[n][i]
         IN  /\ b.index = i - 1
             /\ i = 1 => b = Genesis
             /\ i # 1 => b \in signed /\ b.proposer_id = ExpectedProposer(b.index, b.round)
<1> DEFINE b == chain[n][i]
<1>1. chain[n] \in Seq(Known)
  BY DEF Invariant, BlocksKnown, Typed
<1>2. i \in 1 .. Len(chain[n]) /\ Len(chain[n]) \in Nat /\ b \in Known
  BY <1>1, LenProperties, ElementOfSeq
<1>3. b.index = i - 1 /\ chain[n][1] = Genesis
  BY DEF Invariant, Indexed, ChainValid
<1>4. i # 1 => b # Genesis
  BY <1>2, <1>3 DEF Genesis
<1>5. i # 1 => ValidateBlock(chain[n][i - 1], b)
  <2>1. i # 1 => i \in 2 .. Len(chain[n])
    BY <1>2
  <2> QED
    BY <2>1 DEF Invariant, ChainValid
<1> QED
  BY <1>2, <1>3, <1>4, <1>5 DEF Known, ValidateBlock

\* So two nodes hold different blocks at one height only if they come from different
\* rounds or their proposer was started again in between.
LEMMA ForksNeedDrift ==
  ASSUME Invariant
  PROVE  ForkNeedsRoundDrift
<1> SUFFICES ASSUME NEW n \in Node, NEW m \in Node,
                    NEW i \in DOMAIN chain[n] \cap DOMAIN chain[m],
                    chain[n][i].round = chain[m][i].round,
                    chain[n][i].timestamp = chain[m][i].timestamp
             PROVE  chain[n][i] = chain[m][i]
  BY DEF ForkNeedsRoundDrift
<1>1. CASE i = 1
  BY <1>1, BlocksOfChains
<1>2. CASE i # 1
  <2>1. /\ chain[n][i] \in signed /\ chain[m][i] \in signed
        /\ chain[n][i].index = chain[m][i].index
        /\ chain[n][i].proposer_id = chain[m][i].proposer_id
    BY <1>2, BlocksOfChains
  <2> QED
    BY <2>1 DEF Invariant, NoEquivocation
<1> QED
  BY <1>1, <1>2

\* The network forks only where rounds drift apart or a process is started again.
THEOREM ForkOnlyByDrift == (Spec \/ ConnectedSpec) => []ForkNeedsRoundDrift
<1>1. Invariant => ForkNeedsRoundDrift
  BY ForksNeedDrift
<1> QED
  BY <1>1, Inductive, PTL

\* Where no round ever times out and every process is started once, all nodes agree on
\* the block at every height both have.
THEOREM SteadyAgreement ==
  ASSUME MaxRound = 0, \A n \in Node : MaxBoots[n] <= 1
  PROVE  (Spec \/ ConnectedSpec) => []Agreement
<1>1. ASSUME Invariant PROVE Agreement
  <2>1. ASSUME NEW b \in signed PROVE b.round = 0 /\ b.timestamp = 1
    <3>1. b.round \in Nat /\ b.timestamp \in Nat
      BY <1>1 DEF Invariant, TypeOK, Block
    <3>2. /\ b.signature \in Node /\ b.round <= MaxRound
          /\ 1 <= b.timestamp /\ b.timestamp <= boot[b.signature]
      BY <1>1 DEF Invariant, SignedInReach
    <3>3. boot[b.signature] \in Nat /\ MaxBoots[b.signature] \in Nat
      BY <1>1, <3>2, B4nAssumption DEF Invariant, TypeOK
    <3>4. boot[b.signature] <= 1
      BY <1>1, <3>2, <3>3 DEF Invariant, Started
    <3> QED
      BY <3>1, <3>2, <3>3, <3>4
  <2> SUFFICES ASSUME NEW n \in Node, NEW m \in Node,
                      NEW i \in DOMAIN chain[n] \cap DOMAIN chain[m]
               PROVE  chain[n][i] = chain[m][i]
    BY DEF Agreement
  <2>2. chain[n][i].round = chain[m][i].round /\ chain[n][i].timestamp = chain[m][i].timestamp
    BY <1>1, <2>1, BlocksOfChains
  <2> QED
    BY <1>1, <2>2, ForksNeedDrift DEF ForkNeedsRoundDrift
<1> QED
  BY <1>1, Inductive, PTL

-----------------------------------------------------------------------------
(* No transaction is lost *)

\* A node's own part of NoLostTransaction, for the pool p and the chain c.
Kept(p, c) == \A t \in p.seen : t \in Queued(p) \/ t \in Confirmed(c)

LEMMA KeptIsNoLost == NoLostTransaction <=> \A n \in Node : Kept(pool[n], chain[n])
BY DEF NoLostTransaction, Kept, Queued

\* A chain that grew confirms what it did before, and what the block adds.
LEMMA ConfirmedGrows ==
  ASSUME NEW c \in Seq(Block) \ {<< >>}, NEW b \in Block
  PROVE  /\ Confirmed(c) \subseteq Confirmed(Append(c, b))
         /\ \A i \in DOMAIN b.transactions : b.transactions[i] \in Confirmed(Append(c, b))
<1> DEFINE d == Append(c, b)
<1>1. /\ DOMAIN d = 1 .. Len(c) + 1 /\ DOMAIN c = 1 .. Len(c) /\ Len(c) \in Nat
      /\ d[Len(c) + 1] = b /\ \A i \in 1 .. Len(c) : d[i] = c[i]
  BY AppendedChain
<1> HIDE DEF d
<1>2. \A i \in DOMAIN c : i \in DOMAIN d /\ d[i] = c[i]
  BY <1>1
<1>3. Len(c) + 1 \in DOMAIN d /\ d[Len(c) + 1] = b
  BY <1>1
<1>4. Confirmed(c) \subseteq Confirmed(d)
  BY <1>2 DEF Confirmed
<1>5. \A i \in DOMAIN b.transactions : b.transactions[i] \in Confirmed(d)
  BY <1>3 DEF Confirmed
<1> QED
  BY <1>4, <1>5 DEF d

\* The pool of a node is pushed to, or keeps its transactions except those that a
\* block added to the chain confirms, or is new together with the process.
LEMMA KeptStep ==
  ASSUME TypeOK, NoLostTransaction, [Next]_vars
  PROVE  NoLostTransaction'
<1>1. Typed(Block)
  BY TypedIsTypeOK
<1>2. /\ chain \in [Node -> Seq(Block) \ {<< >>}]
      /\ pool \in [Node -> MemPools(Trx)]
  BY DEF TypeOK
<1>3. \A n \in Node : Kept(pool[n], chain[n])
  BY KeptIsNoLost
<1> SUFFICES ASSUME NEW m \in Node PROVE Kept(pool'[m], chain'[m])
  BY DEF NoLostTransaction, Kept, Queued
<1>4. ASSUME UNCHANGED <<pool, chain>> PROVE Kept(pool'[m], chain'[m])
  BY <1>3, <1>4
<1>5. ASSUME NEW d \in Dial, Connect(d) \/ Break(d) PROVE Kept(pool'[m], chain'[m])
  BY <1>4, <1>5 DEF Connect, Break, node
<1>6. ASSUME NEW n \in Node, NEW p \in Node, Lose(n, p) PROVE Kept(pool'[m], chain'[m])
  BY <1>4, <1>6 DEF Lose, node
<1>7. ASSUME NEW n \in Node, Restart(n) PROVE Kept(pool'[m], chain'[m])
  <2>1. /\ chain' = [chain EXCEPT ![n] = <<Genesis>>]
        /\ pool' = [pool EXCEPT ![n] = EmptyPool]
    BY <1>7 DEF Restart
  <2>2. Kept(EmptyPool, <<Genesis>>)
    BY DEF Kept, EmptyPool
  <2> QED
    BY <1>2, <1>3, <2>1, <2>2
<1>8. ASSUME NEW n \in Node, NEW t \in Trx,
             pool' = [pool EXCEPT ![n] = Push(@, t)], chain' = chain
      PROVE  Kept(pool'[m], chain'[m])
  <2>1. Kept(Push(pool[n], t), chain[n])
    BY <1>2, <1>3, PushKeeps DEF Kept
  <2> QED
    BY <1>2, <1>3, <1>8, <2>1
<1>9. ASSUME NEW n \in Node, NEW b \in Block, NEW p,
             chain' = [chain EXCEPT ![n] = Append(@, b)],
             pool' = [pool EXCEPT ![n] = p],
             p.seen = pool[n].seen,
             \A t \in Queued(pool[n]) :
               t \in Queued(p) \/ \E i \in DOMAIN b.transactions : t = b.transactions[i]
      PROVE  Kept(pool'[m], chain'[m])
  <2>1. chain[n] \in Seq(Block) \ {<< >>}
    BY <1>2
  <2>2. Kept(p, Append(chain[n], b))
    BY <1>3, <1>9, <2>1, ConfirmedGrows DEF Kept
  <2> QED
    BY <1>2, <1>3, <1>9, <2>2
<1>10. ASSUME NEW n \in Node, NodeStep(n) PROVE Kept(pool'[m], chain'[m])
  <2>1. ASSUME NEW t \in Trx, LocalTrx(n, t) PROVE Kept(pool'[m], chain'[m])
    BY <1>8, <2>1 DEF LocalTrx
  <2>2. ASSUME NEW p \in Node, OnTrx(n, p) PROVE Kept(pool'[m], chain'[m])
    <3>1. Head(link[p][n]).trx \in Trx
      BY <1>1, <2>2, HeadType, MessageFields DEF OnTrx, Receives
    <3> QED
      BY <1>8, <2>2, <3>1 DEF OnTrx
  <2>3. ASSUME NEW p \in Node, Receive(n, p), ~OnTrx(n, p)
        PROVE  Kept(pool'[m], chain'[m])
    BY <1>4, <2>3 DEF Receive, OnGetStatus, OnStatus, OnGetBlocks, OnBlock, OnBlocks,
       AddPeer, RemovePeer, node
  <2>4. ASSUME IgnoreBlock(n) \/ DeferBlock(n) \/ EndOrphans(n) \/ Paginate(n)
        PROVE  Kept(pool'[m], chain'[m])
    BY <1>4, <2>4 DEF IgnoreBlock, DeferBlock, EndOrphans, Paginate, node
  <2>5. ASSUME ConnectBlock(n) PROVE Kept(pool'[m], chain'[m])
    <3> DEFINE b == Head(task[n].rest)
               p == RemoveIncluded(pool[n], b.transactions)
    <3>1. b \in Block
      BY <1>1, <2>5, HandledType DEF ConnectBlock
    <3>2. /\ chain' = [chain EXCEPT ![n] = Append(@, b)]
          /\ pool' = [pool EXCEPT ![n] = p]
      BY <2>5 DEF ConnectBlock
    <3>3. /\ p.seen = pool[n].seen
          /\ \A t \in Queued(pool[n]) :
               t \in Queued(p) \/ \E i \in DOMAIN b.transactions : t = b.transactions[i]
      BY <1>2, RemoveKeeps
    <3> HIDE DEF b, p
    <3> QED
      BY <1>9, <3>1, <3>2, <3>3
  <2>6. ASSUME ConnectOrphan(n) PROVE Kept(pool'[m], chain'[m])
    <3> DEFINE bucket == Bucket(orphans[n], Hash(Tip(chain[n])))
    <3>1. PICK i \in DOMAIN bucket : chain' = [chain EXCEPT ![n] = Append(@, bucket[i])]
      BY <2>6 DEF ConnectOrphan
    <3>2. bucket \in Seq(Block)
      BY <1>1, BucketType DEF Typed
    <3>3. bucket[i] \in Block
      BY <3>1, <3>2, ElementOfSeq, LenProperties
    <3>4. pool' = [pool EXCEPT ![n] = pool[n]]
      BY <1>2, <2>6 DEF ConnectOrphan
    <3> HIDE DEF bucket
    <3> QED
      BY <1>9, <3>1, <3>3, <3>4
  <2>7. ASSUME Propose(n) PROVE Kept(pool'[m], chain'[m])
    <3>1. PICK r \in Nat : TickPropose(n, r)
      BY <2>7, B4nAssumption DEF Propose
    <3> DEFINE txs == FirstMany(pool[n], MAX_TRX_PER_BLOCK)
               b == BuildBlock(n, Tip(chain[n]), txs, r, boot[n])
               p == PopMany(pool[n], MAX_TRX_PER_BLOCK)
    <3>2. b \in Block /\ chain' = [chain EXCEPT ![n] = Append(@, b)]
            /\ pool' = [pool EXCEPT ![n] = p]
      BY <3>1, TickAppends
    <3>3. b.transactions = txs
      BY DEF BuildBlock
    <3> HIDE DEF b
    <3>4. /\ p.seen = pool[n].seen
          /\ \A t \in Queued(pool[n]) :
               t \in Queued(p) \/ \E i \in DOMAIN b.transactions : t = b.transactions[i]
      BY <1>2, <3>3, PopKeeps, B4nAssumption
    <3> HIDE DEF p, txs
    <3> QED
      BY <1>9, <3>2, <3>4
  <2>8. ASSUME TickRound(n) PROVE Kept(pool'[m], chain'[m])
    BY <1>4, <2>8 DEF TickRound
  <2> QED
    BY <1>10, <2>1, <2>2, <2>3, <2>4, <2>5, <2>6, <2>7, <2>8 DEF NodeStep, Continue
<1>11. CASE UNCHANGED vars
  BY <1>4, <1>11 DEF vars, node
<1> QED
  BY <1>5, <1>6, <1>7, <1>10, <1>11 DEF Next, EnvStep

\* A transaction that a node accepted and still remembers is queued or confirmed: no
\* path through push, pop_many, on_tick and remove_included drops it.
THEOREM NothingLost == (Spec \/ ConnectedSpec) => []NoLostTransaction
<1>1. Init \/ ConnectedInit => NoLostTransaction
  BY DEF Init, ConnectedInit, Fresh, NoLostTransaction, EmptyPool
<1>2. TypeOK /\ NoLostTransaction /\ [Next]_vars => NoLostTransaction'
  BY KeptStep
<1>3. (Spec \/ ConnectedSpec) => []TypeOK
  BY TypeCorrect, TypeCorrectConnected
<1> QED
  BY <1>1, <1>2, <1>3, PTL DEF Spec, ConnectedSpec

-----------------------------------------------------------------------------
(* B4n implements Ledger: the steps that touch a chain, one lemma for each *)

\* The chains, the signed blocks and the starts are left alone.
LeavesLedger == chain' = chain /\ boot' = boot /\ signed' = signed

\* on_tick signs above all that this process signed before, since what it signed is
\* within its own chain.
LEMMA TickIsSign ==
  ASSUME Invariant, NEW n \in Node, NEW r \in Nat, TickPropose(n, r)
  PROVE  Promise!Next
<1> DEFINE b == BuildBlock(n, Tip(chain[n]), FirstMany(pool[n], MAX_TRX_PER_BLOCK),
                           r, boot[n])
<1>1. /\ IsValidator(n) /\ b \in Block
      /\ signed' = signed \cup {b}
      /\ ValidateBlock(Tip(chain[n]), b)
      /\ chain' = [chain EXCEPT ![n] = Append(@, b)]
      /\ boot' = boot
  BY TickAppends DEF Invariant
<1>2. b.signature = n /\ b.timestamp = boot[n] /\ b.index = Height(chain[n]) + 1
  BY DEF BuildBlock, Height
<1> HIDE DEF b
<1>3. ASSUME NEW c \in signed, c.signature = n, c.timestamp = boot[n]
      PROVE  c.index < b.index
  <2>1. c.index <= Height(chain[n])
    BY <1>3 DEF Invariant, SignedInReach
  <2>2. c.index \in Nat /\ Height(chain[n]) \in Nat
    BY TipType DEF Invariant, TypeOK, Block
  <2> QED
    BY <1>2, <2>1, <2>2
<1>4. Promise!Sign(n, b)
  BY <1>1, <1>2, <1>3 DEF Promise!Sign, Promise!Grow, Tip
<1> QED
  BY <1>1, <1>4 DEF Promise!Next

\* A received block that is connected was signed: none but signed blocks go round.
LEMMA ConnectIsAdopt ==
  ASSUME Invariant, NEW n \in Node, ConnectBlock(n)
  PROVE  Promise!Next
<1> DEFINE b == Head(task[n].rest)
<1>1. /\ ValidateBlock(Tip(chain[n]), b)
      /\ chain' = [chain EXCEPT ![n] = Append(@, b)]
      /\ boot' = boot /\ signed' = signed
  BY DEF ConnectBlock, Connects
<1>2. b \in Known
  <2>1. task \in [Node -> TaskOver(Known)]
    BY DEF Invariant, BlocksKnown, Typed
  <2>2. task[n].rest \in Seq(Known) /\ task[n].rest # << >>
    BY <2>1 DEF TaskOver, ConnectBlock, Handling
  <2> QED
    BY <2>2, HeadTailProperties
<1> HIDE DEF b
<1>3. b \in signed
  BY <1>1, <1>2 DEF Known, ValidateBlock, Validate, Genesis
<1>4. Promise!Adopt(n, b)
  BY <1>1, <1>3 DEF Promise!Adopt, Promise!Grow, Tip
<1> QED
  BY <1>3, <1>4 DEF Promise!Next

\* So was a block that waited as an orphan.
LEMMA OrphanIsAdopt ==
  ASSUME Invariant, NEW n \in Node, ConnectOrphan(n)
  PROVE  Promise!Next
<1> DEFINE bucket == Bucket(orphans[n], Hash(Tip(chain[n])))
<1>1. PICK i \in DOMAIN bucket :
        /\ ValidateBlock(Tip(chain[n]), bucket[i])
        /\ chain' = [chain EXCEPT ![n] = Append(@, bucket[i])]
        /\ boot' = boot /\ signed' = signed
  BY DEF ConnectOrphan, FirstValid
<1>2. bucket \in Seq(Known)
  <2>1. OrphansOver(Known, orphans[n])
    BY DEF Invariant, BlocksKnown, Typed
  <2>2. Known \in SUBSET Block
    BY GenesisType DEF Invariant, TypeOK, Known
  <2> QED
    BY <2>1, <2>2, BucketType
<1> DEFINE b == bucket[i]
<1>3. b \in Known
  BY <1>1, <1>2, ElementOfSeq, LenProperties
<1> HIDE DEF b
<1>4. /\ ValidateBlock(Tip(chain[n]), b)
      /\ chain' = [chain EXCEPT ![n] = Append(@, b)]
  BY <1>1 DEF b
<1>5. b \in signed
  BY <1>3, <1>4 DEF Known, ValidateBlock, Validate, Genesis
<1>6. Promise!Adopt(n, b)
  BY <1>1, <1>4, <1>5 DEF Promise!Adopt, Promise!Grow, Tip
<1> QED
  BY <1>5, <1>6 DEF Promise!Next

LEMMA RestartIsForget ==
  ASSUME NEW n \in Node, Restart(n)
  PROVE  Promise!Next
<1>1. Promise!Forget(n)
  BY DEF Restart, Promise!Forget
<1> QED
  BY <1>1 DEF Promise!Next

-----------------------------------------------------------------------------
(* The refinement *)

\* Every step of the network is a step of the ledger or leaves it alone.
LEMMA StepSimulation ==
  ASSUME Invariant, [Next]_vars
  PROVE  [Promise!Next]_Promise!vars
<1>1. ASSUME NEW d \in Dial, Connect(d) \/ Break(d) PROVE LeavesLedger
  BY <1>1 DEF Connect, Break, node, LeavesLedger
<1>2. ASSUME NEW n \in Node, NEW p \in Node, Lose(n, p) PROVE LeavesLedger
  BY <1>2 DEF Lose, node, LeavesLedger
<1>3. ASSUME NEW n \in Node, NodeStep(n) PROVE Promise!Next \/ LeavesLedger
  <2>1. ASSUME NEW t \in Trx, LocalTrx(n, t) PROVE LeavesLedger
    BY <2>1 DEF LocalTrx, LeavesLedger
  <2>2. ASSUME NEW p \in Node, Receive(n, p) PROVE LeavesLedger
    BY <2>2 DEF Receive, OnTrx, OnGetStatus, OnStatus, OnGetBlocks, OnBlock, OnBlocks,
       AddPeer, RemovePeer, node, LeavesLedger
  <2>3. ASSUME IgnoreBlock(n) \/ DeferBlock(n) \/ EndOrphans(n) \/ Paginate(n) PROVE LeavesLedger
    BY <2>3 DEF IgnoreBlock, DeferBlock, EndOrphans, Paginate, node, LeavesLedger
  <2>4. ASSUME ConnectBlock(n) \/ ConnectOrphan(n) PROVE Promise!Next
    BY <2>4, ConnectIsAdopt, OrphanIsAdopt
  <2>5. ASSUME Propose(n) PROVE Promise!Next
    <3>1. PICK r \in Nat : TickPropose(n, r)
      BY <2>5, B4nAssumption DEF Propose
    <3> QED
      BY <3>1, TickIsSign
  <2>6. ASSUME TickRound(n) PROVE LeavesLedger
    BY <2>6 DEF TickRound, net, LeavesLedger
  <2> QED
    BY <1>3, <2>1, <2>2, <2>3, <2>4, <2>5, <2>6 DEF NodeStep, Continue
<1>4. ASSUME UNCHANGED vars PROVE LeavesLedger
  BY <1>4 DEF vars, node, LeavesLedger
<1>5. LeavesLedger => UNCHANGED Promise!vars
  BY DEF LeavesLedger, Promise!vars
<1> QED
  BY <1>1, <1>2, <1>3, <1>4, <1>5, RestartIsForget DEF Next, EnvStep

\* The network implements the ledger, with failures, lost messages and restarts, for
\* any set of nodes, any validators, transactions and limits.
THEOREM NetworkIsLedger == (Spec \/ ConnectedSpec) => LedgerSpec
<1>1. Init \/ ConnectedInit => Promise!Init
  BY DEF Init, ConnectedInit, Fresh, Promise!Init
<1>2. Invariant /\ [Next]_vars => [Promise!Next]_Promise!vars
  BY StepSimulation
<1> QED
  BY <1>1, <1>2, Inductive, PTL DEF Spec, ConnectedSpec, LedgerSpec, Promise!Spec

=============================================================================
