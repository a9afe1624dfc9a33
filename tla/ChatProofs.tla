----------------------------- MODULE ChatProofs ------------------------------
(***************************************************************************)
(* Theorems about the chat service beside its node, for any number of      *)
(* calls and of writes by other threads: the admin threads give every      *)
(* message an id of its own; the parser of the log pairs a chain with the  *)
(* queue of the same moment; what was answered as confirmed stays so; and  *)
(* a timely answer shows what the node had when it was asked.              *)
(*                                                                         *)
(* The invariant has four parts.  Types: a number for each call at most.   *)
(* Ids: a number in use is in one place.  Printing: the DebugPrints write  *)
(* in order, and the queue of a later one is too far from a chain line to  *)
(* be paired with it, because each ends lines of its own and what other    *)
(* threads write takes no newline away.                                    *)
(* Answered: what the snapshots show grows, and those printed since the    *)
(* service counted the markers show all that the node had then.            *)
(***************************************************************************)
EXTENDS Chat, MempoolProofs

-----------------------------------------------------------------------------
(* The log: its last, first and nearest lines *)

LEMMA LeastOf ==
  ASSUME NEW S \in SUBSET Nat, S # {}
  PROVE  Min(S) \in S /\ \A i \in S : Min(S) <= i
<1>1. PICK i \in S : \A j \in S : i <= j
  BY LeastElement
<1> QED
  BY <1>1, Zenon DEF Min

LEMMA GreatestOf ==
  ASSUME NEW S \in SUBSET Nat, S # {}, NEW n \in Nat, \A i \in S : i <= n
  PROVE  Max(S) \in S /\ \A i \in S : i <= Max(S)
<1> DEFINE U == {u \in Nat : \A i \in S : i <= u}
<1>1. PICK u \in U : \A v \in U : u <= v
  <2>1. U \in SUBSET Nat /\ n \in U
    OBVIOUS
  <2> HIDE DEF U
  <2> QED
    BY <2>1, LeastElement
<1>2. u \in S
  <2> SUFFICES ASSUME u \notin S PROVE FALSE
    OBVIOUS
  <2>1. u \in Nat /\ \A i \in S : i \in Nat /\ i < u
    BY <1>1
  <2>2. u \in Nat /\ u >= 1
    <3>1. PICK i \in S : TRUE
      OBVIOUS
    <3> QED
      BY <2>1, <3>1
  <2>3. u - 1 \in Nat /\ \A i \in S : i <= u - 1
    BY <2>1, <2>2
  <2> QED
    BY <1>1, <2>2, <2>3
<1>3. \A i \in S : u >= i
  BY <1>1
<1>4. Max(S) \in S /\ \A i \in S : Max(S) >= i
  BY <1>2, <1>3, Zenon DEF Max
<1> QED
  BY <1>4

\* What the parser picks out of the log
LEMMA Chosen ==
  ASSUME NEW n \in Nat, DOMAIN log = 1 .. n
  PROVE  /\ \A i \in Markers : Candidates(i) # {} =>
              /\ Pair(i) \in Candidates(i)
              /\ \A j \in Candidates(i) : Pair(i) <= j
         /\ Markers # {} => Max(Markers) \in Markers /\ \A i \in Markers : i <= Max(Markers)
         /\ Snapshots # {} =>
              Max(Snapshots) \in Snapshots /\ \A i \in Snapshots : i <= Max(Snapshots)
<1>1. \A i \in Markers : i \in Nat /\ i <= n
  BY DEF Markers
<1>2. Snapshots \subseteq Markers
  BY DEF Snapshots
<1>3. \A i : Candidates(i) \subseteq Nat
  BY DEF Candidates
<1>4. Markers # {} => Max(Markers) \in Markers /\ \A i \in Markers : i <= Max(Markers)
  BY <1>1, GreatestOf
<1>5. Snapshots # {} =>
        Max(Snapshots) \in Snapshots /\ \A i \in Snapshots : i <= Max(Snapshots)
  BY <1>1, <1>2, GreatestOf
<1> QED
  BY <1>3, <1>4, <1>5, LeastOf DEF Pair

-----------------------------------------------------------------------------
(* Types *)

\* The connections whose message has no number yet
Waiting == {c \in connections : c.cmd = "trx" /\ c.id = 0}

\* A number for each call at most, also for those that are still to come.
HandedOut ==
  /\ IsFiniteSet(Waiting) /\ next_trx_id # 0
  /\ next_trx_id + Cardinality(Waiting) <= IF call.step = "trx" THEN calls ELSE calls + 1
  /\ calls <= MaxCalls
  /\ call.step # "idle" => calls # 0

Types == TypeOK /\ HandedOut

LEMMA TrxsType == Trxs \subseteq Nat /\ 0 \notin Trxs /\ MaxCalls \in Nat
BY ChatAssumption DEF Trxs

LEMMA VarTypes ==
  ASSUME Types
  PROVE  /\ calls \in Nat /\ next_trx_id \in Nat /\ next_trx_id # 0 /\ prints \in Nat
         /\ connections \subseteq Commands /\ inbox \in Seq(Commands)
         /\ pool \in MemPools(Trxs) /\ chain \in Seq(Trxs) /\ pool.queue \in Seq(Trxs)
         /\ output \in Seq(Pieces) /\ log \in Seq(Seq(Pieces))
BY DEF Types, TypeOK, HandedOut, MemPools

LEMMA PieceType ==
  ASSUME NEW k \in Nat, NEW s \in Seq(Trxs),
         NEW t \in PieceTypes
  PROVE  Piece(t, s, k) \in Pieces
BY DEF Piece, Pieces

LEMMA LoggedType ==
  ASSUME log \in Seq(Seq(Pieces)), NEW x \in Pieces
  PROVE  Logged(x) \in Seq(Seq(Pieces))
<1>1. <<x>> \in Seq(Pieces)
  OBVIOUS
<1>2. Append(log, <<x>>) \in Seq(Seq(Pieces))
  BY <1>1, AppendProperties
<1>3. ASSUME log # << >>
      PROVE  [log EXCEPT ![Len(log)] = Append(log[Len(log)], x)] \in Seq(Seq(Pieces))
  <2>1. Len(log) \in 1 .. Len(log)
    BY <1>3, EmptySeq, LenProperties
  <2>2. log[Len(log)] \in Seq(Pieces)
    BY <2>1, ElementOfSeq
  <2>3. Append(log[Len(log)], x) \in Seq(Pieces)
    BY <2>2, AppendProperties
  <2> QED
    BY <2>1, <2>3, ExceptSeq
<1> QED
  BY <1>2, <1>3 DEF Logged

LEMMA DebugPrintType ==
  ASSUME Types, NEW k \in Nat
  PROVE  DebugPrint(k) \in Seq(Pieces)
<1>1. chain \in Seq(Trxs) /\ pool.queue \in Seq(Trxs) /\ << >> \in Seq(Trxs)
  BY VarTypes
<1>2. {"BlockChain", "mempool", "list", "rest", "is_valid"} \subseteq PieceTypes
  BY DEF PieceTypes
<1>3. /\ Piece("BlockChain", chain, k) \in Pieces /\ Piece("mempool", pool.queue, k) \in Pieces
      /\ Piece("list", << >>, k) \in Pieces /\ Piece("rest", << >>, k) \in Pieces
      /\ Piece("is_valid", << >>, k) \in Pieces
  BY <1>1, <1>2, PieceType
<1>4. ASSUME NEW x \in Pieces, NEW y \in Pieces, NEW z \in Pieces
      PROVE  <<x, y, z>> \in Seq(Pieces) /\ <<x>> \in Seq(Pieces)
  OBVIOUS
<1>5. /\ Printed("BlockChain", chain, k) \in Seq(Pieces)
      /\ Printed("mempool", pool.queue, k) \in Seq(Pieces)
      /\ <<Piece("is_valid", << >>, k)>> \in Seq(Pieces)
  BY <1>3, <1>4 DEF Printed
<1> QED
  BY <1>5, ConcatProperties DEF DebugPrint

LEMMA TrxsOfType ==
  ASSUME NEW s \in Seq(Trxs)
  PROVE  TrxsOf(s) \subseteq Trxs
BY ElementOfSeq, LenProperties DEF TrxsOf

LEMMA MarkersFinite ==
  ASSUME Types
  PROVE  IsFiniteSet(Markers) /\ Len(log) \in Nat /\ DOMAIN log = 1 .. Len(log)
<1>1. Len(log) \in Nat /\ DOMAIN log = 1 .. Len(log)
  BY VarTypes, LenProperties
<1>2. IsFiniteSet(1 .. Len(log))
  <2> DEFINE n == Len(log)
  <2>1. 1 \in Int /\ n \in Int
    BY <1>1
  <2> HIDE DEF n
  <2>2. IsFiniteSet(1 .. n)
    BY <2>1, FS_Interval
  <2> QED
    BY <2>2 DEF n
<1>3. Markers \subseteq 1 .. Len(log)
  BY <1>1 DEF Markers
<1> QED
  BY <1>1, <1>2, <1>3, FS_Subset

\* The lines that make a snapshot
LEMMA SnapshotType ==
  ASSUME Types, NEW i \in Snapshots
  PROVE  /\ i \in DOMAIN log /\ Pair(i) \in DOMAIN log /\ Pair(i) \in i + 1 .. i + 3
         /\ Readable(log[i]) /\ Readable(log[Pair(i)])
         /\ log[i][1] \in Pieces /\ log[Pair(i)][1] \in Pieces
         /\ StartsWith(log[i], "BlockChain") /\ StartsWith(log[Pair(i)], "mempool")
<1>1. log \in Seq(Seq(Pieces)) /\ DOMAIN log = 1 .. Len(log) /\ Len(log) \in Nat
  BY VarTypes, LenProperties
<1>2. i \in Markers /\ Candidates(i) # {} /\ Readable(log[i]) /\ Readable(log[Pair(i)])
  BY DEF Snapshots
<1>3. Pair(i) \in Candidates(i)
  BY <1>1, <1>2, Chosen
<1>4. /\ i \in DOMAIN log /\ StartsWith(log[i], "BlockChain")
      /\ Pair(i) \in DOMAIN log /\ Pair(i) \in i + 1 .. i + 3 /\ StartsWith(log[Pair(i)], "mempool")
  BY <1>2, <1>3 DEF Markers, Candidates
<1>5. \A l \in DOMAIN log : Readable(log[l]) => log[l][1] \in Pieces
  <2> SUFFICES ASSUME NEW l \in DOMAIN log, NEW k \in 2 .. Len(log[l])
               PROVE  log[l][1] \in Pieces
    BY DEF Readable
  <2>1. log[l] \in Seq(Pieces)
    BY <1>1, ElementOfSeq
  <2>2. Len(log[l]) \in Nat /\ 1 \in 1 .. Len(log[l])
    BY <2>1, LenProperties
  <2> QED
    BY <2>1, <2>2, ElementOfSeq
<1> QED
  BY <1>2, <1>4, <1>5

LEMMA LatestType ==
  ASSUME Types, Snapshots # {}
  PROVE  /\ Latest.confirmed = TrxsOf(log[Max(Snapshots)][1].trxs)
         /\ Latest.pending = TrxsOf(log[Pair(Max(Snapshots))][1].trxs) \ Latest.confirmed
         /\ Latest.confirmed \subseteq Trxs /\ Latest.pending \subseteq Trxs
         /\ Max(Snapshots) \in Snapshots /\ \A i \in Snapshots : i <= Max(Snapshots)
<1> DEFINE i == Max(Snapshots)
<1>1. i \in Snapshots /\ \A l \in Snapshots : l <= i
  <2>1. DOMAIN log = 1 .. Len(log) /\ Len(log) \in Nat
    BY VarTypes, LenProperties
  <2> QED
    BY <2>1, Chosen
<1> HIDE DEF i
<1>2. log[i][1] \in Pieces /\ log[Pair(i)][1] \in Pieces
  BY <1>1, SnapshotType
<1>3. log[i][1].trxs \in Seq(Trxs) /\ log[Pair(i)][1].trxs \in Seq(Trxs)
  BY <1>2 DEF Pieces
<1>4. TrxsOf(log[i][1].trxs) \subseteq Trxs /\ TrxsOf(log[Pair(i)][1].trxs) \subseteq Trxs
  BY <1>3, TrxsOfType
<1>5. Latest = [confirmed |-> TrxsOf(log[i][1].trxs),
                pending |-> TrxsOf(log[Pair(i)][1].trxs) \ TrxsOf(log[i][1].trxs)]
  BY DEF Latest, Pending, i
<1> QED
  BY <1>1, <1>4, <1>5 DEF i

Calls == [step : {"idle", "trx", "read", "print", "poll"}, before : Nat,
          base : SUBSET Trxs]

Replies == [confirmed : SUBSET Trxs, pending : SUBSET Trxs, base : SUBSET Trxs,
            excused : BOOLEAN]

LEMMA ReplyType ==
  ASSUME Types, Snapshots # {}, NEW overdue \in BOOLEAN, Reply(overdue)
  PROVE  /\ reply' \in Replies /\ shown' \subseteq Trxs
         /\ reply'.confirmed = Latest.confirmed /\ reply'.pending = Latest.pending
         /\ reply'.base = call.base /\ shown' = shown \cup Latest.confirmed
         /\ ~reply'.excused => ~overdue /\ Max(Markers) \in Snapshots
<1> DEFINE x == overdue \/ Max(Markers) \notin Snapshots
<1>1. call \in Calls /\ shown \subseteq Trxs
  BY DEF Types, TypeOK, Calls
<1>2. Latest.confirmed \subseteq Trxs /\ Latest.pending \subseteq Trxs
  BY LatestType
<1>3. reply' = [confirmed |-> Latest.confirmed, pending |-> Latest.pending,
                base |-> call.base, excused |-> x]
  BY DEF Reply, Answer
<1>4. x \in BOOLEAN /\ (~x => ~overdue /\ Max(Markers) \in Snapshots)
  OBVIOUS
<1> HIDE DEF x
<1>5. call.base \in SUBSET Trxs
  BY <1>1 DEF Calls
<1>6. reply' \in Replies
  BY <1>2, <1>3, <1>4, <1>5 DEF Replies
<1>7. shown' = shown \cup Latest.confirmed
  BY <1>3 DEF Reply
<1> QED
  BY <1>1, <1>2, <1>3, <1>4, <1>6, <1>7

\* What a step of the service leaves alone
LEMMA ServiceStep ==
  ASSUME Service
  PROVE  /\ UNCHANGED <<node, next_trx_id, inbox, log, noise>>
         /\ \E new \in SUBSET {Connection("trx"), Connection("print")} :
              connections' = connections \cup new
<1> DEFINE all == {Connection("trx"), Connection("print")}
<1>1. ASSUME NEW kind, Begin(kind)
      PROVE  UNCHANGED <<node, next_trx_id, inbox, log, noise, connections>>
  BY <1>1 DEF Begin
<1>2. ASSUME NEW cmd \in {"trx", "print"}, NEW step, NEW next, AdminSend(cmd, step, next)
      PROVE  /\ UNCHANGED <<node, next_trx_id, inbox, log, noise>>
             /\ connections' = connections \cup {Connection(cmd)}
  BY <1>2 DEF AdminSend
<1>3. ASSUME NEW cmd \in {"trx", "print"}, NEW step, AdminError(cmd, step)
      PROVE  /\ UNCHANGED <<node, next_trx_id, inbox, log, noise>>
             /\ connections' \in {connections, connections \cup {Connection(cmd)}}
  BY <1>3 DEF AdminError
<1>4. ASSUME ReadBefore \/ Poll \/ Deadline \/ Unavailable
      PROVE  UNCHANGED <<node, next_trx_id, inbox, log, noise, connections>>
  BY <1>4 DEF ReadBefore, Poll, Deadline, Unavailable, Reply
<1>5. connections = connections \cup {}
  OBVIOUS
<1>6. /\ {Connection("trx")} \in SUBSET all /\ {Connection("print")} \in SUBSET all
      /\ {} \in SUBSET all
  OBVIOUS
<1> HIDE DEF all
<1>7. /\ UNCHANGED <<node, next_trx_id, inbox, log, noise>>
      /\ \E new \in SUBSET all : connections' = connections \cup new
  BY <1>1, <1>2, <1>3, <1>4, <1>5, <1>6 DEF Service
<1> QED
  BY <1>7 DEF all

\* Where a call goes, and what it needs for its next step
Steps ==
  \/ calls' = calls + 1 /\ call.step = "idle" /\ calls < MaxCalls /\ call'.step \in {"trx", "read"}
     /\ UNCHANGED connections
  \/ calls' = calls /\ call.step = "trx" /\ call'.step \in {"read", "idle"}
     /\ connections' \in {connections, connections \cup {Connection("trx")}}
  \/ calls' = calls /\ call.step = "print" /\ call'.step \in {"poll", "idle"}
     /\ connections' \in {connections, connections \cup {Connection("print")}}
  \/ calls' = calls /\ call.step = "read" /\ call'.step = "print" /\ UNCHANGED connections
  \/ calls' = calls /\ call.step = "poll" /\ call'.step = "idle" /\ UNCHANGED connections

LEMMA ServiceTypes ==
  ASSUME Types, Service
  PROVE  call' \in Calls /\ reply' \in Replies /\ shown' \subseteq Trxs /\ Steps
<1>1. call \in Calls /\ reply \in Replies /\ shown \subseteq Trxs
  BY DEF Types, TypeOK, Calls, Replies
<1>2. Idle \in Calls /\ Idle.step = "idle"
  BY DEF Idle, Calls
<1>3. ASSUME NEW kind \in {"get", "send"}, Begin(kind)
      PROVE  call' \in Calls /\ UNCHANGED <<reply, shown>> /\ Steps
  <2>1. call' \in Calls /\ call'.step \in {"trx", "read"}
    BY <1>2, <1>3 DEF Begin, Calls
  <2> QED
    BY <1>3, <2>1 DEF Begin, Steps
<1>4. CASE AdminSend("trx", "trx", "read") \/ AdminSend("print", "print", "poll")
  <2>1. call' \in Calls
    BY <1>1, <1>4 DEF AdminSend, Calls
  <2>2. UNCHANGED <<reply, shown>>
    BY <1>4 DEF AdminSend
  <2>3. Steps
    BY <1>1, <1>4 DEF AdminSend, Steps, Calls
  <2> QED
    BY <1>1, <2>1, <2>2, <2>3
<1>5. CASE AdminError("trx", "trx") \/ AdminError("print", "print")
  <2>1. call' = Idle /\ UNCHANGED <<reply, shown>>
    BY <1>5 DEF AdminError
  <2>2. Steps
    BY <1>2, <1>5 DEF AdminError, Steps
  <2> QED
    BY <1>1, <1>2, <2>1, <2>2
<1>6. CASE ReadBefore
  <2> DEFINE n == Cardinality(Markers)
             b == TrxsOf(pool.queue) \cup TrxsOf(chain)
  <2>1. n \in Nat
    BY MarkersFinite, FS_CardinalityType
  <2>2. b \in SUBSET Trxs
    BY VarTypes, TrxsOfType
  <2>3. call' = [call EXCEPT !.step = "print", !.before = n, !.base = b]
        /\ UNCHANGED <<reply, shown, calls, connections>> /\ call.step = "read"
    BY <1>6 DEF ReadBefore
  <2> HIDE DEF n, b
  <2>4. call' \in Calls /\ call'.step = "print"
    BY <1>1, <2>1, <2>2, <2>3 DEF Calls
  <2> QED
    BY <1>1, <2>3, <2>4 DEF Steps
<1>7. CASE Poll \/ Deadline
  <2>1. PICK overdue \in BOOLEAN : Reply(overdue) /\ Snapshots # {} /\ call.step = "poll"
    BY <1>7 DEF Poll, Deadline
  <2>2. reply' \in Replies /\ shown' \subseteq Trxs
    BY <2>1, ReplyType
  <2>3. call' = Idle /\ UNCHANGED <<calls, connections>>
    BY <2>1 DEF Reply
  <2> QED
    BY <1>2, <2>1, <2>2, <2>3 DEF Steps
<1>8. CASE Unavailable
  BY <1>1, <1>2, <1>8 DEF Unavailable, Steps
<1> QED
  BY <1>1, <1>3, <1>4, <1>5, <1>6, <1>7, <1>8 DEF Service

LEMMA WaitingType ==
  ASSUME Types, NEW c
  PROVE  /\ IsFiniteSet(Waiting) /\ Cardinality(Waiting) \in Nat
         /\ IsFiniteSet(Waiting \cup {c}) /\ Cardinality(Waiting \cup {c}) <= Cardinality(Waiting) + 1
         /\ Cardinality(Waiting \cup {c}) \in Nat
         /\ c \in Waiting => /\ IsFiniteSet(Waiting \ {c})
                             /\ Cardinality(Waiting \ {c}) = Cardinality(Waiting) - 1
<1>1. IsFiniteSet(Waiting) /\ Cardinality(Waiting) \in Nat
  BY FS_CardinalityType DEF Types, HandedOut
<1>2. /\ IsFiniteSet(Waiting \cup {c})
      /\ Cardinality(Waiting \cup {c}) = IF c \in Waiting THEN Cardinality(Waiting)
                                         ELSE Cardinality(Waiting) + 1
  BY <1>1, FS_AddElement
<1>3. c \in Waiting => /\ IsFiniteSet(Waiting \ {c})
                       /\ Cardinality(Waiting \ {c}) = Cardinality(Waiting) - 1
  BY <1>1, FS_RemoveElement
<1> QED
  BY <1>1, <1>2, <1>3

LEMMA HandedOutService ==
  ASSUME Types, Service
  PROVE  HandedOut' /\ connections' \subseteq Commands
<1>1. Steps /\ next_trx_id' = next_trx_id
  BY ServiceTypes, ServiceStep
<1>2. /\ calls \in Nat /\ next_trx_id \in Nat /\ next_trx_id # 0 /\ calls <= MaxCalls
      /\ next_trx_id + Cardinality(Waiting) <= (IF call.step = "trx" THEN calls ELSE calls + 1)
      /\ call.step # "idle" => calls # 0
      /\ connections \subseteq Commands /\ MaxCalls \in Nat
  BY VarTypes, TrxsType DEF Types, HandedOut
<1>3. /\ IsFiniteSet(Waiting) /\ Cardinality(Waiting) \in Nat
      /\ IsFiniteSet(Waiting \cup {Connection("trx")})
      /\ Cardinality(Waiting \cup {Connection("trx")}) \in Nat
      /\ Cardinality(Waiting \cup {Connection("trx")}) <= Cardinality(Waiting) + 1
  BY WaitingType
<1>4. /\ Connection("trx").cmd = "trx" /\ Connection("trx").id = 0
      /\ Connection("print").cmd = "print"
  BY DEF Connection
<1>5. calls # 0 => Connection("trx") \in Commands /\ Connection("print") \in Commands
  BY <1>2 DEF Connection, Commands
<1>6. CASE connections' = connections
  <2>1. Waiting' = Waiting
    BY <1>6 DEF Waiting
  <2>2. /\ calls' = calls + 1 /\ call.step = "idle" /\ calls < MaxCalls
        /\ call'.step \in {"trx", "read"}
        \/ /\ calls' = calls /\ call.step # "idle" /\ call'.step # "trx"
    BY <1>1 DEF Steps
  <2> QED
    BY <1>1, <1>2, <1>3, <1>6, <2>1, <2>2 DEF HandedOut
<1>7. CASE connections' = connections \cup {Connection("trx")} /\ call.step = "trx"
  <2>1. Waiting' = Waiting \cup {Connection("trx")}
    BY <1>4, <1>7 DEF Waiting
  <2>2. calls' = calls /\ call'.step \in {"read", "idle"}
    BY <1>1, <1>7 DEF Steps
  <2> QED
    BY <1>1, <1>2, <1>3, <1>5, <1>7, <2>1, <2>2 DEF HandedOut
<1>8. CASE connections' = connections \cup {Connection("print")} /\ call.step = "print"
  <2>1. Waiting' = Waiting
    BY <1>4, <1>8 DEF Waiting
  <2>2. calls' = calls /\ call'.step \in {"poll", "idle"}
    BY <1>1, <1>8 DEF Steps
  <2> QED
    BY <1>1, <1>2, <1>3, <1>5, <1>8, <2>1, <2>2 DEF HandedOut
<1> QED
  BY <1>1, <1>6, <1>7, <1>8 DEF Steps

-----------------------------------------------------------------------------
(* Numbers *)

Numbered(c) == c.cmd = "trx" /\ c.id # 0

\* Every number in use, in a thread, in the channel or in the pool, was handed out, and
\* each is in one place.
Ids ==
  /\ \A c \in connections :
       Numbered(c) => c.id < next_trx_id /\ c.id \notin pool.seen
  /\ \A i \in DOMAIN inbox :
       inbox[i].cmd = "trx" =>
         Numbered(inbox[i]) /\ inbox[i].id < next_trx_id /\ inbox[i].id \notin pool.seen
  /\ \A x \in pool.seen : x < next_trx_id
  /\ \A c, d \in connections : Numbered(c) /\ Numbered(d) /\ c.id = d.id => c = d
  /\ \A i, j \in DOMAIN inbox :
       inbox[i].cmd = "trx" /\ inbox[j].cmd = "trx" /\ inbox[i].id = inbox[j].id => i = j
  /\ \A c \in connections : \A i \in DOMAIN inbox :
       Numbered(c) /\ inbox[i].cmd = "trx" => c.id # inbox[i].id

\* push remembers no other hash than before and that of its transaction.
LEMMA PushSeen ==
  ASSUME NEW p, NEW t
  PROVE  \A x \in Push(p, t).seen : x \in p.seen \/ x = t
<1> DEFINE longer == [queue |-> Append(p.queue, t), seen |-> p.seen \cup {t},
                      seen_order |-> Append(p.seen_order, t)]
<1>1. Forget(longer).seen \subseteq longer.seen
  BY DEF Forget
<1>2. longer.seen = p.seen \cup {t}
  OBVIOUS
<1> QED
  BY <1>1, <1>2 DEF Push

\* The inbox loses its first message.
LEMMA TailPlaces ==
  ASSUME NEW S, NEW s \in Seq(S), s # << >>
  PROVE  /\ 1 \in DOMAIN s /\ Head(s) = s[1]
         /\ \A i \in DOMAIN Tail(s) :
              i \in Nat /\ i + 1 \in DOMAIN s /\ i + 1 # 1 /\ Tail(s)[i] = s[i + 1]
OBVIOUS

LEMMA IdsTail ==
  ASSUME Types, Ids, inbox # << >>, inbox' = Tail(inbox),
         UNCHANGED <<connections, next_trx_id>>,
         \A x \in pool'.seen : x \in pool.seen \/ (Head(inbox).cmd = "trx" /\ x = Head(inbox).id)
  PROVE  Ids'
<1>1. /\ 1 \in DOMAIN inbox /\ Head(inbox) = inbox[1]
      /\ \A i \in DOMAIN inbox' :
           i \in Nat /\ i + 1 \in DOMAIN inbox /\ i + 1 # 1 /\ inbox'[i] = inbox[i + 1]
  BY TailPlaces, VarTypes
<1>2. \A c \in connections :
        Numbered(c) => c.id < next_trx_id /\ c.id \notin pool'.seen
  BY <1>1 DEF Ids
<1>3. ASSUME NEW i \in DOMAIN inbox', inbox'[i].cmd = "trx"
      PROVE  /\ Numbered(inbox'[i]) /\ inbox'[i].id < next_trx_id
             /\ inbox'[i].id \notin pool'.seen
  <2>1. Numbered(inbox'[i]) /\ inbox'[i].id < next_trx_id /\ inbox'[i].id \notin pool.seen
    BY <1>1, <1>3 DEF Ids
  <2>2. Head(inbox).cmd = "trx" => inbox'[i].id # Head(inbox).id
    BY <1>1, <1>3 DEF Ids
  <2> QED
    BY <2>1, <2>2
<1>4. \A x \in pool'.seen : x < next_trx_id
  BY <1>1 DEF Ids
<1>5. ASSUME NEW i \in DOMAIN inbox', NEW j \in DOMAIN inbox',
             inbox'[i].cmd = "trx", inbox'[j].cmd = "trx", inbox'[i].id = inbox'[j].id
      PROVE  i = j
  <2>1. i + 1 = j + 1 /\ i \in Nat /\ j \in Nat
    BY <1>1, <1>5 DEF Ids
  <2> QED
    BY <2>1
<1>6. \A c \in connections : \A i \in DOMAIN inbox' :
        Numbered(c) /\ inbox'[i].cmd = "trx" => c.id # inbox'[i].id
  BY <1>1 DEF Ids
<1> QED
  BY <1>2, <1>3, <1>4, <1>5, <1>6 DEF Ids

LEMMA IdsStep ==
  ASSUME Types, Ids, [Next]_vars
  PROVE  Ids'
<1>1. CASE UNCHANGED vars
  BY <1>1 DEF Ids, vars, node
<1>2. CASE Service
  <2>1. PICK new \in SUBSET {Connection("trx"), Connection("print")} :
          connections' = connections \cup new
    BY <1>2, ServiceStep
  <2>2. \A c \in new : ~Numbered(c)
    BY DEF Connection, Numbered
  <2>3. \A c \in connections' : Numbered(c) => c \in connections
    BY <2>1, <2>2
  <2>4. UNCHANGED <<pool, next_trx_id, inbox>>
    BY <1>2, ServiceStep DEF node
  <2> QED
    BY <2>3, <2>4 DEF Ids
<1>3. ASSUME NEW c \in connections, Number(c)
      PROVE  Ids'
  <2> DEFINE d == [c EXCEPT !.id = next_trx_id]
  <2>1. /\ connections' = (connections \ {c}) \cup {d} /\ next_trx_id' = next_trx_id + 1
        /\ UNCHANGED <<pool, inbox>>
    BY <1>3 DEF Number, node
  <2>2. d.id = next_trx_id
    BY VarTypes DEF Commands
  <2>3. /\ next_trx_id \in Nat
        /\ \A x \in connections : x.id \in Nat
        /\ \A i \in DOMAIN inbox : inbox[i].id \in Nat
        /\ \A x \in pool.seen : x \in Nat
    <3>1. \A i \in DOMAIN inbox : inbox[i] \in Commands
      BY VarTypes, ElementOfSeq, LenProperties
    <3>2. \A x \in Commands : x.id \in Nat
      <4>1. Trxs \cup {0} \subseteq Nat
        BY TrxsType
      <4> QED
        BY <4>1 DEF Commands
    <3>3. pool.seen \subseteq Trxs
      BY VarTypes DEF MemPools
    <3> QED
      BY <3>1, <3>2, <3>3, VarTypes, TrxsType
  <2> HIDE DEF d
  <2>4. \A x \in connections' :
          Numbered(x) => x.id < next_trx_id' /\ x.id \notin pool'.seen
    BY <2>1, <2>2, <2>3 DEF Ids
  <2>5. \A i \in DOMAIN inbox' :
          inbox'[i].cmd = "trx" =>
            /\ Numbered(inbox'[i]) /\ inbox'[i].id < next_trx_id'
            /\ inbox'[i].id \notin pool'.seen
    BY <2>1, <2>3 DEF Ids
  <2>6. \A x \in pool'.seen : x < next_trx_id'
    BY <2>1, <2>3 DEF Ids
  <2>7. \A x, y \in connections' : Numbered(x) /\ Numbered(y) /\ x.id = y.id => x = y
    BY <2>1, <2>2, <2>3 DEF Ids
  <2>8. \A x \in connections' : \A i \in DOMAIN inbox' :
          Numbered(x) /\ inbox'[i].cmd = "trx" => x.id # inbox'[i].id
    BY <2>1, <2>2, <2>3 DEF Ids
  <2> QED
    BY <2>1, <2>4, <2>5, <2>6, <2>7, <2>8 DEF Ids
<1>4. ASSUME NEW c \in connections, Deliver(c)
      PROVE  Ids'
  <2>1. /\ c.cmd = "trx" => Numbered(c)
        /\ inbox' = Append(inbox, c) /\ connections' = connections \ {c}
        /\ UNCHANGED <<pool, next_trx_id>>
    BY <1>4 DEF Deliver, Numbered, node
  <2> DEFINE n == Len(inbox)
  <2>2. /\ n \in Nat /\ DOMAIN inbox = 1 .. n /\ DOMAIN inbox' = 1 .. n + 1
        /\ inbox'[n + 1] = c /\ \A i \in 1 .. n : inbox'[i] = inbox[i]
    <3>1. inbox \in Seq(Commands) /\ c \in Commands
      BY VarTypes
    <3> QED
      BY <2>1, <3>1, AppendProperties, LenProperties
  <2> HIDE DEF n
  <2>3. \A i \in DOMAIN inbox' : i = n + 1 \/ i \in DOMAIN inbox
    BY <2>2
  <2>4. \A i \in DOMAIN inbox' :
          inbox'[i].cmd = "trx" =>
            /\ Numbered(inbox'[i]) /\ inbox'[i].id < next_trx_id'
            /\ inbox'[i].id \notin pool'.seen
    BY <2>1, <2>2, <2>3 DEF Ids
  <2>5. \A i, j \in DOMAIN inbox' :
          inbox'[i].cmd = "trx" /\ inbox'[j].cmd = "trx" /\ inbox'[i].id = inbox'[j].id => i = j
    BY <2>1, <2>2, <2>3 DEF Ids
  <2>6. \A x \in connections' : \A i \in DOMAIN inbox' :
          Numbered(x) /\ inbox'[i].cmd = "trx" => x.id # inbox'[i].id
    BY <2>1, <2>2, <2>3 DEF Ids
  <2> QED
    BY <2>1, <2>4, <2>5, <2>6 DEF Ids
<1>5. CASE LocalTrx
  <2>1. /\ inbox # << >> /\ Head(inbox).cmd = "trx" /\ inbox' = Tail(inbox)
        /\ pool' = Push(pool, Head(inbox).id) /\ UNCHANGED <<connections, next_trx_id>>
    BY <1>5 DEF LocalTrx, Takes
  <2>2. \A x \in pool'.seen : x \in pool.seen \/ x = Head(inbox).id
    BY <2>1, PushSeen
  <2> QED
    BY <2>1, <2>2, IdsTail
<1>6. CASE OnDebugPrint
  <2>1. inbox # << >> /\ inbox' = Tail(inbox) /\ UNCHANGED <<pool, connections, next_trx_id>>
    BY <1>6 DEF OnDebugPrint, Takes
  <2> QED
    BY <2>1, IdsTail
<1>7. CASE Println \/ Noise
  BY <1>7 DEF Println, Noise, Ids, node
<1>8. CASE Confirm
  <2>1. pool'.seen = pool.seen
    BY <1>8, RemoveKeeps, VarTypes DEF Confirm
  <2> QED
    BY <1>8, <2>1 DEF Confirm, Ids
<1> QED
  BY <1>1, <1>2, <1>3, <1>4, <1>5, <1>6, <1>7, <1>8 DEF Next, Admin, Node

-----------------------------------------------------------------------------
(* Types, step by step *)

LEMMA TypesStep ==
  ASSUME Types, Ids, [Next]_vars
  PROVE  Types'
<1>1. CASE UNCHANGED vars
  BY <1>1 DEF Types, TypeOK, HandedOut, Waiting, vars, node, service
<1>2. CASE Service
  <2>1. /\ call' \in Calls /\ reply' \in Replies /\ shown' \subseteq Trxs
        /\ connections' \subseteq Commands /\ HandedOut'
    BY <1>2, ServiceTypes, HandedOutService
  <2>2. calls' = calls \/ calls' = calls + 1
    BY <1>2, ServiceTypes DEF Steps
  <2>3. UNCHANGED <<node, next_trx_id, inbox, log, noise>>
    BY <1>2, ServiceStep
  <2>4. calls' \in Nat
    BY <2>2 DEF Types, TypeOK
  <2> QED
    BY <2>1, <2>3, <2>4 DEF Types, TypeOK, Calls, Replies, node
<1>3. ASSUME NEW c \in connections, Number(c)
      PROVE  Types'
  <2> DEFINE d == [c EXCEPT !.id = next_trx_id]
  <2>1. /\ connections' = (connections \ {c}) \cup {d} /\ next_trx_id' = next_trx_id + 1
        /\ UNCHANGED <<service, node, inbox, log, noise>> /\ c \in Waiting
    BY <1>3 DEF Number, Waiting
  <2>2. /\ calls \in Nat /\ next_trx_id \in Nat /\ next_trx_id # 0 /\ calls <= MaxCalls
        /\ next_trx_id + Cardinality(Waiting) <= IF call.step = "trx" THEN calls ELSE calls + 1
        /\ MaxCalls \in Nat /\ connections \subseteq Commands
    BY VarTypes, TrxsType DEF Types, HandedOut
  <2>3. /\ IsFiniteSet(Waiting \ {c}) /\ Cardinality(Waiting) \in Nat
        /\ Cardinality(Waiting \ {c}) = Cardinality(Waiting) - 1
        /\ Cardinality(Waiting \ {c}) \in Nat
    BY <2>1, WaitingType, FS_CardinalityType
  <2>4. next_trx_id \in Trxs
    BY <2>2, <2>3 DEF Trxs
  <2>5. d \in Commands /\ d.id # 0
    BY <2>2, <2>4, TrxsType DEF Commands
  <2> HIDE DEF d
  <2>6. Waiting' = Waiting \ {c}
    BY <2>1, <2>5 DEF Waiting
  <2>7. connections' \subseteq Commands
    BY <2>1, <2>2, <2>5
  <2>8. next_trx_id' \in Nat /\ next_trx_id' # 0
    BY <2>1, <2>2
  <2>9. HandedOut'
    BY <2>1, <2>2, <2>3, <2>6, <2>8 DEF HandedOut, service
  <2> QED
    BY <2>1, <2>7, <2>8, <2>9 DEF Types, TypeOK, service, node
<1>4. ASSUME NEW c \in connections, Deliver(c)
      PROVE  Types'
  <2>1. inbox' = Append(inbox, c) /\ connections' = connections \ {c} /\ c \notin Waiting
        /\ UNCHANGED <<service, node, next_trx_id, log, noise>>
    BY <1>4 DEF Deliver, Waiting
  <2>2. c \in Commands /\ Append(inbox, c) \in Seq(Commands) /\ connections' \subseteq Commands
    BY <2>1, VarTypes, AppendProperties
  <2>3. Waiting' = Waiting
    BY <2>1 DEF Waiting
  <2> QED
    BY <2>1, <2>2, <2>3 DEF Types, TypeOK, HandedOut, service, node
<1>5. ASSUME LocalTrx \/ OnDebugPrint
      PROVE  Head(inbox) \in Commands /\ Tail(inbox) \in Seq(Commands)
  BY <1>5, VarTypes, HeadTailProperties DEF LocalTrx, OnDebugPrint, Takes
<1>6. CASE LocalTrx
  <2>1. /\ Head(inbox).cmd = "trx" /\ inbox' = Tail(inbox)
        /\ pool' = Push(pool, Head(inbox).id)
        /\ UNCHANGED <<service, chain, output, prints, connections, next_trx_id, log, noise>>
    BY <1>6 DEF LocalTrx, Takes
  <2>2. Head(inbox).id \in Trxs
    <3>1. 1 \in DOMAIN inbox /\ Head(inbox) = inbox[1]
      BY <1>6, VarTypes, TailPlaces DEF LocalTrx, Takes
    <3>2. Head(inbox).id # 0
      BY <2>1, <3>1 DEF Ids, Numbered
    <3> QED
      BY <1>5, <1>6, <3>2 DEF Commands
  <2>3. Push(pool, Head(inbox).id) \in MemPools(Trxs)
    BY <2>1, <2>2, VarTypes, PushType
  <2> QED
    BY <1>5, <1>6, <2>1, <2>3 DEF Types, TypeOK, HandedOut, Waiting, service
<1>7. CASE OnDebugPrint
  <2>1. prints + 1 \in Nat
    BY VarTypes
  <2>2. DebugPrint(prints + 1) \in Seq(Pieces)
    BY <2>1, DebugPrintType
  <2>3. prints' = prints + 1 /\ output' \in Seq(Pieces) /\ inbox' \in Seq(Commands)
        /\ UNCHANGED <<service, pool, chain, connections, next_trx_id, log, noise>>
    BY <1>5, <1>7, <2>2 DEF OnDebugPrint
  <2> QED
    BY <2>1, <2>3 DEF Types, TypeOK, HandedOut, Waiting, service
<1>8. CASE Println
  <2>1. Head(output) \in Pieces /\ Tail(output) \in Seq(Pieces)
    BY <1>8, VarTypes, HeadTailProperties DEF Println
  <2>2. Logged(Head(output)) \in Seq(Seq(Pieces))
    BY <2>1, VarTypes, LoggedType
  <2> QED
    BY <1>8, <2>1, <2>2 DEF Println, Types, TypeOK, HandedOut, Waiting, service
<1>9. CASE Confirm
  <2>1. PICK t \in TrxsOf(pool.queue) \ TrxsOf(chain) :
          /\ chain' = Append(chain, t)
          /\ pool' \in {pool, RemoveIncluded(pool, <<t>>)}
    BY <1>9 DEF Confirm
  <2>2. t \in Trxs
    BY <2>1, VarTypes, TrxsOfType
  <2>3. chain' \in Seq(Trxs)
    BY <2>1, <2>2, VarTypes, AppendProperties
  <2>4. pool' \in MemPools(Trxs)
    BY <2>1, VarTypes, RemoveIncludedType
  <2> QED
    BY <1>9, <2>3, <2>4 DEF Confirm, Types, TypeOK, HandedOut, Waiting, service
<1>10. CASE Noise
  <2>1. << >> \in Seq(Trxs) /\ 0 \in Nat /\ {"gap", "part", "other"} \subseteq PieceTypes
    BY DEF PieceTypes
  <2>2. \A type \in {"gap", "part", "other"} : Piece(type, << >>, 0) \in Pieces
    BY <2>1, PieceType
  <2>3. log' \in Seq(Seq(Pieces))
    BY <1>10, <2>2, VarTypes, LoggedType DEF Noise
  <2>4. noise' \in Nat
    BY <1>10 DEF Noise, Types, TypeOK
  <2> QED
    BY <1>10, <2>3, <2>4 DEF Noise, Types, TypeOK, HandedOut, Waiting, service, node
<1> QED
  BY <1>1, <1>2, <1>3, <1>4, <1>6, <1>7, <1>8, <1>9, <1>10 DEF Next, Admin, Node

LEMMA TypesInit == Init => Types
<1> SUFFICES ASSUME Init PROVE Types
  OBVIOUS
<1>1. /\ call = Idle /\ calls = 0 /\ next_trx_id = 1 /\ prints = 0 /\ noise = 0
      /\ connections = {} /\ inbox = << >> /\ chain = << >> /\ output = << >>
      /\ log = << >> /\ pool = EmptyPool /\ reply = NoReply /\ shown = {}
  BY DEF Init
<1>2. EmptyPool \in MemPools(Trxs)
  BY DEF EmptyPool, MemPools
<1>3. << >> \in Seq(Commands) /\ << >> \in Seq(Trxs) /\ << >> \in Seq(Pieces)
      /\ << >> \in Seq(Seq(Pieces))
  OBVIOUS
<1>4. call \in Calls /\ call.step = "idle"
  BY <1>1 DEF Calls, Idle
<1>5. reply \in Replies
  BY <1>1 DEF NoReply, Answer, Replies
<1>6. TypeOK
  BY <1>1, <1>2, <1>3, <1>4, <1>5 DEF TypeOK, Calls, Replies
<1>7. IsFiniteSet(Waiting) /\ Cardinality(Waiting) = 0
  <2>1. Waiting = {}
    BY <1>1 DEF Waiting
  <2> QED
    BY <2>1, FS_EmptySet
<1> QED
  BY <1>1, <1>4, <1>6, <1>7, TrxsType DEF Types, HandedOut

-----------------------------------------------------------------------------
(* Snapshots *)

Queues == {j \in DOMAIN log : StartsWith(log[j], "mempool")}

\* The last line is open.
Cut == log # << >> /\ Open(log[Len(log)])

\* The line that the next piece goes to
NextLine == IF Cut THEN Len(log) ELSE Len(log) + 1

\* The pieces in the order in which a DebugPrint writes them
Script == <<"BlockChain", "list", "rest", "is_valid", "mempool", "list", "rest">>

\* What is left to write is the end of the last DebugPrint, and of what the node still has.
Scripted ==
  /\ Len(output) <= 7
  /\ \A i \in DOMAIN output :
       /\ output[i].type = Script[7 - Len(output) + i] /\ output[i].print = prints
       /\ output[i].type = "BlockChain" => output[i].trxs = chain
       /\ output[i].type = "mempool" => output[i].trxs = pool.queue

Started == \A i \in DOMAIN log : log[i] # << >>

\* The newlines that a DebugPrint has written when n of its pieces are left
Newlines(n) == IF n >= 5 THEN 0 ELSE IF n = 4 THEN 1 ELSE IF n >= 1 THEN 2 ELSE 3

\* The parser looks for the queue of the chain line i as far as j.
Near(i, j) == i < j /\ j <= i + 3

\* Behind the chain line i there are at least the lines that its DebugPrint has ended,
\* and those of later ones, whoever cut them; it shows what the node has while it prints.
Spaced(i) ==
  /\ log[i][1].print \in Nat /\ log[i][1].print <= prints
  /\ NextLine >= i + Newlines(Len(output)) + (IF log[i][1].print = prints THEN 0 ELSE 3)
  /\ log[i][1].print = prints /\ output # << >> => log[i][1].trxs = chain

\* So a queue near a chain line is of the same DebugPrint.
Paired ==
  \A i \in Markers :
    Spaced(i) /\ \A j \in Queues : Near(i, j) => log[i][1].print = log[j][1].print

Printing == Scripted /\ Started /\ Paired

\* How a line begins stays, and what can be read of it.
Kept ==
  \A i \in DOMAIN log :
    i \in DOMAIN log' /\ log'[i][1] = log[i][1] /\ (Readable(log[i]) => Readable(log'[i]))

\* The line i begins with x.
Begins(i, x) == i = NextLine /\ log'[i][1] = x /\ \A k \in DOMAIN log : k < i

\* A piece that comes to the log
Arrives(x) ==
  /\ Kept /\ Started'
  /\ NextLine \in Nat /\ \A i \in DOMAIN log : i \in Nat /\ i <= NextLine
  /\ NextLine' = IF EndsLine(x) THEN NextLine + 1 ELSE NextLine
  /\ \A i \in Markers' : i \in Markers \/ (x.type = "BlockChain" /\ Begins(i, x))
  /\ \A j \in Queues' : j \in Queues \/ (x.type = "mempool" /\ Begins(j, x))

LEMMA ReadableStays ==
  ASSUME NEW l \in Seq(Pieces), NEW x \in Pieces, Readable(l)
  PROVE  Readable(Append(l, x))
<1>1. PICK k \in 2 .. Len(l) : l[k].type = "list" /\ \A j \in 2 .. k - 1 : l[j].type = "gap"
  BY DEF Readable
<1>2. /\ Len(l) \in Nat /\ Len(Append(l, x)) = Len(l) + 1
      /\ \A j \in 1 .. Len(l) : Append(l, x)[j] = l[j]
  BY AppendProperties, LenProperties
<1>3. k \in 2 .. Len(Append(l, x)) /\ k \in 1 .. Len(l)
      /\ \A j \in 2 .. k - 1 : j \in 1 .. Len(l)
  BY <1>2
<1>4. /\ Append(l, x)[k].type = "list"
      /\ \A j \in 2 .. k - 1 : Append(l, x)[j].type = "gap"
  BY <1>1, <1>2, <1>3
<1> QED
  BY <1>3, <1>4 DEF Readable

LEMMA LogStep ==
  ASSUME Types, Started, NEW x \in Pieces, log' = Logged(x)
  PROVE  Arrives(x)
<1> DEFINE n == Len(log)
<1>1. /\ log \in Seq(Seq(Pieces)) /\ n \in Nat /\ DOMAIN log = 1 .. n
      /\ n = Len(log)
  BY VarTypes, LenProperties
<1> HIDE DEF n
<1>2. \A i \in DOMAIN log : log[i] \in Seq(Pieces) /\ log[i] # << >>
  BY <1>1, ElementOfSeq DEF Started
<1>3. CASE Cut
  <2>1. n \in 1 .. n /\ log[n] \in Seq(Pieces) /\ log[n] # << >>
    BY <1>1, <1>2, <1>3, EmptySeq DEF Cut
  <2>2. log' = [log EXCEPT ![n] = Append(log[n], x)]
    BY <1>1, <1>3 DEF Logged, Cut
  <2>3. Append(log[n], x) \in Seq(Pieces)
    BY <2>1, AppendProperties
  <2>4. Len(log') = n
    BY <1>1, <2>1, <2>2, <2>3, ExceptSeq
  <2>5. /\ DOMAIN log' = 1 .. n
        /\ log'[n] = Append(log[n], x) /\ \A i \in 1 .. n : i # n => log'[i] = log[i]
    BY <1>1, <2>1, <2>2
  <2> DEFINE l == log[n]
  <2>6. /\ Append(l, x) # << >> /\ Append(l, x)[1] = l[1]
        /\ Append(l, x)[Len(Append(l, x))] = x
    <3> HIDE DEF l
    <3>1. l \in Seq(Pieces) /\ Len(l) \in Nat /\ Len(l) # 0
      BY <2>1, EmptySeq, LenProperties DEF l
    <3>2. /\ Len(Append(l, x)) = Len(l) + 1 /\ Append(l, x)[Len(l) + 1] = x
          /\ \A i \in 1 .. Len(l) : Append(l, x)[i] = l[i]
      BY <3>1, AppendProperties
    <3> QED
      BY <3>1, <3>2
  <2>7. \A i \in 1 .. n : log'[i][1] = log[i][1] /\ log'[i] # << >>
    BY <1>1, <1>2, <2>5, <2>6
  <2>8. \A i \in 1 .. n : Readable(log[i]) => Readable(log'[i])
    BY <2>1, <2>5, ReadableStays
  <2>9. Kept /\ Started'
    BY <1>1, <2>5, <2>7, <2>8 DEF Kept, Started
  <2>10. NextLine = n
    BY <1>1, <1>3 DEF NextLine
  <2>11. NextLine' = IF EndsLine(x) THEN n + 1 ELSE n
    <3>1. Cut' <=> ~EndsLine(x)
      <4>1. log' # << >>
        BY <2>1, <2>4
      <4>2. Open(log'[n]) <=> ~EndsLine(x)
        BY <2>5, <2>6 DEF Open
      <4> QED
        BY <2>4, <4>1, <4>2 DEF Cut
    <3> QED
      BY <2>4, <3>1 DEF NextLine
  <2>12. Markers' \subseteq Markers /\ Queues' \subseteq Queues
    <3>1. DOMAIN log' = DOMAIN log /\ \A i \in DOMAIN log : log'[i][1].type = log[i][1].type
      BY <1>1, <2>5, <2>7
    <3> QED
      BY <3>1 DEF Markers, Queues, StartsWith
  <2> QED
    BY <1>1, <2>9, <2>10, <2>11, <2>12 DEF Arrives
<1>4. CASE ~Cut
  <2>1. <<x>> \in Seq(Pieces) /\ <<x>> # << >> /\ <<x>>[1] = x /\ Len(<<x>>) = 1
    OBVIOUS
  <2>2. log' = Append(log, <<x>>)
    BY <1>4 DEF Logged, Cut
  <2>3. Len(log') = n + 1 /\ log' \in Seq(Seq(Pieces))
    BY <1>1, <2>1, <2>2, AppendProperties
  <2>4. /\ DOMAIN log' = 1 .. n + 1
        /\ log'[n + 1] = <<x>> /\ \A i \in 1 .. n : log'[i] = log[i]
    BY <1>1, <2>1, <2>2, <2>3, AppendProperties, LenProperties
  <2>5. \A i \in 1 .. n + 1 : i \in 1 .. n \/ i = n + 1
    BY <1>1
  <2>6. Kept /\ Started'
    <3>1. \A i \in 1 .. n : i \in 1 .. n + 1 /\ log'[i] = log[i] /\ log[i] # << >>
      <4>1. \A i \in 1 .. n : i \in 1 .. n + 1
        BY <1>1
      <4>2. \A i \in 1 .. n : log[i] # << >>
        BY <1>1, <1>2
      <4> QED
        BY <2>4, <4>1, <4>2, Zenon
    <3>2. \A i \in 1 .. n + 1 : log'[i] # << >>
      BY <2>1, <2>4, <2>5, <3>1
    <3>3. DOMAIN log = 1 .. n /\ DOMAIN log' = 1 .. n + 1
      BY <1>1, <2>4
    <3> QED
      BY <3>1, <3>2, <3>3 DEF Kept, Started
  <2>7. NextLine = n + 1
    BY <1>1, <1>4 DEF NextLine
  <2>8. NextLine' = IF EndsLine(x) THEN n + 2 ELSE n + 1
    <3>1. Cut' <=> ~EndsLine(x)
      <4>1. log' # << >>
        BY <1>1, <2>3, EmptySeq
      <4>2. Open(log'[n + 1]) <=> ~EndsLine(x)
        BY <2>1, <2>4 DEF Open
      <4> QED
        BY <2>3, <4>1, <4>2 DEF Cut
    <3> QED
      BY <1>1, <2>3, <3>1 DEF NextLine
  <2>9. ASSUME NEW i \in DOMAIN log', NEW t, StartsWith(log'[i], t)
        PROVE  \/ i \in DOMAIN log /\ StartsWith(log[i], t)
               \/ x.type = t /\ Begins(i, x)
    <3>1. CASE i \in 1 .. n
      BY <1>1, <2>4, <2>9, <3>1 DEF StartsWith
    <3>2. CASE i = n + 1
      BY <1>1, <2>1, <2>4, <2>7, <2>9, <3>2 DEF StartsWith, Begins
    <3> QED
      BY <2>4, <2>5, <3>1, <3>2
  <2>10. /\ \A i \in Markers' : i \in Markers \/ (x.type = "BlockChain" /\ Begins(i, x))
         /\ \A j \in Queues' : j \in Queues \/ (x.type = "mempool" /\ Begins(j, x))
    BY <2>9 DEF Markers, Queues
  <2>11. NextLine \in Nat /\ \A i \in DOMAIN log : i \in Nat /\ i <= NextLine
    BY <1>1, <2>7
  <2>12. NextLine' = IF EndsLine(x) THEN NextLine + 1 ELSE NextLine
    BY <1>1, <2>7, <2>8
  <2> QED
    BY <2>6, <2>10, <2>11, <2>12 DEF Arrives
<1> QED
  BY <1>3, <1>4

\* A line stays a chain line or a queue.
LEMMA LinesStay ==
  ASSUME NEW x, Arrives(x)
  PROVE  /\ \A i \in Markers : i \in Markers' /\ log'[i][1] = log[i][1] /\ i \in Nat
         /\ \A j \in Queues : j \in Queues' /\ log'[j][1] = log[j][1] /\ j \in Nat
BY DEF Arrives, Kept, Markers, Queues, StartsWith

LEMMA ScriptIs ==
  ASSUME Types, Scripted, output # << >>
  PROVE  LET n == Len(output) x == Head(output)
         IN  /\ n \in 1 .. 7 /\ x \in Pieces /\ x.print = prints /\ x.type = Script[8 - n]
             /\ x.type = "BlockChain" => x.trxs = chain /\ n = 7
             /\ x.type = "mempool" => x.trxs = pool.queue /\ n = 3
             /\ Newlines(n - 1) = Newlines(n) + (IF EndsLine(x) THEN 1 ELSE 0)
             /\ Tail(output) \in Seq(Pieces) /\ Len(Tail(output)) = n - 1
             /\ \A i \in 1 .. n - 1 : Tail(output)[i] = output[i + 1]
<1> DEFINE n == Len(output)
           x == Head(output)
<1>1. /\ output \in Seq(Pieces) /\ n \in Nat /\ DOMAIN output = 1 .. n /\ n # 0
      /\ x = output[1] /\ x \in Pieces /\ Tail(output) \in Seq(Pieces)
      /\ Len(Tail(output)) = n - 1
      /\ \A i \in 1 .. n - 1 : Tail(output)[i] = output[i + 1]
  BY VarTypes, LenProperties, EmptySeq, HeadTailProperties
<1>2. n \in 1 .. 7 /\ 1 \in DOMAIN output
  <2>1. n <= 7
    BY DEF Scripted
  <2> HIDE DEF n, x
  <2> QED
    BY <1>1, <2>1
<1>3. /\ x.type = Script[8 - n] /\ x.print = prints
      /\ x.type = "BlockChain" => x.trxs = chain
      /\ x.type = "mempool" => x.trxs = pool.queue
  <2>1. 7 - n + 1 = 8 - n
    BY <1>1
  <2> QED
    BY <1>1, <1>2, <2>1 DEF Scripted
<1> HIDE DEF n, x
<1>4. /\ Script[8 - n] = "BlockChain" <=> n = 7
      /\ Script[8 - n] = "mempool" <=> n = 3
      /\ Script[8 - n] \in {"rest", "is_valid", "other"} <=> n \in {5, 4, 1}
  BY <1>2 DEF Script
<1>5. Newlines(n - 1) = Newlines(n) + (IF n \in {5, 4, 1} THEN 1 ELSE 0)
  BY <1>2 DEF Newlines
<1>6. EndsLine(x) <=> n \in {5, 4, 1}
  BY <1>3, <1>4 DEF EndsLine
<1> QED
  BY <1>1, <1>2, <1>3, <1>4, <1>5, <1>6 DEF n, x

\* The steps that write to the log
LEMMA Writing ==
  ASSUME Types, Printing
  PROVE  /\ Println => Arrives(Head(output))
         /\ Noise => \E x : Arrives(x) /\ x.type \notin {"BlockChain", "mempool"}
<1>1. ASSUME Println
      PROVE  Arrives(Head(output))
  <2>1. log' = Logged(Head(output)) /\ output # << >>
    BY <1>1 DEF Println
  <2>2. Head(output) \in Pieces
    BY <2>1, ScriptIs DEF Printing
  <2> QED
    BY <2>1, <2>2, LogStep DEF Printing
<1>2. ASSUME Noise
      PROVE  \E x : Arrives(x) /\ x.type \notin {"BlockChain", "mempool"}
  <2>1. PICK type \in {"gap", "part", "other"} : log' = Logged(Piece(type, << >>, 0))
    BY <1>2 DEF Noise
  <2> DEFINE x == Piece(type, << >>, 0)
  <2>2. x \in Pieces
    <3>1. << >> \in Seq(Trxs) /\ 0 \in Nat /\ type \in PieceTypes
      BY DEF PieceTypes
    <3> QED
      BY <3>1, PieceType
  <2>3. x.type = type
    BY DEF Piece
  <2> HIDE DEF x
  <2>4. Arrives(x)
    BY <2>1, <2>2, LogStep DEF Printing, x
  <2> QED
    BY <2>3, <2>4
<1> QED
  BY <1>1, <1>2

\* What else changes the log, the output or what they show: only between two prints.
LEMMA QuietStep ==
  ASSUME [Next]_vars
  PROVE  \/ UNCHANGED <<output, prints, log, chain, pool>>
         \/ /\ LocalTrx \/ Confirm \/ OnDebugPrint
            /\ output = << >> /\ log' = log
         \/ Println \/ Noise
<1>1. CASE UNCHANGED vars
  BY <1>1 DEF vars, node
<1>2. CASE Service
  BY <1>2, ServiceStep DEF node
<1>3. CASE Admin
  BY <1>3 DEF Admin, Number, Deliver, node
<1>4. CASE LocalTrx \/ Confirm \/ OnDebugPrint
  BY <1>4 DEF LocalTrx, Confirm, OnDebugPrint, Takes
<1> QED
  BY <1>1, <1>2, <1>3, <1>4 DEF Next, Node

LEMMA PrintingInit == Init => Printing
<1> SUFFICES ASSUME Init PROVE Printing
  OBVIOUS
<1>1. output = << >> /\ log = << >> /\ DOMAIN log = {} /\ DOMAIN output = {}
  BY DEF Init
<1>2. Len(output) = 0
  BY <1>1
<1>3. Markers = {}
  BY <1>1 DEF Markers
<1> QED
  BY <1>1, <1>2, <1>3 DEF Printing, Scripted, Started, Paired

\* A piece in the log: by the node, which then has k of n pieces left, or by another thread
LEMMA PairedWriting ==
  ASSUME Types, Paired, NEW x, Arrives(x), prints' = prints, chain' = chain,
         NEW n \in Nat, Len(output) = n, NEW k \in Nat, Len(output') = k,
         output' # << >> => output # << >>,
         Newlines(k) <= Newlines(n) + (IF EndsLine(x) THEN 1 ELSE 0),
         x.type = "BlockChain" => x.print = prints /\ x.trxs = chain /\ Newlines(k) = 0,
         x.type = "mempool" => x.print = prints /\ Newlines(n) = 2
  PROVE  Paired'
<1> DEFINE add == IF EndsLine(x) THEN 1 ELSE 0
           old(i) == IF log[i][1].print = prints THEN 0 ELSE 3
<1>1. /\ NextLine \in Nat /\ NextLine' = NextLine + add /\ add \in Nat
      /\ Newlines(n) \in Nat /\ Newlines(k) \in Nat /\ prints \in Nat
      /\ Newlines(k) <= Newlines(n) + add
  BY VarTypes DEF Arrives, Newlines
<1>2. ASSUME NEW i \in Markers
      PROVE  /\ i \in Nat /\ i \in Markers' /\ log'[i][1] = log[i][1] /\ old(i) \in Nat
             /\ log[i][1].print \in Nat /\ log[i][1].print <= prints
             /\ NextLine >= i + Newlines(n) + old(i)
             /\ log[i][1].print = prints /\ output # << >> => log[i][1].trxs = chain
  BY LinesStay DEF Paired, Spaced
<1>3. ASSUME NEW i \in Markers', i \notin Markers
      PROVE  x.type = "BlockChain" /\ i = NextLine /\ log'[i][1] = x /\ \A j \in Queues : j < i
  BY <1>3 DEF Arrives, Begins, Queues
<1>4. ASSUME NEW j \in Queues', j \notin Queues
      PROVE  x.type = "mempool" /\ j = NextLine /\ log'[j][1] = x
  BY <1>4 DEF Arrives, Begins
<1>5. ASSUME NEW i \in Markers'
      PROVE  Spaced(i)'
  <2>1. CASE i \in Markers
    <3>1. NextLine + add >= i + Newlines(k) + old(i)
      <4> HIDE DEF add, old
      <4> QED
        BY <1>1, <1>2, <2>1
    <3>2. NextLine' >= i + Newlines(k) + (IF log'[i][1].print = prints THEN 0 ELSE 3)
      BY <1>1, <1>2, <2>1, <3>1
    <3> QED
      BY <1>2, <2>1, <3>2 DEF Spaced
  <2>2. CASE i \notin Markers
    <3>1. /\ i = NextLine /\ log'[i][1] = x /\ x.print = prints /\ x.trxs = chain
          /\ Newlines(k) = 0
      BY <1>3, <2>2
    <3>2. NextLine' >= i
      <4> HIDE DEF add
      <4> QED
        BY <1>1, <3>1
    <3>3. NextLine' >= i + Newlines(k) + (IF log'[i][1].print = prints THEN 0 ELSE 3)
      BY <1>1, <3>1, <3>2
    <3> QED
      BY <1>1, <3>1, <3>3 DEF Spaced
  <2> QED
    BY <2>1, <2>2
<1>6. ASSUME NEW i \in Markers', NEW j \in Queues', Near(i, j)
      PROVE  log'[i][1].print = log'[j][1].print
  <2>1. CASE i \in Markers /\ j \in Queues
    BY <1>2, <1>6, <2>1, LinesStay DEF Paired
  <2>2. CASE i \in Markers /\ j \notin Queues
    <3>1. j = NextLine /\ log'[j][1] = x /\ x.print = prints /\ Newlines(n) = 2
      BY <1>4, <2>2
    <3>2. NextLine <= i + 3 /\ NextLine >= i + 2 + old(i)
      BY <1>2, <1>6, <2>2, <3>1 DEF Near
    <3>3. old(i) # 3
      <4> HIDE DEF old
      <4> QED
        BY <1>1, <1>2, <2>2, <3>2
    <3>4. log[i][1].print = prints
      BY <3>3
    <3> QED
      BY <1>2, <2>2, <3>1, <3>4
  <2>3. CASE i \notin Markers
    <3>1. x.type = "BlockChain" /\ i = NextLine /\ \A l \in Queues : l < i
      BY <1>3, <2>3
    <3>2. j = NextLine \/ j < NextLine
      BY <1>4, <3>1
    <3>3. j \in Nat
      BY <1>1, <1>4, LinesStay
    <3> QED
      BY <1>1, <1>6, <3>1, <3>2, <3>3 DEF Near
  <2> QED
    BY <2>1, <2>2, <2>3
<1> QED
  BY <1>5, <1>6 DEF Paired, Near

LEMMA PrintingStep ==
  ASSUME Types, Printing, [Next]_vars
  PROVE  Printing'
<1>1. CASE UNCHANGED <<output, prints, log, chain, pool>>
  BY <1>1 DEF Printing, Scripted, Started, Paired, Spaced, Markers, Queues, NextLine, Cut
<1>2. CASE output = << >> /\ log' = log /\ (LocalTrx \/ Confirm)
  <2>1. output' = << >> /\ prints' = prints
    BY <1>2 DEF LocalTrx, Confirm
  <2>2. Markers' = Markers /\ Queues' = Queues /\ NextLine' = NextLine
    BY <1>2 DEF Markers, Queues, NextLine, Cut
  <2>3. \A i \in Markers : Spaced(i)'
    BY <1>2, <2>1, <2>2 DEF Printing, Paired, Spaced
  <2>4. Paired' /\ Started'
    BY <1>2, <2>2, <2>3 DEF Printing, Paired, Started
  <2> QED
    BY <2>1, <2>4 DEF Printing, Scripted
<1>3. CASE log' = log /\ OnDebugPrint
  <2>1. /\ output = << >> /\ output' = DebugPrint(prints') /\ prints' = prints + 1
        /\ UNCHANGED <<chain, pool>>
    BY <1>3 DEF OnDebugPrint, Takes
  <2> DEFINE d == DebugPrint(prints')
  <2>2. /\ Len(d) = 7 /\ DOMAIN d = 1 .. 7
        /\ \A i \in 1 .. 7 :
             /\ d[i].type = Script[i] /\ d[i].print = prints'
             /\ d[i].type = "BlockChain" => d[i].trxs = chain
             /\ d[i].type = "mempool" => d[i].trxs = pool.queue
    BY DEF DebugPrint, Printed, Piece, Script
  <2> HIDE DEF d
  <2>3. Scripted'
    <3>1. ASSUME NEW i \in 1 .. 7
          PROVE  /\ d[i].type = Script[7 - 7 + i] /\ d[i].print = prints'
                 /\ d[i].type = "BlockChain" => d[i].trxs = chain
                 /\ d[i].type = "mempool" => d[i].trxs = pool.queue
      <4>1. 7 - 7 + i = i
        OBVIOUS
      <4> QED
        BY <2>2, <4>1
    <3>2. output' = d /\ chain' = chain /\ pool' = pool
      BY <2>1 DEF d
    <3>3. Len(output') = 7 /\ DOMAIN output' = 1 .. 7 /\ Len(output') <= 7
      <4>1. Len(output') = 7 /\ DOMAIN output' = 1 .. 7
        BY <2>2, <3>2, Zenon
      <4> QED
        BY <4>1
    <3>4. ASSUME NEW i \in 1 .. 7
          PROVE  /\ output'[i].type = Script[7 - Len(output') + i]
                 /\ output'[i].print = prints'
                 /\ output'[i].type = "BlockChain" => output'[i].trxs = chain'
                 /\ output'[i].type = "mempool" => output'[i].trxs = pool'.queue
      BY <3>1, <3>2, <3>3, Zenon
    <3> QED
      BY <3>3, <3>4, Zenon DEF Scripted
  <2>4. Markers' = Markers /\ Queues' = Queues /\ NextLine' = NextLine
    BY <1>3 DEF Markers, Queues, NextLine, Cut
  <2>5. /\ Len(output) = 0 /\ Len(output') = 7 /\ prints \in Nat /\ NextLine \in Nat
        /\ Newlines(0) = 3 /\ Newlines(7) = 0
    <3>1. NextLine \in Nat
      BY MarkersFinite DEF NextLine
    <3> QED
      BY <2>1, <2>2, <3>1, VarTypes DEF Newlines, d
  <2>6. ASSUME NEW i \in Markers
        PROVE  Spaced(i)'
    <3>1. /\ log[i][1].print \in Nat /\ log[i][1].print <= prints /\ i \in Nat
          /\ NextLine >= i + 3 + (IF log[i][1].print = prints THEN 0 ELSE 3)
      BY <2>5, MarkersFinite DEF Printing, Paired, Spaced, Markers
    <3>2. NextLine >= i + 3 /\ log[i][1].print <= prints + 1 /\ log[i][1].print # prints + 1
      BY <2>5, <3>1
    <3>3. NextLine' >= i + Newlines(7) + (IF log'[i][1].print = prints' THEN 0 ELSE 3)
      BY <1>3, <2>1, <2>4, <2>5, <3>1, <3>2
    <3> QED
      BY <1>3, <2>1, <2>5, <3>1, <3>2, <3>3 DEF Spaced
  <2>7. Paired' /\ Started'
    BY <1>3, <2>4, <2>6 DEF Printing, Paired, Started
  <2> QED
    BY <2>3, <2>7 DEF Printing
<1>4. CASE Println
  <2> DEFINE x == Head(output)
             n == Len(output)
  <2>1. output # << >> /\ output' = Tail(output) /\ UNCHANGED <<pool, chain, prints>>
    BY <1>4 DEF Println
  <2>2. /\ n \in 1 .. 7 /\ x \in Pieces /\ x.print = prints
        /\ x.type = "BlockChain" => x.trxs = chain /\ n = 7
        /\ x.type = "mempool" => x.trxs = pool.queue /\ n = 3
        /\ Newlines(n - 1) = Newlines(n) + (IF EndsLine(x) THEN 1 ELSE 0)
        /\ output' \in Seq(Pieces) /\ Len(output') = n - 1
        /\ \A i \in 1 .. n - 1 : output'[i] = output[i + 1]
    BY <2>1, ScriptIs DEF Printing
  <2>3. Arrives(x)
    BY <1>4, Writing
  <2>4. Scripted'
    <3>1. DOMAIN output' = 1 .. n - 1 /\ DOMAIN output = 1 .. n
      BY <2>2, VarTypes, LenProperties
    <3> HIDE DEF n
    <3>2. ASSUME NEW i \in 1 .. n - 1
          PROVE  i + 1 \in 1 .. n /\ 7 - n + (i + 1) = 7 - (n - 1) + i
      BY <2>2
    <3>3. \A i \in 1 .. n : /\ output[i].type = Script[7 - n + i] /\ output[i].print = prints
                            /\ output[i].type = "BlockChain" => output[i].trxs = chain
                            /\ output[i].type = "mempool" => output[i].trxs = pool.queue
      BY <3>1 DEF Printing, Scripted, n
    <3>4. ASSUME NEW i \in 1 .. n - 1
          PROVE  /\ output'[i].type = Script[7 - (n - 1) + i] /\ output'[i].print = prints
                 /\ output'[i].type = "BlockChain" => output'[i].trxs = chain
                 /\ output'[i].type = "mempool" => output'[i].trxs = pool.queue
      <4> DEFINE e == output[i + 1]
      <4>1. output'[i] = e
        BY <2>2, <3>4
      <4>2. i + 1 \in 1 .. n /\ 7 - n + (i + 1) = 7 - (n - 1) + i
        BY <3>2
      <4>3. /\ e.type = Script[7 - n + (i + 1)] /\ e.print = prints
            /\ e.type = "BlockChain" => e.trxs = chain
            /\ e.type = "mempool" => e.trxs = pool.queue
        BY <3>3, <4>2
      <4> HIDE DEF e
      <4> QED
        BY <4>1, <4>2, <4>3
    <3>5. n - 1 <= 7
      BY <2>2
    <3> QED
      BY <2>1, <2>2, <3>1, <3>4, <3>5 DEF Scripted
  <2> HIDE DEF x, n
  <2>5. /\ Len(output) = n /\ n \in Nat /\ n - 1 \in Nat
        /\ Newlines(7 - 1) = 0 /\ Newlines(3) = 2 /\ Newlines(n) \in Nat
    BY <2>2 DEF n, Newlines
  <2>6. Newlines(n - 1) <= Newlines(n) + (IF EndsLine(x) THEN 1 ELSE 0)
    BY <2>2, <2>5
  <2>7. Paired'
    BY <2>1, <2>2, <2>3, <2>5, <2>6, PairedWriting DEF Printing
  <2> QED
    BY <2>3, <2>4, <2>7 DEF Printing, Arrives
<1>5. CASE Noise
  <2>1. UNCHANGED <<output, pool, chain, prints>>
    BY <1>5 DEF Noise, node
  <2>2. PICK x : Arrives(x) /\ x.type \notin {"BlockChain", "mempool"}
    BY <1>5, Writing
  <2>3. PICK n \in Nat : n = Len(output)
    BY VarTypes, LenProperties
  <2>4. Newlines(n) <= Newlines(n) + (IF EndsLine(x) THEN 1 ELSE 0)
    BY DEF Newlines
  <2>5. Paired'
    BY <2>1, <2>2, <2>3, <2>4, PairedWriting DEF Printing
  <2> QED
    BY <2>1, <2>2, <2>5 DEF Printing, Scripted, Arrives
<1> QED
  BY <1>1, <1>2, <1>3, <1>4, <1>5, QuietStep

\* The queue with which a snapshot is paired is near.
LEMMA PairNear ==
  ASSUME Types, NEW i \in Snapshots
  PROVE  i \in Markers /\ Pair(i) \in Queues /\ Near(i, Pair(i))
<1>1. Len(log) \in Nat /\ DOMAIN log = 1 .. Len(log)
  BY MarkersFinite
<1>2. i \in Markers /\ Candidates(i) # {} /\ i \in Nat
  BY <1>1 DEF Snapshots, Markers
<1>3. Pair(i) \in Candidates(i)
  BY <1>1, <1>2, Chosen
<1> DEFINE p == Pair(i)
<1>4. p \in i + 1 .. i + 3 /\ p \in Queues
  BY <1>3 DEF Candidates, Queues
<1> HIDE DEF p
<1> QED
  BY <1>2, <1>4 DEF Near, p

-----------------------------------------------------------------------------
(* Answers *)

Confirmed(i) == TrxsOf(log[i][1].trxs)

\* The blocks' transactions, as the log shows them, only grow.
Growing ==
  /\ \A i \in Markers : Confirmed(i) \subseteq TrxsOf(chain)
  /\ \A i, k \in Markers : i <= k => Confirmed(i) \subseteq Confirmed(k)

\* What was answered is in a snapshot that stays in the log.
Standing == shown = {} \/ \E i \in Snapshots : shown \subseteq Confirmed(i)

\* The chain line i and its queue show all of base.
Told(i, base) ==
  \A j \in Queues : Near(i, j) => base \subseteq Confirmed(i) \cup TrxsOf(log[j][1].trxs)

\* The lines of old were counted, and the later ones show all of base.
Later(old, base) ==
  \A i \in Markers \ old : (\A o \in old : o < i) /\ Told(i, base)

Held(base) == base \subseteq TrxsOf(pool.queue) \cup TrxsOf(chain)

\* The node still has what it had when the markers were counted, and shows it in the
\* snapshots since.
Asked ==
  call.step \in {"print", "poll"} =>
    /\ Held(call.base)
    /\ \E old \in SUBSET Markers : Cardinality(old) = call.before /\ Later(old, call.base)

Answered == Growing /\ Standing /\ ConfirmedStays /\ Asked /\ FreshReply

FirstCandidate ==
  \A i \in Markers : Candidates(i) # {} =>
    Pair(i) \in Candidates(i) /\ \A j \in Candidates(i) : Pair(i) <= j

LEMMA FirstCandidateIs == Types => FirstCandidate
<1> SUFFICES ASSUME Types PROVE FirstCandidate
  OBVIOUS
<1>1. Len(log) \in Nat /\ DOMAIN log = 1 .. Len(log)
  BY MarkersFinite
<1> QED
  BY <1>1, Chosen DEF FirstCandidate

\* A snapshot stays one, with the same contents.
LEMMA SnapshotsStay ==
  ASSUME Types, Types', NEW x, Arrives(x)
  PROVE  Snapshots \subseteq Snapshots'
<1> SUFFICES ASSUME NEW i \in Snapshots PROVE i \in Snapshots'
  OBVIOUS
<1>1. FirstCandidate /\ FirstCandidate'
  <2>1. Types => FirstCandidate
    BY FirstCandidateIs
  <2>2. Types' => FirstCandidate'
    BY <2>1, FirstCandidateIs, PTL
  <2> QED
    BY <2>1, <2>2
<1>2. /\ i \in Markers /\ Candidates(i) # {} /\ Readable(log[i]) /\ Readable(log[Pair(i)])
      /\ i \in DOMAIN log
  BY DEF Snapshots, Markers
<1>3. Pair(i) \in Candidates(i) /\ \A j \in Candidates(i) : Pair(i) <= j
  BY <1>1, <1>2 DEF FirstCandidate
<1> DEFINE c == Candidates(i)
           d == Candidates(i)'
           p == Pair(i)
           q == Pair(i)'
<1>4. /\ \A j : j \in c <=> j \in i + 1 .. i + 3 /\ j \in Queues
      /\ \A j : j \in d <=> j \in i + 1 .. i + 3 /\ j \in Queues'
  BY DEF Candidates, Queues
<1>5. /\ \A j : j \in Queues' => j \in Queues \/ (\A k \in Queues : k < j)
      /\ \A j : j \in Queues => j \in Queues' /\ j \in DOMAIN log /\ j \in Nat
      /\ \A j : j \in Queues' => j \in Nat
  BY LinesStay DEF Arrives, Begins, Queues
<1>6. i \in Markers' /\ Readable(log'[i]) /\ Readable(log'[p]) /\ p \in DOMAIN log
  <2>1. i \in Markers' /\ Readable(log'[i])
    BY <1>2, LinesStay DEF Arrives, Kept
  <2>2. p \in DOMAIN log
    BY <1>3, <1>4, <1>5
  <2>3. Readable(log'[p])
    BY <1>2, <2>2 DEF Arrives, Kept
  <2> QED
    BY <2>1, <2>2, <2>3
<1>7. p \in c /\ p \in d /\ d # {} /\ \A j \in c : p <= j
  BY <1>3, <1>4, <1>5
<1>8. q \in d /\ \A j \in d : q <= j
  BY <1>1, <1>6, <1>7 DEF FirstCandidate
<1> HIDE DEF c, d, p, q
<1>9. q = p
  <2>1. q <= p /\ p \in Nat /\ q \in Nat
    BY <1>4, <1>5, <1>7, <1>8
  <2>2. CASE q \in c
    BY <1>7, <2>1, <2>2
  <2>3. CASE \A k \in Queues : k < q
    BY <1>4, <1>7, <2>1, <2>3
  <2> QED
    BY <1>4, <1>5, <1>8, <2>2, <2>3
<1>10. Readable(log'[q]) /\ d # {}
  BY <1>2, <1>6, <1>7, <1>9 DEF p
<1> QED
  BY <1>6, <1>10 DEF Snapshots, d, q

\* The last marker, complete or not
LEMMA LastMarker ==
  ASSUME Types
  PROVE  /\ Snapshots \subseteq Markers /\ \A i \in Markers : i \in Nat
         /\ Markers # {} => Max(Markers) \in Markers /\ \A i \in Markers : i <= Max(Markers)
         /\ Snapshots # {} =>
              Max(Snapshots) \in Snapshots /\ \A i \in Snapshots : i <= Max(Snapshots)
<1>1. Len(log) \in Nat /\ DOMAIN log = 1 .. Len(log)
  BY MarkersFinite
<1>2. Snapshots \subseteq Markers /\ \A i \in Markers : i \in Nat
  BY <1>1 DEF Snapshots, Markers
<1>3. /\ Markers # {} => Max(Markers) \in Markers /\ \A i \in Markers : i <= Max(Markers)
      /\ Snapshots # {} =>
           Max(Snapshots) \in Snapshots /\ \A i \in Snapshots : i <= Max(Snapshots)
  BY <1>1, Chosen
<1> QED
  BY <1>2, <1>3

\* The transactions that a snapshot shows
LEMMA AnswerIs ==
  ASSUME Types, Snapshots # {}, NEW overdue \in BOOLEAN, Reply(overdue)
  PROVE  LET m == Max(Snapshots)
         IN  /\ m \in Snapshots /\ m \in Markers /\ \A i \in Snapshots : i <= m
             /\ reply'.confirmed = Confirmed(m)
             /\ reply'.pending = TrxsOf(log[Pair(m)][1].trxs) \ Confirmed(m)
             /\ shown' = shown \cup Confirmed(m) /\ reply'.base = call.base
             /\ ~reply'.excused => ~overdue /\ Max(Markers) = m
<1> DEFINE m == Max(Snapshots)
<1>1. /\ m \in Snapshots /\ m \in Markers /\ (\A i \in Snapshots : i <= m)
      /\ m \in Nat
  BY LastMarker
<1>2. /\ reply'.confirmed = Confirmed(m)
      /\ reply'.pending = TrxsOf(log[Pair(m)][1].trxs) \ Confirmed(m)
      /\ shown' = shown \cup Confirmed(m) /\ reply'.base = call.base
      /\ ~reply'.excused => ~overdue /\ Max(Markers) \in Snapshots
  BY ReplyType, LatestType DEF Confirmed
<1>3. ASSUME Max(Markers) \in Snapshots
      PROVE  Max(Markers) = m
  <2> DEFINE k == Max(Markers)
  <2>1. m <= k /\ k <= m /\ k \in Nat
    BY <1>1, <1>3, LastMarker
  <2> HIDE DEF k, m
  <2>2. k = m
    BY <1>1, <2>1
  <2> QED
    BY <2>2 DEF k
<1> HIDE DEF m
<1>4. ~reply'.excused => ~overdue /\ Max(Markers) = m
  BY <1>2, <1>3
<1> QED
  BY <1>1, <1>2, <1>4 DEF m

LEMMA AnsweredReply ==
  ASSUME Types, Answered, Snapshots # {}, NEW overdue \in BOOLEAN, Reply(overdue),
         ~overdue => MoreMarkers, call.step = "poll"
  PROVE  Standing' /\ ConfirmedStays' /\ FreshReply' /\ call'.step = "idle"
<1>1. PICK m \in Snapshots :
         /\ m \in Markers /\ \A i \in Snapshots : i <= m
         /\ reply'.confirmed = Confirmed(m)
         /\ reply'.pending = TrxsOf(log[Pair(m)][1].trxs) \ Confirmed(m)
         /\ shown' = shown \cup Confirmed(m) /\ reply'.base = call.base
         /\ ~reply'.excused => ~overdue /\ Max(Markers) = m
  BY AnswerIs
<1>2. log' = log /\ call' = Idle
  BY DEF Reply
<1>3. shown \subseteq Confirmed(m)
  <2>1. \A i \in Snapshots : Confirmed(i) \subseteq Confirmed(m)
    BY <1>1, LastMarker DEF Answered, Growing
  <2> QED
    BY <2>1 DEF Answered, Standing
<1>4. Snapshots' = Snapshots /\ Confirmed(m)' = Confirmed(m)
  BY <1>2 DEF Snapshots, Markers, Candidates, Pair, Confirmed
<1>5. Standing'
  BY <1>1, <1>3, <1>4 DEF Standing
<1>6. ConfirmedStays'
  BY <1>1, <1>3 DEF ConfirmedStays
<1>7. ASSUME ~reply'.excused
      PROVE  call.base \subseteq Confirmed(m) \cup TrxsOf(log[Pair(m)][1].trxs)
  <2>1. PICK old \in SUBSET Markers : Cardinality(old) = call.before /\ Later(old, call.base)
    BY DEF Answered, Asked
  <2>2. Markers # old /\ Max(Markers) = m
    <3>1. Cardinality(Markers) > call.before /\ Max(Markers) = m
      BY <1>1, <1>7 DEF MoreMarkers
    <3>2. call.before \in Nat /\ Cardinality(Markers) \in Nat
      BY MarkersFinite, FS_CardinalityType DEF Types, TypeOK
    <3> QED
      BY <2>1, <3>1, <3>2
  <2>3. PICK i \in Markers : i \notin old
    BY <2>2
  <2>4. m \notin old
    <3>1. i <= m /\ i \in Nat /\ m \in Nat
      BY <1>1, <2>2, LastMarker
    <3>2. m \in old => m < i
      BY <2>1, <2>3 DEF Later
    <3> QED
      BY <3>1, <3>2
  <2>5. Told(m, call.base)
    BY <1>1, <2>1, <2>4 DEF Later
  <2> QED
    BY <1>1, <2>5, PairNear DEF Told
<1>8. FreshReply'
  BY <1>1, <1>7 DEF FreshReply
<1> QED
  BY <1>2, <1>5, <1>6, <1>8 DEF Idle

LEMMA AnsweredService ==
  ASSUME Types, Answered, Service
  PROVE  Answered'
<1>1. UNCHANGED <<pool, chain, log>>
  BY ServiceStep DEF node
<1>2. /\ Markers' = Markers /\ Queues' = Queues /\ Snapshots' = Snapshots
      /\ \A i : Confirmed(i)' = Confirmed(i)
      /\ \A base : Held(base)' <=> Held(base)
      /\ \A old, base : Later(old, base)' <=> Later(old, base)
  BY <1>1 DEF Snapshots, Markers, Queues, Candidates, Pair, Confirmed, Held, Later, Told
<1>3. Growing'
  BY <1>1, <1>2 DEF Answered, Growing
<1>4. CASE \/ \E kind \in {"get", "send"} : Begin(kind)
           \/ AdminSend("trx", "trx", "read")
           \/ AdminError("trx", "trx") \/ AdminError("print", "print") \/ Unavailable
  <2>1. UNCHANGED <<reply, shown>>
    BY <1>4 DEF Begin, AdminSend, AdminError, Unavailable
  <2>2. call \in Calls
    BY DEF Types, TypeOK, Calls
  <2>3. call'.step \notin {"print", "poll"}
    <3>1. ASSUME NEW kind, Begin(kind) PROVE call'.step \in {"trx", "read"}
      BY <3>1 DEF Begin, Idle
    <3>2. ASSUME AdminSend("trx", "trx", "read") PROVE call'.step = "read"
      BY <2>2, <3>2 DEF AdminSend, Calls
    <3>3. ASSUME AdminError("trx", "trx") \/ AdminError("print", "print") \/ Unavailable
          PROVE  call'.step = "idle"
      BY <3>3 DEF AdminError, Unavailable, Idle
    <3> QED
      BY <1>4, <3>1, <3>2, <3>3
  <2>4. Standing' /\ ConfirmedStays' /\ FreshReply'
    BY <1>2, <2>1 DEF Answered, Standing, ConfirmedStays, FreshReply
  <2>5. Asked'
    BY <2>3 DEF Asked
  <2> QED
    BY <1>3, <2>4, <2>5 DEF Answered
<1>5. CASE AdminSend("print", "print", "poll")
  <2>1. /\ UNCHANGED <<reply, shown>> /\ call.step = "print"
        /\ call'.base = call.base /\ call'.before = call.before
    BY <1>5 DEF AdminSend, Types, TypeOK
  <2>2. Standing' /\ ConfirmedStays' /\ FreshReply'
    BY <1>2, <2>1 DEF Answered, Standing, ConfirmedStays, FreshReply
  <2>3. Asked'
    BY <1>2, <2>1 DEF Answered, Asked
  <2> QED
    BY <1>3, <2>2, <2>3 DEF Answered
<1>6. CASE ReadBefore
  <2>1. /\ UNCHANGED <<reply, shown>>
        /\ call'.base = TrxsOf(pool.queue) \cup TrxsOf(chain)
        /\ call'.before = Cardinality(Markers)
    BY <1>6 DEF ReadBefore, Types, TypeOK
  <2>2. Standing' /\ ConfirmedStays' /\ FreshReply'
    BY <1>2, <2>1 DEF Answered, Standing, ConfirmedStays, FreshReply
  <2>3. PICK b : b = call'.base
    OBVIOUS
  <2>4. Held(b) /\ Later(Markers, b)
    BY <2>1, <2>3 DEF Held, Later
  <2>5. Asked'
    BY <1>2, <2>1, <2>3, <2>4 DEF Asked
  <2> QED
    BY <1>3, <2>2, <2>5 DEF Answered
<1>7. CASE Poll \/ Deadline
  <2>1. PICK overdue \in BOOLEAN :
          /\ Reply(overdue) /\ Snapshots # {} /\ call.step = "poll"
          /\ ~overdue => MoreMarkers
    BY <1>7 DEF Poll, Deadline
  <2>2. Standing' /\ ConfirmedStays' /\ FreshReply' /\ call'.step = "idle"
    BY <2>1, AnsweredReply
  <2> QED
    BY <1>3, <2>2 DEF Answered, Asked
<1> QED
  BY <1>4, <1>5, <1>6, <1>7 DEF Service
\* A block, or a transaction: the node forgets none, the log stays.
LEMMA AnsweredNode ==
  ASSUME Answered, UNCHANGED <<service, log>>,
         TrxsOf(chain) \subseteq (TrxsOf(chain))',
         TrxsOf(pool.queue) \subseteq (TrxsOf(pool.queue))' \cup (TrxsOf(chain))'
  PROVE  Answered'
<1>1. /\ Markers' = Markers /\ Queues' = Queues /\ Snapshots' = Snapshots
      /\ \A i : Confirmed(i)' = Confirmed(i)
      /\ \A base : Held(base) => Held(base)'
      /\ \A old, base : Later(old, base)' <=> Later(old, base)
  BY DEF Snapshots, Markers, Queues, Candidates, Pair, Confirmed, Held, Later, Told
<1>2. UNCHANGED <<call, reply, shown>>
  BY DEF service
<1>3. Growing'
  BY <1>1 DEF Answered, Growing
<1>4. Standing' /\ ConfirmedStays' /\ FreshReply'
  BY <1>1, <1>2 DEF Answered, Standing, ConfirmedStays, FreshReply
<1>5. Asked'
  BY <1>1, <1>2 DEF Answered, Asked
<1> QED
  BY <1>3, <1>4, <1>5 DEF Answered

\* A piece in the log
LEMMA AnsweredWriting ==
  ASSUME Types, Types', Printing, Printing', Answered,
         UNCHANGED <<service, chain, pool, prints>>,
         NEW x, Arrives(x), x.type = "BlockChain" => x.trxs = chain,
         x.type = "mempool" => x.trxs = pool.queue /\ x.print = prints /\ output # << >>
  PROVE  Answered'
<1>1. PICK n \in Nat : n = NextLine
  BY DEF Arrives
<1>2. /\ \A i \in Markers : log'[i][1] = log[i][1] /\ i \in Markers' /\ i \in Nat
      /\ \A j \in Queues : log'[j][1] = log[j][1] /\ j \in Nat
  BY LinesStay
<1>3. \A i \in Markers : Confirmed(i)' = Confirmed(i)
  BY <1>2 DEF Confirmed
<1>4. ASSUME NEW i \in Markers', i \notin Markers
      PROVE  /\ i = n /\ Confirmed(i)' = TrxsOf(chain) /\ x.type = "BlockChain"
             /\ \A k \in Markers \cup Queues : k < n
  BY <1>1, <1>4 DEF Arrives, Begins, Confirmed, Markers, Queues
<1>5. ASSUME NEW j \in Queues', j \notin Queues
      PROVE  j = n /\ log'[j][1] = x /\ x.type = "mempool"
  BY <1>1, <1>5 DEF Arrives, Begins
<1>6. UNCHANGED <<call, reply, shown>> /\ chain' = chain
  BY DEF service
<1>7. Growing'
  <2>1. ASSUME NEW i \in Markers' PROVE Confirmed(i)' \subseteq TrxsOf(chain)
    BY <1>3, <1>4 DEF Answered, Growing
  <2>2. ASSUME NEW i \in Markers', NEW k \in Markers', i <= k
        PROVE  Confirmed(i)' \subseteq Confirmed(k)'
    <3>1. CASE k \in Markers
      <4>1. i \in Markers
        BY <1>2, <1>4, <2>2, <3>1
      <4> QED
        BY <1>3, <2>2, <3>1, <4>1 DEF Answered, Growing
    <3>2. CASE k \notin Markers
      BY <1>4, <2>1, <3>2
    <3> QED
      BY <3>1, <3>2
  <2> QED
    BY <1>6, <2>1, <2>2 DEF Growing
<1>8. Standing' /\ ConfirmedStays' /\ FreshReply'
  <2>1. Snapshots \subseteq Snapshots' /\ Snapshots \subseteq Markers
    BY SnapshotsStay, LastMarker
  <2>2. Standing'
    BY <1>3, <1>6, <2>1 DEF Answered, Standing
  <2> QED
    BY <1>6, <2>2 DEF Answered, ConfirmedStays, FreshReply
<1>9. ASSUME NEW base, Held(base), NEW i \in Markers, Told(i, base)
      PROVE  Told(i, base)'
  <2> SUFFICES ASSUME NEW j \in Queues', Near(i, j)
               PROVE  base \subseteq Confirmed(i)' \cup TrxsOf(log'[j][1].trxs)
    BY DEF Told, Near
  <2>1. CASE j \in Queues
    BY <1>2, <1>3, <1>9, <2>1 DEF Told
  <2>2. CASE j \notin Queues
    <3>1. j = n /\ log'[j][1] = x /\ x.type = "mempool" /\ x.trxs = pool.queue
      BY <1>5, <2>2
    <3>2. log[i][1].print = prints
      <4>1. log'[i][1].print = log'[j][1].print
        BY <1>2 DEF Printing, Paired, Near
      <4> QED
        BY <1>2, <3>1, <4>1
    <3>3. Confirmed(i) = TrxsOf(chain)
      BY <3>1, <3>2 DEF Printing, Paired, Spaced, Confirmed
    <3> QED
      BY <1>3, <1>9, <3>1, <3>3 DEF Held
  <2> QED
    BY <2>1, <2>2
<1>10. ASSUME NEW base, NEW i \in Markers', i \notin Markers
       PROVE  Told(i, base)'
  <2>1. ASSUME NEW j \in Queues' PROVE ~Near(i, j)
    <3>1. i = n /\ x.type = "BlockChain" /\ \A k \in Queues : k < n
      BY <1>4, <1>10
    <3>2. j \in Nat /\ j <= n
      BY <1>2, <1>5, <3>1
    <3> QED
      BY <3>1, <3>2 DEF Near
  <2> QED
    BY <2>1 DEF Told, Near
<1>11. ASSUME NEW base, Held(base), NEW old \in SUBSET Markers, Later(old, base)
       PROVE  Later(old, base)'
  <2>1. ASSUME NEW i \in Markers', i \notin old
        PROVE  (\A o \in old : o < i) /\ Told(i, base)'
    <3>1. CASE i \in Markers
      BY <1>9, <1>11, <2>1, <3>1 DEF Later
    <3>2. CASE i \notin Markers
      BY <1>4, <1>10, <2>1, <3>2
    <3> QED
      BY <3>1, <3>2
  <2> QED
    BY <2>1 DEF Later
<1>12. Asked'
  <2> SUFFICES ASSUME call.step \in {"print", "poll"}
               PROVE  /\ Held(call.base)'
                      /\ \E old \in SUBSET Markers' :
                           Cardinality(old) = call.before /\ Later(old, call.base)'
    BY <1>6 DEF Asked
  <2>1. PICK b : b = call.base
    OBVIOUS
  <2>2. PICK old \in SUBSET Markers : Cardinality(old) = call.before /\ Later(old, b)
    BY <2>1 DEF Answered, Asked
  <2>3. Held(b) /\ Held(b)'
    BY <1>6, <2>1 DEF Answered, Asked, Held
  <2>4. Later(old, b)' /\ old \in SUBSET Markers'
    BY <1>2, <1>11, <2>2, <2>3
  <2> QED
    BY <1>6, <2>1, <2>2, <2>3, <2>4
<1> QED
  BY <1>7, <1>8, <1>12 DEF Answered

LEMMA AnsweredStep ==
  ASSUME Types, Types', Ids, Printing, Printing', Answered, [Next]_vars
  PROVE  Answered'
<1>1. CASE Service
  BY <1>1, AnsweredService
<1>2. CASE UNCHANGED vars \/ Admin \/ OnDebugPrint
  <2>1. UNCHANGED <<service, log, pool, chain>>
    BY <1>2 DEF Admin, Number, Deliver, OnDebugPrint, vars, node
  <2> QED
    BY <2>1, AnsweredNode
<1>3. CASE LocalTrx
  <2>1. UNCHANGED <<service, log, chain>> /\ pool' = Push(pool, Head(inbox).id)
    BY <1>3 DEF LocalTrx
  <2>2. Head(inbox).id \in Nat /\ pool \in MemPools(Nat)
    <3>1. Head(inbox) \in Commands
      BY <1>3, VarTypes, HeadTailProperties DEF LocalTrx, Takes
    <3>2. Trxs \cup {0} \subseteq Nat
      BY TrxsType
    <3>3. Head(inbox).id \in Trxs \cup {0}
      BY <3>1 DEF Commands
    <3>4. Seq(Trxs) \subseteq Seq(Nat)
      BY <3>2
    <3> QED
      BY <3>2, <3>3, <3>4, VarTypes DEF MemPools
  <2>3. TrxsOf(pool.queue) \subseteq TrxsOf(pool'.queue)
    BY <2>1, <2>2, PushKeeps DEF Queued, TrxsOf
  <2> QED
    BY <2>1, <2>3, AnsweredNode
<1>4. CASE Confirm
  <2>1. PICK t \in TrxsOf(pool.queue) \ TrxsOf(chain) :
          /\ chain' = Append(chain, t)
          /\ pool' \in {pool, RemoveIncluded(pool, <<t>>)}
    BY <1>4 DEF Confirm
  <2>2. UNCHANGED <<service, log>>
    BY <1>4 DEF Confirm
  <2>3. TrxsOf(chain) \subseteq TrxsOf(chain') /\ t \in TrxsOf(chain')
    <3> DEFINE n == Len(chain)
    <3>1. chain \in Seq(Trxs) /\ t \in Trxs
      BY <2>1, VarTypes, TrxsOfType
    <3>2. /\ DOMAIN chain = 1 .. n /\ n \in Nat /\ DOMAIN chain' = 1 .. n + 1
          /\ chain'[n + 1] = t /\ \A i \in 1 .. n : chain'[i] = chain[i]
      BY <2>1, <3>1, AppendProperties, LenProperties
    <3> HIDE DEF n
    <3> QED
      BY <3>2 DEF TrxsOf
  <2>4. TrxsOf(pool.queue) \subseteq TrxsOf(pool'.queue) \cup TrxsOf(chain')
    <3>1. \A i \in DOMAIN <<t>> : <<t>>[i] = t
      OBVIOUS
    <3>2. \A u \in Queued(pool) : u \in Queued(RemoveIncluded(pool, <<t>>)) \/ u = t
      BY <3>1, VarTypes, RemoveKeeps
    <3> QED
      BY <2>1, <2>3, <3>2 DEF Queued, TrxsOf
  <2> QED
    BY <2>2, <2>3, <2>4, AnsweredNode
<1>5. CASE Println
  <2>1. output # << >> /\ UNCHANGED <<service, pool, chain, prints>>
    BY <1>5 DEF Println
  <2>2. PICK x : x = Head(output)
    OBVIOUS
  <2>3. /\ x.type = "BlockChain" => x.trxs = chain
        /\ x.type = "mempool" => x.trxs = pool.queue /\ x.print = prints
    BY <2>1, <2>2, ScriptIs DEF Printing
  <2>4. Arrives(x)
    BY <1>5, <2>2, Writing
  <2> QED
    BY <2>1, <2>3, <2>4, AnsweredWriting
<1>6. CASE Noise
  <2>1. PICK x : Arrives(x) /\ x.type \notin {"BlockChain", "mempool"}
    BY <1>6, Writing
  <2> QED
    BY <1>6, <2>1, AnsweredWriting DEF Noise, node
<1> QED
  BY <1>1, <1>2, <1>3, <1>4, <1>5, <1>6 DEF Next, Node

LEMMA AnsweredInit == Init => Answered
<1> SUFFICES ASSUME Init PROVE Answered
  OBVIOUS
<1>1. /\ log = << >> /\ shown = {} /\ call.step = "idle" /\ reply.excused
      /\ Markers = {}
  BY DEF Init, Idle, NoReply, Answer, Markers
<1> QED
  BY <1>1 DEF Answered, Growing, Standing, ConfirmedStays, Asked, FreshReply

-----------------------------------------------------------------------------
(* The theorems *)

LEMMA ChatInvariant == Spec => [](Types /\ Ids /\ Printing /\ Answered)
<1>1. Init => Types /\ Ids /\ Printing /\ Answered
  BY TypesInit, PrintingInit, AnsweredInit DEF Init, Ids, EmptyPool
<1>2. Types /\ Ids /\ Printing /\ Answered /\ [Next]_vars
        => (Types /\ Ids /\ Printing /\ Answered)'
  BY TypesStep, IdsStep, PrintingStep, AnsweredStep
<1> QED
  BY <1>1, <1>2, PTL DEF Spec

\* The variables of the service, of the admin listener and of the node keep their types:
\* a call takes at most one number, so that the numbers stay among those of the calls.
THEOREM ChatTypes == Spec => []TypeOK
<1>1. Types => TypeOK
  BY DEF Types
<1> QED
  BY <1>1, ChatInvariant, PTL

\* No message on its way has the id of another, nor of one the node has.
THEOREM NumbersDistinct == Spec => []IdsDistinct
<1>1. ASSUME Types, Ids PROVE IdsDistinct
  <2> DEFINE coming == {c \in connections \cup TrxsOf(inbox) : c.cmd = "trx" /\ c.id # 0}
  <2>1. \A c \in coming : c \in connections \/ \E i \in DOMAIN inbox : c = inbox[i]
    BY DEF TrxsOf
  <2>2. \A c \in coming : c.id \notin pool.seen
    BY <1>1, <2>1 DEF Ids, Numbered
  <2>3. \A c, d \in coming : c.id = d.id => c = d
    BY <1>1, <2>1 DEF Ids, Numbered
  <2> QED
    BY <2>2, <2>3 DEF IdsDistinct
<1> QED
  BY <1>1, ChatInvariant, PTL

\* A chain and a queue that the parser pairs were printed by the same DebugPrint.
THEOREM SameMoment == Spec => []PairsMatch
<1>1. ASSUME Types, Printing
      PROVE  PairsMatch
  BY <1>1, PairNear DEF PairsMatch, Printing, Paired
<1> QED
  BY <1>1, ChatInvariant, PTL

\* What was once answered as confirmed is confirmed in every later answer and never
\* pending again.
THEOREM NothingUnconfirmed == Spec => []ConfirmedStays
<1>1. Answered => ConfirmedStays
  BY DEF Answered
<1> QED
  BY <1>1, ChatInvariant, PTL

\* An answer that is neither overdue nor read beside a half-written snapshot shows all
\* that the node had when the service looked at the log, whichever call printed it.
THEOREM AnswersFresh == Spec => []FreshReply
<1>1. Answered => FreshReply
  BY DEF Answered
<1> QED
  BY <1>1, ChatInvariant, PTL

=============================================================================
