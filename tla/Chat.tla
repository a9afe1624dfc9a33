-------------------------------- MODULE Chat ---------------------------------
(***************************************************************************)
(* The chat service of src/webapp beside its node: service.py sends `trx'  *)
(* and `print' to the admin port, each on a TCP connection of its own that *)
(* a thread of admin.rs handles, and looks for the answer in the node's    *)
(* log, which log_parser.py reads and into which every thread of the node  *)
(* writes.                                                                 *)
(*                                                                         *)
(* Calls of the service are serialized by its lock.  Of the node's life    *)
(* only the pool, the confirmed transactions and the output are kept; how  *)
(* transactions are confirmed is the subject of B4n.                       *)
(***************************************************************************)
EXTENDS Mempool, FiniteSetsExt

CONSTANTS MaxCalls,  \* bound: calls of the service
          MaxNoise   \* bound: what the node's other threads write, lines or parts of one

ASSUME ChatAssumption == {MaxCalls, MaxNoise} \subseteq Nat

VARIABLES
  call,         \* where the call in progress stands; step "idle" between calls
  calls,        \* the calls so far
  connections,  \* what the threads of the admin listener have in hand
  next_trx_id,  \* global_next_trx_id
  inbox,        \* the admin's messages in the node's channel
  pool, chain,  \* the node's MemPool, and the transactions of its blocks
  output,       \* the pieces of a DebugPrint that are not written yet
  prints,       \* history: how many DebugPrints the node has begun
  log,          \* the log file: a sequence of lines, a line a sequence of pieces
  noise,        \* how often other threads have written so far
  reply,        \* the last answer of the service
  shown         \* history: the transactions ever answered as confirmed

service == <<call, calls, reply, shown>>
node == <<pool, chain, output, prints>>
vars == <<service, node, connections, next_trx_id, inbox, log, noise>>

-----------------------------------------------------------------------------
(* The log.  println! hands a long line to the file in pieces: one ahead of  *)
(* the end of the list that the parser looks for, that "list", the "rest".   *)
(* eprintln! hands each fragment of its line to the file on its own.  It may *)
(* fall on a "gap", which the parser reads past, or spoil a "part" of what   *)
(* it reads; the last is "other".  A newline ends "rest", "is_valid" and     *)
(* "other".                                                                  *)

Piece(type, trxs, print) == [type |-> type, trxs |-> trxs, print |-> print]

\* What println! makes of a line with a list
Printed(type, trxs, k) ==
  <<Piece(type, trxs, k), Piece("list", << >>, k), Piece("rest", << >>, k)>>

\* The k-th DebugPrint: the chain, is_valid, the pool.
DebugPrint(k) ==
  Printed("BlockChain", chain, k) \o <<Piece("is_valid", << >>, k)>>
    \o Printed("mempool", pool.queue, k)

EndsLine(piece) == piece.type \in {"rest", "is_valid", "other"}

Open(line) == ~EndsLine(line[Len(line)])

\* A piece goes on with an open line, whoever writes it.
Logged(piece) ==
  IF log # << >> /\ Open(log[Len(log)])
  THEN [log EXCEPT ![Len(log)] = Append(@, piece)]
  ELSE Append(log, <<piece>>)

StartsWith(line, type) == line[1].type = type

\* The list can be read: nothing has come between that spoils it.  The rest may be cut
\* off, or not be there yet.
Readable(line) ==
  \E k \in 2 .. Len(line) :
    line[k].type = "list" /\ \A j \in 2 .. k - 1 : line[j].type = "gap"

\* count_snapshot_markers
Markers == {i \in DOMAIN log : StartsWith(log[i], "BlockChain")}

\* The mempool lines that _iter_snapshot_pairs looks at for the chain line i.
Candidates(i) == {j \in (i + 1 .. i + 3) \cap DOMAIN log : StartsWith(log[j], "mempool")}

\* Mutant: any later mempool line will do.
Pair_last(i) == Max({j \in DOMAIN log : StartsWith(log[j], "mempool")})

\* The first one is paired with it.
Pair(i) == Min(Candidates(i))

\* The pairs that parse, each by its chain line
Snapshots ==
  {i \in Markers : Candidates(i) # {} /\ Readable(log[i]) /\ Readable(log[Pair(i)])}

TrxsOf(s) == {s[i] : i \in DOMAIN s}

\* Mutant: the queue is shown as it is.
Pending_all(queue, confirmed) == TrxsOf(queue)

\* _exclude_confirmed
Pending(queue, confirmed) == TrxsOf(queue) \ TrxsOf(confirmed)

\* parse_latest_snapshot
Latest ==
  LET i == Max(Snapshots)
      confirmed == log[i][1].trxs
  IN  [confirmed |-> TrxsOf(confirmed), pending |-> Pending(log[Pair(i)][1].trxs, confirmed)]

-----------------------------------------------------------------------------

\* before: the markers counted; base: history, what the node had when they were.
Idle == [step |-> "idle", before |-> 0, base |-> {}]

\* base, excused: history, what a timely answer has to show, and whether this is none.
Answer(snapshot, base, excused) ==
  [confirmed |-> snapshot.confirmed, pending |-> snapshot.pending,
   base |-> base, excused |-> excused]

NoReply == Answer([confirmed |-> {}, pending |-> {}], {}, TRUE)

Init ==
  /\ call = Idle /\ calls = 0
  /\ connections = {} /\ next_trx_id = 1 /\ inbox = << >>
  /\ pool = EmptyPool /\ chain = << >> /\ output = << >> /\ prints = 0
  /\ log = << >> /\ noise = 0
  /\ reply = NoReply /\ shown = {}

-----------------------------------------------------------------------------
(* The service *)

\* get_chat_state and send_message take the lock.
Begin(kind) ==
  /\ call.step = "idle" /\ calls < MaxCalls
  /\ call' = [Idle EXCEPT !.step = IF kind = "send" THEN "trx" ELSE "read"]
  /\ calls' = calls + 1
  /\ UNCHANGED <<reply, shown, node, connections, next_trx_id, inbox, log, noise>>

\* A connection with one command, from which the service expects no answer.
Connection(cmd) == [call |-> calls, cmd |-> cmd, id |-> 0]

\* admin_client.send
AdminSend(cmd, step, next) ==
  /\ call.step = step
  /\ connections' = connections \cup {Connection(cmd)}
  /\ call' = [call EXCEPT !.step = next]
  /\ UNCHANGED <<calls, reply, shown, node, next_trx_id, inbox, log, noise>>

\* AdminCommandError ends the call, whether or not the command has gone through.
AdminError(cmd, step) ==
  /\ call.step = step
  /\ connections' \in {connections, connections \cup {Connection(cmd)}}
  /\ call' = Idle
  /\ UNCHANGED <<calls, reply, shown, node, next_trx_id, inbox, log, noise>>

\* _load_snapshot_locked counts the markers before it sends `print'.
ReadBefore ==
  /\ call.step = "read"
  /\ call' = [call EXCEPT !.step = "print", !.before = Cardinality(Markers),
                          !.base = TrxsOf(pool.queue) \cup TrxsOf(chain)]
  /\ UNCHANGED <<calls, reply, shown, node, connections, next_trx_id, inbox, log, noise>>

\* Mutant: any marker will do.
MoreMarkers_or_equal == Cardinality(Markers) >= call.before

MoreMarkers == Cardinality(Markers) > call.before

\* The answer: after the deadline, or when the last snapshot is not complete, it may be
\* out of date.
Reply(overdue) ==
  /\ reply' = Answer(Latest, call.base, overdue \/ Max(Markers) \notin Snapshots)
  /\ shown' = shown \cup reply'.confirmed
  /\ call' = Idle
  /\ UNCHANGED <<calls, node, connections, next_trx_id, inbox, log, noise>>

\* One turn of the waiting loop that finds a new marker and a complete snapshot.
Poll ==
  /\ call.step = "poll"
  /\ MoreMarkers /\ Snapshots # {}
  /\ Reply(FALSE)

\* The deadline has passed: the latest snapshot, however old, is the answer, ...
Deadline ==
  /\ call.step = "poll"
  /\ Snapshots # {}
  /\ Reply(TRUE)

\* ... and if there is none SnapshotUnavailableError.
Unavailable ==
  /\ call.step = "poll"
  /\ Snapshots = {}
  /\ call' = Idle
  /\ UNCHANGED <<calls, reply, shown, node, connections, next_trx_id, inbox, log, noise>>

-----------------------------------------------------------------------------
(* The admin listener: one thread for each connection *)

\* Mutant: each connection counts for itself.
Number_own(c) ==
  /\ c.cmd = "trx" /\ c.id = 0
  /\ connections' = (connections \ {c}) \cup {[c EXCEPT !.id = 1]}
  /\ UNCHANGED <<service, node, next_trx_id, inbox, log, noise>>

\* fetch_add for a `trx' command
Number(c) ==
  /\ c.cmd = "trx" /\ c.id = 0
  /\ connections' = (connections \ {c}) \cup {[c EXCEPT !.id = next_trx_id]}
  /\ next_trx_id' = next_trx_id + 1
  /\ UNCHANGED <<service, node, inbox, log, noise>>

\* Mutant: the transaction is sent before it has its number.
Deliver_unnumbered(c) ==
  /\ inbox' = Append(inbox, c)
  /\ connections' = connections \ {c}
  /\ UNCHANGED <<service, node, next_trx_id, log, noise>>

\* LocalTrx or DebugPrint is sent to the node.
Deliver(c) ==
  /\ c.cmd = "trx" => c.id # 0
  /\ inbox' = Append(inbox, c)
  /\ connections' = connections \ {c}
  /\ UNCHANGED <<service, node, next_trx_id, log, noise>>

-----------------------------------------------------------------------------
(* The node *)

\* The node thread is between two events and the next is of the admin.
Takes(cmd) == output = << >> /\ inbox # << >> /\ Head(inbox).cmd = cmd

\* All messages have the same text, so that the id tells transactions apart.
LocalTrx ==
  /\ Takes("trx")
  /\ inbox' = Tail(inbox)
  /\ pool' = Push(pool, Head(inbox).id)
  /\ UNCHANGED <<service, chain, output, prints, connections, next_trx_id, log, noise>>

OnDebugPrint ==
  /\ Takes("print")
  /\ inbox' = Tail(inbox)
  /\ prints' = prints + 1
  /\ output' = DebugPrint(prints')
  /\ UNCHANGED <<service, pool, chain, connections, next_trx_id, log, noise>>

Println ==
  /\ output # << >>
  /\ log' = Logged(Head(output))
  /\ output' = Tail(output)
  /\ UNCHANGED <<service, pool, chain, prints, connections, next_trx_id, inbox, noise>>

\* A block with the first transaction of the queue is added, the node's own or one of
\* another node; if it was an orphan the pool is not cleaned.
Confirm ==
  /\ output = << >> /\ TrxsOf(pool.queue) \ TrxsOf(chain) # {}
  /\ \E t \in TrxsOf(pool.queue) \ TrxsOf(chain) :
       /\ chain' = Append(chain, t)
       /\ pool' \in {pool, RemoveIncluded(pool, <<t>>)}
  /\ UNCHANGED <<service, output, prints, connections, next_trx_id, inbox, log, noise>>

\* One write of an eprintln! of a transport thread
Noise ==
  /\ noise < MaxNoise
  /\ noise' = noise + 1
  /\ \E type \in {"gap", "part", "other"} : log' = Logged(Piece(type, << >>, 0))
  /\ UNCHANGED <<service, node, connections, next_trx_id, inbox>>

-----------------------------------------------------------------------------

Service ==
  \/ \E kind \in {"get", "send"} : Begin(kind)
  \/ AdminSend("trx", "trx", "read") \/ AdminSend("print", "print", "poll")
  \/ AdminError("trx", "trx") \/ AdminError("print", "print")
  \/ ReadBefore \/ Poll \/ Deadline \/ Unavailable

Admin == \E c \in connections : Number(c) \/ Deliver(c)

Node == LocalTrx \/ OnDebugPrint \/ Println \/ Confirm \/ Noise

Next == Service \/ Admin \/ Node

Spec == Init /\ [][Next]_vars

-----------------------------------------------------------------------------
(* Properties *)

Trxs == 1 .. MaxCalls

Commands == [call : 1 .. MaxCalls, cmd : {"trx", "print"}, id : Trxs \cup {0}]

PieceTypes == {"BlockChain", "mempool", "list", "rest", "is_valid", "gap", "part", "other"}

Pieces == [type : PieceTypes, trxs : Seq(Trxs), print : Nat]

TypeOK ==
  /\ call \in [step : {"idle", "trx", "read", "print", "poll"}, before : Nat,
               base : SUBSET Trxs]
  /\ calls \in Nat /\ next_trx_id \in Nat /\ prints \in Nat /\ noise \in Nat
  /\ connections \subseteq Commands /\ inbox \in Seq(Commands)
  /\ pool \in MemPools(Trxs) /\ chain \in Seq(Trxs)
  /\ output \in Seq(Pieces) /\ log \in Seq(Seq(Pieces))
  /\ reply \in [confirmed : SUBSET Trxs, pending : SUBSET Trxs, base : SUBSET Trxs,
                excused : BOOLEAN]
  /\ shown \subseteq Trxs

\* No message on its way to the node has the id of another, nor of one the node has:
\* with the same text the pool would take it for a repetition and drop it, whichever
\* threads of the admin listener numbered the two.
IdsDistinct ==
  LET coming == {c \in connections \cup TrxsOf(inbox) : c.cmd = "trx" /\ c.id # 0}
  IN  /\ \A c, d \in coming : c.id = d.id => c = d
      /\ \A c \in coming : c.id \notin pool.seen

\* A chain and a queue that log_parser.py pairs were printed by the same DebugPrint,
\* wherever other output has cut the lines: an answer never mixes two moments.
PairsMatch ==
  \A i \in Snapshots : log[i][1].print = log[Pair(i)][1].print

\* What was once answered as confirmed is confirmed in every later answer and never
\* pending again, also when the node still has it in its pool.
ConfirmedStays == shown \subseteq reply.confirmed /\ shown \cap reply.pending = {}

\* An answer shows everything the node had when the service looked at the log, also when
\* it is the print of an earlier call that it finds; unless the deadline passed, or what
\* it waited for was only the beginning of a snapshot.
FreshReply == reply.excused \/ reply.base \subseteq reply.confirmed \cup reply.pending

=============================================================================
