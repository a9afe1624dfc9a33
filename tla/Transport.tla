------------------------------ MODULE Transport ------------------------------
(***************************************************************************)
(* One peer relation of src/src/transport/tcp.rs, thread by thread: the    *)
(* dialler's connecting thread, which is also its writer, and the          *)
(* acceptor's thread for each connection; a reader at each end, a writer   *)
(* at the acceptor; the events of each end in their channel; and of the    *)
(* two nodes what they do with their Sender for the other.                 *)
(*                                                                         *)
(* A connection is the number of the TCP stream, in the order in which     *)
(* they were opened; events carry it although in the code they name only   *)
(* the peer, and no action of the nodes depends on it but for finding the  *)
(* channel of a Sender.  A message is its number among those of its node.  *)
(* A frame is read or written as a whole: see the README for time-outs in  *)
(* the middle of one.                                                      *)
(***************************************************************************)
EXTENDS Integers, Sequences

CONSTANTS MaxFaults,  \* bound: connections that break, reads of the handshake and
                      \* writes that time out, handshakes that are rejected
          GREETINGS,  \* messages that add_peer sends, 2 in the code
          MaxSends    \* bound: a node sends no more of its own accord once it has sent so many

ASSUME TransportAssumption == {MaxFaults, GREETINGS, MaxSends} \subseteq Nat

\* Each new connection but the first follows a fault.
Conn == 1 .. 1 + MaxFaults

End == {"dialler", "acceptor"}

Other(e) == IF e = "dialler" THEN "acceptor" ELSE "dialler"

VARIABLES
  dial,      \* where connect_peer stands: "connect", "hello", "spawn" or "write"
  last,      \* the connection it opened last, 0 before the first
  guard,     \* the connections whose disconnect_sent is set at the dialler
  accept,    \* where the thread of an accepted connection stands
  live,      \* the connections that carry data
  socket,    \* socket[e][c]: what e wrote on c and the other end has not read
  reader,    \* reader[e][c]: the reader thread of e for c
  writer,    \* writer[c]: the acceptor's writer thread for c
  rx_out,    \* the dialler's outgoing channel, one for all connections
  rx_accept, \* rx_accept[c]: the acceptor's outgoing channel for c
  events,    \* events[e]: what waits for the node of e
  peer,      \* peer[e]: the connection whose Sender is in Node.peers, 0 for none
  sent, got, \* messages that each node sent (their number) and handled (a sequence)
  reports,   \* history: PeerDisconnected events of each connection at the dialler
  faults     \* the faults so far

network == <<live, socket>>
threads == <<dial, last, guard, accept, reader, writer>>
nodes == <<peer, sent, got>>
vars == <<network, threads, rx_out, rx_accept, events, nodes, reports, faults>>

\* Hello and HelloAck, the first message of each direction
Hello == 0

\* Mutant: PeerConnected is built before the connection is known.
Up_unknown(c) == [type |-> "up", conn |-> 0, msg |-> 0]

Up(c) == [type |-> "up", conn |-> c, msg |-> 0]
Down(c) == [type |-> "down", conn |-> c, msg |-> 0]
Msg(c, m) == [type |-> "msg", conn |-> c, msg |-> m]

Report(e, event) == [events EXCEPT ![e] = Append(@, event)]

\* A write by e on c: what the network has given up on is lost without an error, as
\* long as e has not been told.
Written(e, c, m) == IF c \in live THEN [socket EXCEPT ![e][c] = Append(@, m)] ELSE socket

\* What e still reads of c
Unread(e, c) == socket[Other(e)][c]

\* A read or a write on a live connection may time out.
TimesOut(c) == c \in live /\ faults < MaxFaults /\ faults' = faults + 1

\* A write by e fails on a dead connection, and a read when all is read.
WriteError(c) == \/ c \notin live /\ UNCHANGED faults
                 \/ TimesOut(c)

ReadError(e, c) == \/ c \notin live /\ Unread(e, c) = << >> /\ UNCHANGED faults
                   \/ TimesOut(c)

Init ==
  /\ dial = "connect" /\ last = 0 /\ guard = {}
  /\ accept = [c \in Conn |-> "none"]
  /\ live = {}
  /\ socket = [e \in End |-> [c \in Conn |-> << >>]]
  /\ reader = [e \in End |-> [c \in Conn |-> "none"]]
  /\ writer = [c \in Conn |-> "none"]
  /\ rx_out = << >> /\ rx_accept = [c \in Conn |-> << >>]
  /\ events = [e \in End |-> << >>]
  /\ peer = [e \in End |-> 0]
  /\ sent = [e \in End |-> 0] /\ got = [e \in End |-> << >>]
  /\ reports = [c \in Conn |-> 0]
  /\ faults = 0

-----------------------------------------------------------------------------
(* The dialler: connect_peer *)

\* Mutant: reported by each thread that sees the failure.
SendDisconnect_each(c) ==
  /\ guard' = guard \cup {c}
  /\ events' = Report("dialler", Down(c))
  /\ reports' = [reports EXCEPT ![c] = @ + 1]

\* The dialler's send_disconnect: once for each connection.
SendDisconnect(c) ==
  IF c \in guard THEN UNCHANGED <<guard, events, reports>>
  ELSE /\ guard' = guard \cup {c}
       /\ events' = Report("dialler", Down(c))
       /\ reports' = [reports EXCEPT ![c] = @ + 1]

\* TcpStream::connect succeeds, which is tried until it does, and Hello is written.
Dial ==
  /\ dial = "connect" /\ last + 1 \in Conn
  /\ last' = last + 1
  /\ live' = live \cup {last'}
  /\ socket' = [socket EXCEPT !["dialler"][last'] = <<Hello>>]
  /\ accept' = [accept EXCEPT ![last'] = "hello"]
  /\ dial' = "hello"
  /\ UNCHANGED <<guard, reader, writer, rx_out, rx_accept, events, nodes, reports,
                 faults>>

\* Mutant: the handshake is read through a buffer that is then dropped.
ReadAck_buffered ==
  /\ dial = "hello"
  /\ Unread("dialler", last) # << >>
  /\ socket' = [socket EXCEPT !["acceptor"][last] = << >>]
  /\ reader' = [reader EXCEPT !["dialler"][last] = "run"]
  /\ dial' = "spawn"
  /\ UNCHANGED <<last, guard, accept, live, writer, rx_out, rx_accept, events, nodes,
                 reports, faults>>

\* HelloAck arrives and the reader thread is started.
ReadAck ==
  /\ dial = "hello"
  /\ Unread("dialler", last) # << >>
  /\ socket' = [socket EXCEPT !["acceptor"][last] = Tail(@)]
  /\ reader' = [reader EXCEPT !["dialler"][last] = "run"]
  /\ dial' = "spawn"
  /\ UNCHANGED <<last, guard, accept, live, writer, rx_out, rx_accept, events, nodes,
                 reports, faults>>

\* Mutant: only a time-out ends the wait, an error is tried again.
AckFails_timeout_only ==
  /\ dial = "hello"
  /\ TimesOut(last)
  /\ live' = live \ {last}
  /\ dial' = "connect"
  /\ UNCHANGED <<last, guard, accept, socket, reader, writer, rx_out, rx_accept, events,
                 nodes, reports>>

\* What arrives is no HelloAck, or one of another node, or the stream cannot be cloned
\* for the reader.
AckRejected ==
  /\ Unread("dialler", last) # << >>
  /\ faults < MaxFaults /\ faults' = faults + 1

\* Hello is not written, or no HelloAck is accepted: the stream is closed and the next
\* attempt begins.
AckFails ==
  /\ dial = "hello"
  /\ ReadError("dialler", last) \/ AckRejected
  /\ live' = live \ {last}
  /\ dial' = "connect"
  /\ UNCHANGED <<last, guard, accept, socket, reader, writer, rx_out, rx_accept, events,
                 nodes, reports>>

\* PeerConnected, with the one Sender of this dialler.
Announce ==
  /\ dial = "spawn"
  /\ events' = Report("dialler", Up(last))
  /\ dial' = "write"
  /\ UNCHANGED <<network, last, guard, accept, reader, writer, rx_out, rx_accept, nodes,
                 reports, faults>>

\* One turn of the writer loop.
Write ==
  /\ dial = "write" /\ rx_out # << >>
  /\ rx_out' = Tail(rx_out)
  /\ socket' = Written("dialler", last, Head(rx_out))
  /\ UNCHANGED <<live, threads, rx_accept, events, nodes, reports, faults>>

\* Mutant: a frame that was sent counts as failed, and is kept for the next connection.
WriteFails_keeps ==
  /\ dial = "write" /\ rx_out # << >>
  /\ WriteError(last)
  /\ SendDisconnect(last)
  /\ socket' = Written("dialler", last, Head(rx_out))
  /\ dial' = "connect"
  /\ UNCHANGED <<live, last, accept, reader, writer, rx_out, rx_accept, nodes>>

\* Mutant: the failure is left to the reader to report.
WriteFails_silent ==
  /\ dial = "write" /\ rx_out # << >>
  /\ WriteError(last)
  /\ rx_out' = Tail(rx_out)
  /\ dial' = "connect"
  /\ UNCHANGED <<network, last, guard, accept, reader, writer, rx_accept, events, nodes,
                 reports>>

\* The write fails: the message is gone, the failure reported, the loop left.  Part of
\* its frame may have been sent, never all of it, because write_all ends in an error
\* only while the kernel has not taken the last byte; and nothing follows that part.
WriteFails ==
  /\ dial = "write" /\ rx_out # << >>
  /\ WriteError(last)
  /\ rx_out' = Tail(rx_out)
  /\ SendDisconnect(last)
  /\ dial' = "connect"
  /\ UNCHANGED <<network, last, accept, reader, writer, rx_accept, nodes>>

-----------------------------------------------------------------------------
(* The acceptor: spawn_tcp_listener and spawn_peer_io *)

\* Hello is read, HelloAck written with its error ignored, the threads started.
Accept(c) ==
  /\ accept[c] = "hello"
  /\ Unread("acceptor", c) # << >>
  /\ socket' = [Written("acceptor", c, Hello) EXCEPT !["dialler"][c] = Tail(@)]
  /\ reader' = [reader EXCEPT !["acceptor"][c] = "run"]
  /\ writer' = [writer EXCEPT ![c] = "run"]
  /\ accept' = [accept EXCEPT ![c] = "spawn"]
  /\ UNCHANGED <<dial, last, guard, live, rx_out, rx_accept, events, nodes, reports,
                 faults>>

\* No Hello: the thread returns and the stream is closed.
AcceptFails(c) ==
  /\ accept[c] = "hello"
  /\ ReadError("acceptor", c)
  /\ live' = live \ {c}
  /\ accept' = [accept EXCEPT ![c] = "done"]
  /\ UNCHANGED <<dial, last, guard, socket, reader, writer, rx_out, rx_accept, events,
                 nodes, reports>>

\* PeerConnected, with a Sender of its own for each connection.
AnnounceAccepted(c) ==
  /\ accept[c] = "spawn"
  /\ events' = Report("acceptor", Up(c))
  /\ accept' = [accept EXCEPT ![c] = "done"]
  /\ UNCHANGED <<network, dial, last, guard, reader, writer, rx_out, rx_accept, nodes,
                 reports, faults>>

AcceptedWrite(c) ==
  /\ writer[c] = "run" /\ rx_accept[c] # << >>
  /\ rx_accept' = [rx_accept EXCEPT ![c] = Tail(@)]
  /\ socket' = Written("acceptor", c, Head(rx_accept[c]))
  /\ UNCHANGED <<live, threads, rx_out, events, nodes, reports, faults>>

\* The writer reports without asking whether the reader has done so.
AcceptedWriteFails(c) ==
  /\ writer[c] = "run" /\ rx_accept[c] # << >>
  /\ WriteError(c)
  /\ writer' = [writer EXCEPT ![c] = "done"]
  /\ rx_accept' = [rx_accept EXCEPT ![c] = << >>]
  /\ events' = Report("acceptor", Down(c))
  /\ UNCHANGED <<network, dial, last, guard, accept, reader, rx_out, nodes, reports>>

\* All Senders of the channel are dropped: the writer returns and reports nothing.
AcceptedWriteEnds(c) ==
  /\ writer[c] = "run" /\ rx_accept[c] = << >>
  /\ accept[c] = "done" /\ peer["acceptor"] # c
  /\ \A i \in DOMAIN events["acceptor"] : events["acceptor"][i] # Up(c)
  /\ writer' = [writer EXCEPT ![c] = "done"]
  /\ UNCHANGED <<network, dial, last, guard, accept, reader, rx_out, rx_accept, events,
                 nodes, reports, faults>>

-----------------------------------------------------------------------------
(* The readers *)

\* Mutant: a frame is complete only when the next one begins.
Read_ahead(e, c) ==
  /\ reader[e][c] = "run" /\ Len(Unread(e, c)) > 1
  /\ socket' = [socket EXCEPT ![Other(e)][c] = Tail(@)]
  /\ events' = Report(e, Msg(c, Head(Unread(e, c))))
  /\ UNCHANGED <<live, threads, rx_out, rx_accept, nodes, reports, faults>>

Read(e, c) ==
  /\ reader[e][c] = "run" /\ Unread(e, c) # << >>
  /\ socket' = [socket EXCEPT ![Other(e)][c] = Tail(@)]
  /\ events' = Report(e, Msg(c, Head(Unread(e, c))))
  /\ UNCHANGED <<live, threads, rx_out, rx_accept, nodes, reports, faults>>

\* A read that fails ends the thread; one that times out is tried again.
ReadFails(e, c) ==
  /\ reader[e][c] = "run" /\ Unread(e, c) = << >> /\ c \notin live
  /\ reader' = [reader EXCEPT ![e][c] = "done"]
  /\ IF e = "dialler" THEN SendDisconnect(c)
     ELSE events' = Report(e, Down(c)) /\ UNCHANGED <<guard, reports>>
  /\ UNCHANGED <<network, dial, last, accept, writer, rx_out, rx_accept, nodes, faults>>

-----------------------------------------------------------------------------
(* The nodes *)

\* The next k messages of e into the channel of its Sender for c.  A channel whose
\* writer has returned takes nothing.
Post(e, c, k) ==
  LET ms == [i \in 1 .. k |-> sent[e] + i]
  IN  /\ sent' = [sent EXCEPT ![e] = @ + k]
      /\ IF e = "dialler" THEN rx_out' = rx_out \o ms /\ UNCHANGED rx_accept
         ELSE /\ rx_accept' = IF writer[c] = "done" THEN rx_accept
                              ELSE [rx_accept EXCEPT ![c] = @ \o ms]
              /\ UNCHANGED rx_out

NextEvent(e, type) == events[e] # << >> /\ Head(events[e]).type = type

\* add_peer: the Sender replaces an earlier one; GetStatus and Status are sent.
AddPeer(e) ==
  /\ NextEvent(e, "up")
  /\ events' = [events EXCEPT ![e] = Tail(@)]
  /\ peer' = [peer EXCEPT ![e] = Head(events[e]).conn]
  /\ Post(e, Head(events[e]).conn, GREETINGS)
  /\ UNCHANGED <<network, threads, got, reports, faults>>

\* remove_peer: whichever Sender is there is dropped.
RemovePeer(e) ==
  /\ NextEvent(e, "down")
  /\ events' = [events EXCEPT ![e] = Tail(@)]
  /\ peer' = [peer EXCEPT ![e] = 0]
  /\ UNCHANGED <<network, threads, rx_out, rx_accept, sent, got, reports, faults>>

OnNet(e) ==
  /\ NextEvent(e, "msg")
  /\ events' = [events EXCEPT ![e] = Tail(@)]
  /\ got' = [got EXCEPT ![e] = Append(@, Head(events[e]).msg)]
  /\ UNCHANGED <<network, threads, rx_out, rx_accept, peer, sent, reports, faults>>

Send(e) ==
  /\ peer[e] # 0 /\ sent[e] < MaxSends
  /\ Post(e, peer[e], 1)
  /\ UNCHANGED <<network, threads, events, peer, got, reports, faults>>

-----------------------------------------------------------------------------
(* The network *)

\* s without what comes after some point
Prefixes(s) == {SubSeq(s, 1, k) : k \in 0 .. Len(s)}

\* c breaks; of what is on the way in each direction a beginning still arrives.
Fail(c) ==
  /\ c \in live /\ faults < MaxFaults
  /\ faults' = faults + 1
  /\ live' = live \ {c}
  /\ \E d \in Prefixes(socket["dialler"][c]), a \in Prefixes(socket["acceptor"][c]) :
       socket' = [socket EXCEPT !["dialler"][c] = d, !["acceptor"][c] = a]
  /\ UNCHANGED <<threads, rx_out, rx_accept, events, nodes, reports>>

-----------------------------------------------------------------------------
(* Specifications *)

Dialler == Dial \/ ReadAck \/ AckFails \/ Announce \/ Write \/ WriteFails

Acceptor(c) == Accept(c) \/ AcceptFails(c) \/ AnnounceAccepted(c)

AcceptedWriter(c) == AcceptedWrite(c) \/ AcceptedWriteFails(c) \/ AcceptedWriteEnds(c)

Reader(e, c) == Read(e, c) \/ ReadFails(e, c)

Handle(e) == AddPeer(e) \/ RemovePeer(e) \/ OnNet(e)

Next ==
  \/ Dialler
  \/ \E c \in Conn : Acceptor(c) \/ AcceptedWriter(c) \/ Fail(c)
  \/ \E e \in End : \E c \in Conn : Reader(e, c)
  \/ \E e \in End : Handle(e) \/ Send(e)

Spec == Init /\ [][Next]_vars

\* Every thread goes on when it can.  Nothing makes a node send.
FairSpec ==
  /\ Spec
  /\ WF_vars(Dialler)
  /\ \A c \in Conn : WF_vars(Acceptor(c)) /\ WF_vars(AcceptedWriter(c))
  /\ \A e \in End : WF_vars(Handle(e)) /\ \A c \in Conn : WF_vars(Reader(e, c))

-----------------------------------------------------------------------------
(* Properties *)

TypeOK ==
  /\ dial \in {"connect", "hello", "spawn", "write"}
  /\ last \in Conn \cup {0} /\ guard \subseteq Conn /\ live \subseteq Conn
  /\ accept \in [Conn -> {"none", "hello", "spawn", "done"}]
  /\ socket \in [End -> [Conn -> Seq(Nat)]]
  /\ reader \in [End -> [Conn -> {"none", "run", "done"}]]
  /\ writer \in [Conn -> {"none", "run", "done"}]
  /\ rx_out \in Seq(Nat) /\ rx_accept \in [Conn -> Seq(Nat)]
  /\ events \in [End -> Seq([type : {"up", "down", "msg"}, conn : Conn, msg : Nat])]
  /\ peer \in [End -> Conn \cup {0}]
  /\ sent \in [End -> Nat] /\ got \in [End -> Seq(Nat)]
  /\ reports \in [Conn -> Nat]
  /\ faults \in Nat

\* The dialler reports each connection at most once, although its reader and its
\* writer may both see the failure (tcp.rs:275, "disconnect only once").
DisconnectOnce == \A c \in Conn : reports[c] <= 1

\* No message reaches a node twice, however connections fail while it is written.
DeliveredOnce ==
  \A e \in End : \A i, j \in DOMAIN got[e] : got[e][i] = got[e][j] => i = j

\* The messages of e that no writer has taken yet, of those for connection c
Posted(e, c) == IF e = "dialler" THEN rx_out ELSE rx_accept[c]

\* The messages that wait for the node of e, Hello for an event without one
Heard(e) == [i \in DOMAIN events[e] |-> events[e][i].msg]

\* The messages in w are the numbers up to n, each once and in their order.
InSequence(w, n) ==
  LET P == {i \in DOMAIN w : w[i] # Hello}
  IN  /\ \A i, j \in P : i < j => w[i] < w[j]
      /\ {w[i] : i \in P} = 1 .. n

\* As long as nothing fails, what a node sends is handled by the other, or under way,
\* in the order in which it was sent and without a gap, although six threads and four
\* queues are between them and the Sender is used while the handshake is still going
\* on: the FIFO links of the network model rest on this.
LinkIntact ==
  faults = 0 =>
    \A e \in End :
      InSequence(got[e] \o Heard(e) \o Unread(e, 1) \o Posted(Other(e), 1), sent[Other(e)])

\* The node of the dialler drops its Sender only when the connection is of no more use
\* (tcp.rs:41: "the connection is dead, peers may be cleaned"), although the event names
\* no connection and may be handled when the next one is up: the guard of
\* disconnect_sent, and that connect_peer dials again only after it has reported, see
\* to it.  At the acceptor nothing does.
Usable(c) == c \in live /\ c = last /\ dial \in {"spawn", "write"}

DialledRemovesDead ==
  [][peer["dialler"] # 0 /\ peer'["dialler"] = 0 => ~Usable(peer["dialler"])]_vars

\* The dialler gets to its writer loop again whenever it has left it or has not
\* reached it: no error in the handshake stops connect_peer.
DialSucceeds == dial # "write" ~> dial = "write"

\* When its connection has died the dialler connects again (tcp.rs:198).
Redials == dial = "write" /\ last \notin live ~> dial # "write"

\* What a node sends is handled by the other unless something fails: no thread between
\* them waits for good while a message is with it.
Arrives ==
  \A e \in End : \A m \in 1 .. MaxSends :
    sent[e] >= m ~> faults > 0 \/ \E i \in DOMAIN got[Other(e)] : got[Other(e)][i] = m

\* All of this together is a link between two nodes: every step of a thread is one of the
\* link, or none for those who look at it from above.
Promise == INSTANCE Link WITH failed <- (faults > 0)

LinkSpec == Promise!Spec

=============================================================================
