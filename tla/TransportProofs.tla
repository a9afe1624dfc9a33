-------------------------- MODULE TransportProofs ---------------------------
(***************************************************************************)
(* Types of Transport; what the dialler's guard of disconnect_sent         *)
(* guarantees: one report for each connection, and reports in such an      *)
(* order that none takes away the Sender of a later connection; and what   *)
(* its threads and channels do with the messages: none is handled twice,   *)
(* however often connections fail, and until the first failure none is     *)
(* lost or out of order.  Together this is Link, which Transport           *)
(* implements.                                                             *)
(***************************************************************************)
EXTENDS Transport, TLAPS, SequenceTheorems

Event == [type : {"up", "down", "msg"}, conn : Conn, msg : Nat]

\* TypeOK, and that a dialler beyond its first attempt has a connection.
TypeInv ==
  /\ TypeOK
  /\ dial # "connect" => last \in Conn

-----------------------------------------------------------------------------
(* Operators *)

LEMMA ConnType == Conn \subseteq Nat /\ 0 \notin Conn
BY TransportAssumption DEF Conn

LEMMA EventTypes ==
  ASSUME NEW c \in Conn, NEW m \in Nat
  PROVE  Up(c) \in Event /\ Down(c) \in Event /\ Msg(c, m) \in Event
BY DEF Up, Down, Msg, Event

LEMMA ReportType ==
  ASSUME events \in [End -> Seq(Event)], NEW e \in End, NEW x \in Event
  PROVE  /\ Report(e, x) \in [End -> Seq(Event)]
         /\ Report(e, x)[e] = Append(events[e], x)
         /\ \A f \in End \ {e} : Report(e, x)[f] = events[f]
BY DEF Report

LEMMA WrittenType ==
  ASSUME socket \in [End -> [Conn -> Seq(Nat)]], NEW e \in End, NEW c \in Conn, NEW m \in Nat
  PROVE  Written(e, c, m) \in [End -> [Conn -> Seq(Nat)]]
BY DEF Written

LEMMA UnreadType ==
  ASSUME socket \in [End -> [Conn -> Seq(Nat)]], NEW e \in End, NEW c \in Conn
  PROVE  /\ Unread(e, c) \in Seq(Nat) /\ Other(e) \in End
         /\ Unread(e, c) # << >> => Head(Unread(e, c)) \in Nat /\ Tail(Unread(e, c)) \in Seq(Nat)
BY DEF Unread, Other, End

LEMMA FaultType ==
  ASSUME faults \in Nat, NEW c,
         WriteError(c) \/ (\E e \in End : ReadError(e, c)) \/ AckRejected
  PROVE  faults' \in Nat
BY TransportAssumption DEF WriteError, ReadError, TimesOut, AckRejected

LEMMA SendDisconnectType ==
  ASSUME TypeOK, NEW c \in Conn, SendDisconnect(c)
  PROVE  /\ guard' \subseteq Conn
         /\ events' \in [End -> Seq(Event)]
         /\ reports' \in [Conn -> Nat]
<1>1. events \in [End -> Seq(Event)]
  BY DEF TypeOK, Event
<1>2. "dialler" \in End /\ Down(c) \in Event
  BY EventTypes DEF End
<1>3. Report("dialler", Down(c)) \in [End -> Seq(Event)]
  BY <1>1, <1>2, ReportType
<1> QED
  BY <1>1, <1>3 DEF SendDisconnect, TypeOK

LEMMA PostType ==
  ASSUME TypeOK, NEW e \in End, NEW c \in Conn, NEW k \in Nat, Post(e, c, k)
  PROVE  /\ sent' \in [End -> Nat]
         /\ rx_out' \in Seq(Nat) /\ rx_accept' \in [Conn -> Seq(Nat)]
<1> DEFINE ms == [i \in 1 .. k |-> sent[e] + i]
<1>1. ms \in Seq(Nat)
  BY DEF TypeOK
<1>2. sent' \in [End -> Nat]
  BY DEF Post, TypeOK
<1>3. rx_out \o ms \in Seq(Nat) /\ rx_accept[c] \o ms \in Seq(Nat)
  BY <1>1 DEF TypeOK
<1> HIDE DEF ms
<1>4. /\ rx_out' = rx_out \/ rx_out' = rx_out \o ms
      /\ rx_accept' = rx_accept \/ rx_accept' = [rx_accept EXCEPT ![c] = @ \o ms]
  BY DEF Post, ms
<1> QED
  BY <1>2, <1>3, <1>4 DEF TypeOK

-----------------------------------------------------------------------------
(* Types *)

LEMMA TypeInit == Init => TypeInv
<1> SUFFICES ASSUME Init PROVE TypeInv
  OBVIOUS
<1>1. 0 \in Nat /\ << >> \in Seq(Nat)
  OBVIOUS
<1> QED
  BY <1>1, TransportAssumption DEF Init, TypeInv, TypeOK, End

\* The connecting thread
LEMMA TypeDialler ==
  ASSUME TypeInv, Dialler
  PROVE  TypeInv'
<1> USE DEF TypeInv, TypeOK
<1>1. CASE Dial
  <2>1. last' \in Conn /\ <<Hello>> \in Seq(Nat)
    BY <1>1 DEF Dial, Hello
  <2> QED
    BY <1>1, <2>1 DEF Dial, nodes
<1>2. CASE ReadAck
  <2>1. /\ "dialler" \in End /\ Other("dialler") = "acceptor" /\ last \in Conn
        /\ Unread("dialler", last) # << >>
    BY <1>2 DEF ReadAck, End, Other
  <2>2. Tail(socket["acceptor"][last]) \in Seq(Nat)
    BY <2>1, UnreadType DEF Unread
  <2> QED
    BY <1>2, <2>1, <2>2 DEF ReadAck, nodes
<1>3. CASE AckFails
  <2>1. faults' \in Nat
    BY <1>3, FaultType DEF AckFails, End
  <2> QED
    BY <1>3, <2>1 DEF AckFails, nodes
<1>4. CASE Announce
  <2>1. last \in Conn /\ "dialler" \in End
    BY <1>4 DEF Announce, End
  <2>2. Report("dialler", Up(last)) \in [End -> Seq(Event)]
    BY <2>1, ReportType, EventTypes DEF Event
  <2> QED
    BY <1>4, <2>1, <2>2 DEF Announce, network, nodes, Event
<1>5. CASE Write
  <2>1. last \in Conn /\ Head(rx_out) \in Nat /\ Tail(rx_out) \in Seq(Nat)
    BY <1>5 DEF Write
  <2>2. Written("dialler", last, Head(rx_out)) \in [End -> [Conn -> Seq(Nat)]]
    BY <2>1, WrittenType DEF End
  <2> QED
    BY <1>5, <2>1, <2>2 DEF Write, threads, nodes
<1>6. CASE WriteFails
  <2>1. last \in Conn /\ Tail(rx_out) \in Seq(Nat)
    BY <1>6 DEF WriteFails
  <2>2. /\ guard' \subseteq Conn
        /\ events' \in [End -> Seq(Event)]
        /\ reports' \in [Conn -> Nat]
    BY <1>6, <2>1, SendDisconnectType DEF WriteFails
  <2>3. faults' \in Nat
    BY <1>6, FaultType DEF WriteFails
  <2> QED
    BY <1>6, <2>1, <2>2, <2>3 DEF WriteFails, network, nodes, Event
<1> QED
  BY <1>1, <1>2, <1>3, <1>4, <1>5, <1>6 DEF Dialler

\* The threads of the acceptor
LEMMA TypeAcceptor ==
  ASSUME TypeInv, NEW c \in Conn, Acceptor(c) \/ AcceptedWriter(c)
  PROVE  TypeInv'
<1> USE DEF TypeInv, TypeOK
<1>0. "acceptor" \in End /\ Other("acceptor") = "dialler"
  BY DEF End, Other
<1>1. CASE Accept(c)
  <2>1. Tail(socket["dialler"][c]) \in Seq(Nat)
    BY <1>0, <1>1, UnreadType DEF Accept, Unread
  <2>2. Written("acceptor", c, Hello) \in [End -> [Conn -> Seq(Nat)]]
    BY <1>0, WrittenType DEF Hello
  <2>3. Written("acceptor", c, Hello)["dialler"][c] = socket["dialler"][c]
    BY DEF Written, End
  <2> DEFINE w == Written("acceptor", c, Hello)
  <2>4. socket' = [w EXCEPT !["dialler"][c] = Tail(w["dialler"][c])]
    BY <1>1 DEF Accept
  <2>5. w \in [End -> [Conn -> Seq(Nat)]] /\ Tail(w["dialler"][c]) \in Seq(Nat)
    BY <2>1, <2>2, <2>3
  <2> HIDE DEF w
  <2>6. socket' \in [End -> [Conn -> Seq(Nat)]]
    BY <2>4, <2>5
  <2> QED
    BY <1>1, <2>6 DEF Accept, nodes
<1>2. CASE AcceptFails(c)
  <2>1. faults' \in Nat
    BY <1>0, <1>2, FaultType DEF AcceptFails
  <2> QED
    BY <1>2, <2>1 DEF AcceptFails, nodes
<1>3. CASE AnnounceAccepted(c)
  <2>1. Report("acceptor", Up(c)) \in [End -> Seq(Event)]
    BY <1>0, ReportType, EventTypes DEF Event
  <2> QED
    BY <1>3, <2>1 DEF AnnounceAccepted, network, nodes, Event
<1>4. CASE AcceptedWrite(c)
  <2>1. Head(rx_accept[c]) \in Nat /\ Tail(rx_accept[c]) \in Seq(Nat)
    BY <1>4 DEF AcceptedWrite
  <2>2. Written("acceptor", c, Head(rx_accept[c])) \in [End -> [Conn -> Seq(Nat)]]
    BY <1>0, <2>1, WrittenType
  <2> QED
    BY <1>4, <2>1, <2>2 DEF AcceptedWrite, threads, nodes
<1>5. CASE AcceptedWriteFails(c)
  <2>1. Report("acceptor", Down(c)) \in [End -> Seq(Event)]
    BY <1>0, ReportType, EventTypes DEF Event
  <2>2. faults' \in Nat /\ << >> \in Seq(Nat)
    BY <1>5, FaultType DEF AcceptedWriteFails
  <2> QED
    BY <1>5, <2>1, <2>2 DEF AcceptedWriteFails, network, nodes, Event
<1>6. CASE AcceptedWriteEnds(c)
  BY <1>6 DEF AcceptedWriteEnds, network, nodes
<1> QED
  BY <1>1, <1>2, <1>3, <1>4, <1>5, <1>6 DEF Acceptor, AcceptedWriter

\* The readers and the network
LEMMA TypeReader ==
  ASSUME TypeInv, NEW e \in End, NEW c \in Conn, Reader(e, c)
  PROVE  TypeInv'
<1> USE DEF TypeInv, TypeOK
<1>1. CASE Read(e, c)
  <2>1. /\ Other(e) \in End
        /\ Head(Unread(e, c)) \in Nat /\ Tail(socket[Other(e)][c]) \in Seq(Nat)
    BY <1>1, UnreadType DEF Read, Unread
  <2>2. Report(e, Msg(c, Head(Unread(e, c)))) \in [End -> Seq(Event)]
    BY <2>1, ReportType, EventTypes DEF Event
  <2>3. socket' \in [End -> [Conn -> Seq(Nat)]]
    BY <1>1, <2>1 DEF Read
  <2> QED
    BY <1>1, <2>2, <2>3 DEF Read, threads, nodes, Event
<1>2. CASE ReadFails(e, c)
  <2>1. /\ guard' \subseteq Conn
        /\ events' \in [End -> Seq(Event)]
        /\ reports' \in [Conn -> Nat]
    <3>1. CASE e = "dialler"
      BY <1>2, <3>1, SendDisconnectType DEF ReadFails
    <3>2. CASE e # "dialler"
      <4>1. Report(e, Down(c)) \in [End -> Seq(Event)]
        BY ReportType, EventTypes DEF Event
      <4> QED
        BY <1>2, <3>2, <4>1 DEF ReadFails
    <3> QED
      BY <3>1, <3>2
  <2> QED
    BY <1>2, <2>1 DEF ReadFails, network, nodes, Event
<1> QED
  BY <1>1, <1>2 DEF Reader

LEMMA PrefixType ==
  ASSUME NEW s \in Seq(Nat), NEW t \in Prefixes(s)
  PROVE  t \in Seq(Nat)
<1>1. PICK k \in 0 .. Len(s) : t = SubSeq(s, 1, k)
  BY DEF Prefixes
<1>2. \A i \in 1 .. k : s[i] \in Nat
  OBVIOUS
<1> QED
  BY <1>1, <1>2

LEMMA TypeFail ==
  ASSUME TypeInv, NEW c \in Conn, Fail(c)
  PROVE  TypeInv'
<1> USE DEF TypeInv, TypeOK
<1>1. PICK d \in Prefixes(socket["dialler"][c]), a \in Prefixes(socket["acceptor"][c]) :
        socket' = [socket EXCEPT !["dialler"][c] = d, !["acceptor"][c] = a]
  BY DEF Fail
<1>3. socket["dialler"][c] \in Seq(Nat) /\ socket["acceptor"][c] \in Seq(Nat)
  BY DEF End
<1>4. d \in Seq(Nat) /\ a \in Seq(Nat)
  BY <1>3, PrefixType
<1>5. socket' \in [End -> [Conn -> Seq(Nat)]]
  BY <1>1, <1>4
<1>6. faults' \in Nat /\ live' = live \ {c}
  BY DEF Fail
<1>7. UNCHANGED <<threads, rx_out, rx_accept, events, nodes, reports>>
  BY DEF Fail
<1> QED
  BY <1>5, <1>6, <1>7 DEF threads, nodes

\* The nodes
LEMMA HeadTailType ==
  ASSUME NEW S, NEW s \in Seq(S), s # << >>
  PROVE  Head(s) \in S /\ Tail(s) \in Seq(S)
OBVIOUS

LEMMA NextEventType ==
  ASSUME TypeInv, NEW e \in End, events[e] # << >>
  PROVE  /\ Head(events[e]) \in Event
         /\ Tail(events[e]) \in Seq(Event)
         /\ [events EXCEPT ![e] = Tail(@)] \in [End -> Seq(Event)]
<1>1. events \in [End -> Seq(Event)]
  BY DEF TypeInv, TypeOK, Event
<1>2. events[e] \in Seq(Event)
  BY <1>1
<1>3. Head(events[e]) \in Event /\ Tail(events[e]) \in Seq(Event)
  BY <1>2, HeadTailType
<1> QED
  BY <1>1, <1>3

LEMMA TypeNode ==
  ASSUME TypeInv, NEW e \in End, Handle(e) \/ Send(e)
  PROVE  TypeInv'
<1> USE DEF TypeInv, TypeOK
<1>1. CASE AddPeer(e)
  <2>1. /\ Head(events[e]) \in Event
        /\ [events EXCEPT ![e] = Tail(@)] \in [End -> Seq(Event)]
    BY <1>1, NextEventType DEF AddPeer, NextEvent
  <2>2. Head(events[e]).conn \in Conn /\ GREETINGS \in Nat
    BY <2>1, TransportAssumption DEF Event
  <2>3. /\ sent' \in [End -> Nat]
        /\ rx_out' \in Seq(Nat) /\ rx_accept' \in [Conn -> Seq(Nat)]
    BY <1>1, <2>2, PostType DEF AddPeer
  <2> QED
    BY <1>1, <2>1, <2>2, <2>3 DEF AddPeer, network, threads, Event
<1>2. CASE RemovePeer(e)
  <2>1. [events EXCEPT ![e] = Tail(@)] \in [End -> Seq(Event)]
    BY <1>2, NextEventType DEF RemovePeer, NextEvent
  <2> QED
    BY <1>2, <2>1 DEF RemovePeer, network, threads, Event
<1>3. CASE OnNet(e)
  <2>1. /\ Head(events[e]) \in Event
        /\ [events EXCEPT ![e] = Tail(@)] \in [End -> Seq(Event)]
    BY <1>3, NextEventType DEF OnNet, NextEvent
  <2>2. Append(got[e], Head(events[e]).msg) \in Seq(Nat)
    BY <2>1 DEF Event
  <2>3. got' \in [End -> Seq(Nat)] /\ events' \in [End -> Seq(Event)]
    BY <1>3, <2>1, <2>2 DEF OnNet
  <2> QED
    BY <1>3, <2>3 DEF OnNet, network, threads, Event
<1>4. CASE Send(e)
  <2>1. peer[e] \in Conn
    BY <1>4 DEF Send
  <2>2. /\ sent' \in [End -> Nat]
        /\ rx_out' \in Seq(Nat) /\ rx_accept' \in [Conn -> Seq(Nat)]
    BY <1>4, <2>1, PostType DEF Send
  <2> QED
    BY <1>4, <2>2 DEF Send, network, threads
<1> QED
  BY <1>1, <1>2, <1>3, <1>4 DEF Handle

LEMMA TypeStep ==
  ASSUME TypeInv, [Next]_vars
  PROVE  TypeInv'
<1>1. CASE UNCHANGED vars
  BY <1>1 DEF TypeInv, TypeOK, vars, network, threads, nodes
<1>2. CASE Next
  BY <1>2, TypeDialler, TypeAcceptor, TypeReader, TypeFail, TypeNode DEF Next
<1> QED
  BY <1>1, <1>2

\* Every variable keeps its type, whatever fails and however often.
THEOREM TransportTypes == Spec => []TypeOK
<1>1. Init => TypeInv
  BY TypeInit
<1>2. TypeInv /\ [Next]_vars => TypeInv'
  BY TypeStep
<1>3. TypeInv => TypeOK
  BY DEF TypeInv
<1> QED
  BY <1>1, <1>2, <1>3, PTL DEF Spec

-----------------------------------------------------------------------------
(* The dialler's reports *)

\* The guard and the count of reports say the same.
Counted == \A c \in Conn : reports[c] = IF c \in guard THEN 1 ELSE 0

\* What has been reported is of no more use and stays so; a reader whose connection the
\* connecting thread has given up finds the guard set.
Guarded ==
  /\ \A c \in guard : c <= last /\ ~Usable(c)
  /\ \A c \in Conn : c > last => reader["dialler"][c] = "none"
  /\ dial = "hello" => reader["dialler"][last] = "none" /\ last \notin guard
  /\ \A c \in Conn :
       reader["dialler"][c] = "run" /\ (c # last \/ dial = "connect") => c \in guard

\* In a queue q of a node that uses connection p, no report is about an earlier
\* connection than p, or than one announced before the report; g have been reported,
\* n is the latest connection.
InTurn(q, p, g, n) ==
  /\ p <= n
  /\ \A i \in DOMAIN q : q[i].type = "up" => q[i].conn <= n
  /\ \A i \in DOMAIN q : q[i].type = "down" => q[i].conn \in g /\ p <= q[i].conn
  /\ \A i, j \in DOMAIN q :
       i < j /\ q[i].type = "up" /\ q[j].type = "down" => q[i].conn <= q[j].conn

Chronology == InTurn(events["dialler"], peer["dialler"], guard, last)

Discipline == TypeInv /\ Counted /\ Guarded /\ Chronology

LEMMA QueueType ==
  ASSUME NEW q \in Seq(Event)
  PROVE  \A i \in DOMAIN q : q[i].conn \in Nat
<1>1. \A x \in Event : x.conn \in Nat
  BY ConnType DEF Event
<1>2. \A i \in DOMAIN q : q[i] \in Event
  OBVIOUS
<1> QED
  BY <1>1, <1>2

LEMMA InTurnAppend ==
  ASSUME NEW q \in Seq(Event), NEW p \in Nat, NEW g, NEW n \in Nat, NEW x \in Event,
         InTurn(q, p, g, n),
         x.type = "up" => x.conn <= n,
         x.type = "down" => x.conn = n /\ n \in g
  PROVE  InTurn(Append(q, x), p, g, n)
<1> DEFINE r == Append(q, x)
<1>1. /\ r \in Seq(Event) /\ Len(r) = Len(q) + 1 /\ r[Len(r)] = x
      /\ \A i \in DOMAIN r : i # Len(r) => i \in DOMAIN q /\ r[i] = q[i]
  OBVIOUS
<1>2. \A i \in DOMAIN r : i \in 1 .. Len(r) /\ r[i] \in Event
  BY <1>1
<1>3. \A e \in Event : e.conn \in Nat
  BY ConnType DEF Event
<1> HIDE DEF r
<1>4. p <= n
  BY DEF InTurn
<1>5. ASSUME NEW i \in DOMAIN r, r[i].type = "up"
      PROVE  r[i].conn <= n
  BY <1>1, <1>5 DEF InTurn
<1>6. ASSUME NEW i \in DOMAIN r, r[i].type = "down"
      PROVE  r[i].conn \in g /\ p <= r[i].conn
  <2>1. CASE i = Len(r)
    BY <1>1, <1>4, <1>6, <2>1
  <2>2. CASE i # Len(r)
    BY <1>1, <1>6, <2>2 DEF InTurn
  <2> QED
    BY <2>1, <2>2
<1>7. ASSUME NEW i \in DOMAIN r, NEW j \in DOMAIN r,
             i < j, r[i].type = "up", r[j].type = "down"
      PROVE  r[i].conn <= r[j].conn
  <2>1. i # Len(r)
    BY <1>1, <1>2, <1>7
  <2>2. CASE j = Len(r)
    BY <1>1, <1>5, <1>7, <2>1, <2>2
  <2>3. CASE j # Len(r)
    BY <1>1, <1>7, <2>1, <2>3 DEF InTurn
  <2> QED
    BY <2>2, <2>3
<1> QED
  BY <1>4, <1>5, <1>6, <1>7 DEF InTurn, r

LEMMA InTurnTail ==
  ASSUME NEW q \in Seq(Event), NEW p \in Nat, NEW g, NEW n \in Nat, NEW r \in Nat,
         q # << >>, InTurn(q, p, g, n),
         r \in {0, p} \/ (Head(q).type = "up" /\ r = Head(q).conn)
  PROVE  InTurn(Tail(q), r, g, n)
<1> DEFINE t == Tail(q)
<1>1. 1 \in DOMAIN q /\ Head(q) = q[1]
  OBVIOUS
<1>2. \A i \in DOMAIN t : i \in Nat /\ 0 < i /\ i + 1 \in DOMAIN q /\ t[i] = q[i + 1]
  OBVIOUS
<1>3. \A i \in DOMAIN q : q[i].conn \in Nat
  BY QueueType
<1> HIDE DEF t
<1>4. r <= n
  BY <1>1 DEF InTurn
<1>5. \A i \in DOMAIN t : t[i].type = "up" => t[i].conn <= n
  BY <1>2 DEF InTurn
<1>6. ASSUME NEW i \in DOMAIN t, t[i].type = "down"
      PROVE  t[i].conn \in g /\ r <= t[i].conn
  <2>1. i + 1 \in DOMAIN q /\ t[i] = q[i + 1] /\ 1 < i + 1 /\ t[i].conn \in Nat
    BY <1>2, <1>3
  <2>2. t[i].conn \in g /\ p <= t[i].conn
    BY <1>6, <2>1 DEF InTurn
  <2>3. Head(q).type = "up" => Head(q).conn <= t[i].conn
    BY <1>1, <1>6, <2>1 DEF InTurn
  <2> QED
    BY <2>1, <2>2, <2>3
<1>7. ASSUME NEW i \in DOMAIN t, NEW j \in DOMAIN t,
             i < j, t[i].type = "up", t[j].type = "down"
      PROVE  t[i].conn <= t[j].conn
  <2>1. i + 1 < j + 1
    BY <1>2, <1>7
  <2> QED
    BY <1>2, <1>7, <2>1 DEF InTurn
<1> QED
  BY <1>4, <1>5, <1>6, <1>7 DEF InTurn, t

LEMMA InTurnLater ==
  ASSUME NEW q \in Seq(Event), NEW p \in Nat, NEW g, NEW h, NEW n \in Nat, NEW m \in Nat,
         InTurn(q, p, g, n), g \subseteq h, n <= m
  PROVE  InTurn(q, p, h, m)
<1>1. \A i \in DOMAIN q : q[i].conn \in Nat
  BY QueueType
<1> QED
  BY <1>1 DEF InTurn

\* What the lemmas below need of the types
LEMMA DiallerTypes ==
  ASSUME TypeInv
  PROVE  /\ "dialler" \in End /\ events \in [End -> Seq(Event)]
         /\ events["dialler"] \in Seq(Event)
         /\ peer["dialler"] \in Nat /\ last \in Nat
         /\ Conn \subseteq Nat /\ guard \subseteq Conn
<1>1. "dialler" \in End /\ events \in [End -> Seq(Event)]
  BY DEF TypeInv, TypeOK, End, Event
<1>2. peer["dialler"] \in Nat /\ last \in Nat /\ guard \subseteq Conn
  <2>1. /\ peer \in [End -> Conn \cup {0}] /\ last \in Conn \cup {0}
        /\ guard \subseteq Conn
    BY DEF TypeInv, TypeOK
  <2>2. peer["dialler"] \in Conn \cup {0}
    BY <1>1, <2>1
  <2>3. \A c \in Conn \cup {0} : c \in Nat
    BY ConnType
  <2> QED
    BY <2>1, <2>2, <2>3
<1> QED
  BY <1>1, <1>2, ConnType

\* Steps that the dialler's threads have no part in
LEMMA QuietStep ==
  ASSUME Discipline, UNCHANGED <<dial, last, guard, reports>>, live' \subseteq live,
         reader'["dialler"] = reader["dialler"], events'["dialler"] = events["dialler"],
         peer'["dialler"] = peer["dialler"]
  PROVE  Counted' /\ Guarded' /\ Chronology'
BY DEF Discipline, Counted, Guarded, Chronology, Usable

\* send_disconnect of the connection that is latest or has been reported
LEMMA ReportStep ==
  ASSUME Discipline, NEW c \in Conn, SendDisconnect(c), c \in guard \/ c = last,
         last' = last, peer' = peer
  PROVE  /\ guard' = guard \cup {c}
         /\ Counted'
         /\ Chronology'
<1>1. CASE c \in guard
  BY <1>1 DEF SendDisconnect, Discipline, Counted, Chronology
<1>2. CASE c \notin guard
  <2>1. guard' = guard \cup {c} /\ c = last
    BY <1>2 DEF SendDisconnect
  <2>2. Counted'
    <3>1. reports' = [reports EXCEPT ![c] = reports[c] + 1]
      BY <1>2 DEF SendDisconnect
    <3>2. reports[c] = 0
      BY <1>2 DEF Discipline, Counted
    <3>3. reports \in [Conn -> Nat]
      BY DEF Discipline, TypeInv, TypeOK
    <3> QED
      BY <2>1, <3>1, <3>2, <3>3 DEF Discipline, Counted
  <2>3. events'["dialler"] = Append(events["dialler"], Down(c))
    BY <1>2, DiallerTypes, ReportType, EventTypes DEF Discipline, SendDisconnect
  <2>4. InTurn(events["dialler"], peer["dialler"], guard', last)
    <3>1. InTurn(events["dialler"], peer["dialler"], guard, last) /\ guard \subseteq guard'
      BY <2>1 DEF Discipline, Chronology
    <3>2. /\ events["dialler"] \in Seq(Event) /\ peer["dialler"] \in Nat
          /\ last \in Nat /\ last <= last
      BY DiallerTypes DEF Discipline
    <3> QED
      BY <3>1, <3>2, InTurnLater
  <2>5. Down(c) \in Event /\ Down(c).type = "down" /\ Down(c).conn = c
    BY EventTypes DEF Down
  <2>6. InTurn(events'["dialler"], peer["dialler"], guard', last)
    BY <2>1, <2>3, <2>4, <2>5, DiallerTypes, InTurnAppend DEF Discipline
  <2> QED
    BY <2>1, <2>2, <2>6 DEF Chronology
<1> QED
  BY <1>1, <1>2

LEMMA DisciplineDialler ==
  ASSUME Discipline, Dialler
  PROVE  Counted' /\ Guarded' /\ Chronology'
<1>0. /\ TypeInv /\ Counted /\ Guarded /\ Chronology
      /\ reader \in [End -> [Conn -> {"none", "run", "done"}]]
  BY DEF Discipline, TypeInv, TypeOK
<1>1. CASE Dial
  <2>1. /\ dial = "connect" /\ dial' = "hello" /\ last' = last + 1 /\ last' \in Conn
        /\ UNCHANGED <<guard, reader, events, peer, reports>>
    BY <1>1 DEF Dial, nodes
  <2>2. Guarded'
    <3>1. \A c \in Conn : reader["dialler"][c] = "run" => c <= last
      BY <1>0, DiallerTypes DEF Guarded
    <3>2. last' \notin guard /\ \A c \in guard : c <= last'
      <4>1. last \in Nat /\ last' = last + 1
        BY <1>0, <2>1, DiallerTypes
      <4>2. \A c \in guard : c \in Nat /\ c <= last
        BY <1>0, DiallerTypes DEF Guarded
      <4> QED
        BY <4>1, <4>2
    <3>3. reader["dialler"][last'] = "none"
      BY <1>0, <2>1, DiallerTypes DEF Guarded
    <3>4. \A c \in Conn : c > last' => reader["dialler"][c] = "none"
      BY <1>0, <2>1, DiallerTypes DEF Guarded
    <3>5. \A c \in Conn : reader["dialler"][c] = "run" => c \in guard
      BY <1>0, <2>1 DEF Guarded
    <3> QED
      BY <2>1, <3>2, <3>3, <3>4, <3>5 DEF Guarded, Usable
  <2>3. Chronology'
    BY <1>0, <2>1, DiallerTypes, InTurnLater DEF Chronology
  <2> QED
    BY <1>0, <2>1, <2>2, <2>3 DEF Counted
<1>2. CASE ReadAck
  <2>1. /\ dial = "hello" /\ dial' = "spawn"
        /\ reader' = [reader EXCEPT !["dialler"][last] = "run"]
        /\ UNCHANGED <<last, guard, live, events, peer, reports>>
    BY <1>2 DEF ReadAck, nodes
  <2>2. last \in Conn
    BY <1>0, <2>1 DEF TypeInv
  <2>3. /\ reader'["dialler"][last] = "run"
        /\ \A c \in Conn \ {last} : reader'["dialler"][c] = reader["dialler"][c]
    BY <1>0, <2>1, <2>2, DiallerTypes
  <2>4. Guarded'
    BY <1>0, <2>1, <2>2, <2>3, DiallerTypes DEF Guarded, Usable
  <2> QED
    BY <1>0, <2>1, <2>4 DEF Counted, Chronology
<1>3. CASE AckFails
  <2>1. /\ dial = "hello" /\ dial' = "connect" /\ live' \subseteq live
        /\ UNCHANGED <<last, guard, reader, events, peer, reports>>
    BY <1>3 DEF AckFails, nodes
  <2>2. Guarded'
    BY <1>0, <2>1, DiallerTypes DEF Guarded, Usable
  <2> QED
    BY <1>0, <2>1, <2>2 DEF Counted, Chronology
<1>4. CASE Announce
  <2>1. /\ dial = "spawn" /\ dial' = "write" /\ events' = Report("dialler", Up(last))
        /\ UNCHANGED <<last, guard, live, reader, peer, reports>>
    BY <1>4 DEF Announce, network, nodes
  <2>2. last \in Conn
    BY <1>0, <2>1 DEF TypeInv
  <2>3. Guarded'
    BY <1>0, <2>1, DiallerTypes DEF Guarded, Usable
  <2>4. Up(last) \in Event /\ Up(last).type = "up" /\ Up(last).conn = last
    BY <2>2, EventTypes DEF Up
  <2>5. events'["dialler"] = Append(events["dialler"], Up(last))
    BY <1>0, <2>1, <2>4, DiallerTypes, ReportType
  <2>6. InTurn(events'["dialler"], peer["dialler"], guard, last)
    BY <1>0, <2>4, <2>5, DiallerTypes, InTurnAppend DEF Chronology
  <2> QED
    BY <1>0, <2>1, <2>3, <2>6 DEF Counted, Chronology
<1>5. CASE Write
  BY <1>5, QuietStep DEF Write, threads, nodes
<1>6. CASE WriteFails
  <2>1. /\ dial = "write" /\ dial' = "connect" /\ SendDisconnect(last)
        /\ UNCHANGED <<last, live, reader, peer>>
    BY <1>6 DEF WriteFails, network, nodes
  <2>2. last \in Conn
    BY <1>0, <2>1 DEF TypeInv
  <2>3. Counted' /\ Chronology' /\ guard' = guard \cup {last}
    BY <2>1, <2>2, ReportStep
  <2>4. Guarded'
    BY <1>0, <2>1, <2>3, DiallerTypes DEF Guarded, Usable
  <2> QED
    BY <2>3, <2>4
<1> QED
  BY <1>1, <1>2, <1>3, <1>4, <1>5, <1>6 DEF Dialler

LEMMA DisciplineReader ==
  ASSUME Discipline, NEW e \in End, NEW c \in Conn, Reader(e, c)
  PROVE  Counted' /\ Guarded' /\ Chronology'
<1>0. /\ TypeInv /\ Counted /\ Guarded /\ Chronology
      /\ reader \in [End -> [Conn -> {"none", "run", "done"}]]
  BY DEF Discipline, TypeInv, TypeOK
<1>1. CASE e # "dialler"
  <2>1. events'["dialler"] = events["dialler"]
    BY <1>0, <1>1, DiallerTypes DEF Reader, Read, ReadFails, Report
  <2>2. reader'["dialler"] = reader["dialler"]
    BY <1>0, <1>1, DiallerTypes DEF Reader, Read, ReadFails, threads
  <2>3. UNCHANGED <<dial, last, guard, reports, live, peer>>
    BY <1>1 DEF Reader, Read, ReadFails, threads, network, nodes
  <2> QED
    BY <2>1, <2>2, <2>3, QuietStep
<1>2. CASE e = "dialler" /\ Read(e, c)
  <2> DEFINE x == Msg(c, Head(Unread(e, c)))
  <2>1. /\ UNCHANGED <<dial, last, guard, live, reader, peer, reports>>
        /\ events' = Report("dialler", x)
    BY <1>2 DEF Read, threads, nodes
  <2>2. x \in Event /\ x.type = "msg"
    <3>1. socket \in [End -> [Conn -> Seq(Nat)]] /\ Unread(e, c) # << >>
      BY <1>0, <1>2 DEF TypeInv, TypeOK, Read
    <3>2. Head(Unread(e, c)) \in Nat
      BY <3>1, UnreadType
    <3> QED
      BY <3>2, EventTypes DEF Msg
  <2> HIDE DEF x
  <2>3. events'["dialler"] = Append(events["dialler"], x)
    BY <1>0, <2>1, <2>2, DiallerTypes, ReportType
  <2>4. InTurn(events'["dialler"], peer["dialler"], guard, last)
    BY <1>0, <2>2, <2>3, DiallerTypes, InTurnAppend DEF Chronology
  <2>5. Guarded'
    BY <1>0, <2>1 DEF Guarded, Usable
  <2> QED
    BY <1>0, <2>1, <2>4, <2>5 DEF Counted, Chronology
<1>3. CASE e = "dialler" /\ ReadFails(e, c)
  <2>1. /\ reader["dialler"][c] = "run" /\ c \notin live
        /\ reader' = [reader EXCEPT !["dialler"][c] = "done"]
        /\ SendDisconnect(c)
        /\ UNCHANGED <<dial, last, live, peer>>
    BY <1>3 DEF ReadFails, network, nodes
  <2>2. c \in guard \/ c = last
    BY <1>0, <2>1 DEF Guarded
  <2>3. Counted' /\ Chronology' /\ guard' = guard \cup {c}
    BY <2>1, <2>2, ReportStep
  <2>4. /\ reader'["dialler"][c] = "done"
        /\ \A d \in Conn \ {c} : reader'["dialler"][d] = reader["dialler"][d]
    BY <1>0, <2>1, DiallerTypes
  <2>5. c <= last /\ ~Usable(c) /\ (dial = "hello" => c # last)
    BY <1>0, <2>1, DiallerTypes DEF Guarded, Usable
  <2>6. Guarded'
    BY <1>0, <2>1, <2>3, <2>4, <2>5, DiallerTypes DEF Guarded, Usable
  <2> QED
    BY <2>3, <2>6
<1> QED
  BY <1>1, <1>2, <1>3 DEF Reader

LEMMA DisciplineNode ==
  ASSUME Discipline, NEW e \in End, Handle(e) \/ Send(e)
  PROVE  Counted' /\ Guarded' /\ Chronology'
<1>0. /\ TypeInv /\ Counted /\ Guarded /\ Chronology
      /\ peer \in [End -> Conn \cup {0}] /\ events \in [End -> Seq(Event)]
      /\ UNCHANGED <<dial, last, guard, live, reader, reports>>
  BY DEF Discipline, TypeInv, TypeOK, Event, Handle, AddPeer, RemovePeer, OnNet, Send,
         network, threads
<1>1. Counted' /\ Guarded'
  BY <1>0 DEF Counted, Guarded, Usable
<1>2. CASE Send(e)
  BY <1>0, <1>2, QuietStep DEF Send
<1>3. CASE Handle(e)
  <2>1. events[e] # << >> /\ events' = [events EXCEPT ![e] = Tail(@)]
    BY <1>3 DEF Handle, AddPeer, RemovePeer, OnNet, NextEvent
  <2>2. CASE e # "dialler"
    <3>1. peer'["dialler"] = peer["dialler"] /\ events'["dialler"] = events["dialler"]
      BY <1>0, <1>3, <2>1, <2>2, DiallerTypes DEF Handle, AddPeer, RemovePeer, OnNet
    <3> QED
      BY <1>0, <3>1, QuietStep
  <2>3. CASE e = "dialler"
    <3>1. \/ peer'["dialler"] \in {0, peer["dialler"]}
          \/ /\ Head(events["dialler"]).type = "up"
             /\ peer'["dialler"] = Head(events["dialler"]).conn
      BY <1>0, <1>3, <2>3, DiallerTypes
         DEF Handle, AddPeer, RemovePeer, OnNet, NextEvent
    <3>2. events'["dialler"] = Tail(events["dialler"]) /\ events["dialler"] # << >>
      BY <1>0, <2>1, <2>3, DiallerTypes
    <3>3. Head(events["dialler"]) \in Event
      BY <1>0, <3>2, NextEventType, DiallerTypes
    <3>4. peer'["dialler"] \in Nat
      BY <1>0, <3>1, <3>3, DiallerTypes DEF Event
    <3>5. InTurn(events'["dialler"], peer'["dialler"], guard, last)
      <4>1. /\ InTurn(events["dialler"], peer["dialler"], guard, last)
            /\ events["dialler"] \in Seq(Event) /\ peer["dialler"] \in Nat /\ last \in Nat
        BY <1>0, DiallerTypes DEF Chronology
      <4> QED
        BY <3>1, <3>2, <3>4, <4>1, InTurnTail
    <3> QED
      BY <1>0, <1>1, <3>5 DEF Chronology
  <2> QED
    BY <2>2, <2>3
<1> QED
  BY <1>2, <1>3

LEMMA DisciplineAcceptor ==
  ASSUME Discipline, NEW c \in Conn, Acceptor(c) \/ AcceptedWriter(c) \/ Fail(c)
  PROVE  Counted' /\ Guarded' /\ Chronology'
<1>1. /\ TypeInv /\ events \in [End -> Seq(Event)]
      /\ reader \in [End -> [Conn -> {"none", "run", "done"}]]
  BY DEF Discipline, TypeInv, TypeOK, Event
<1>2. UNCHANGED <<dial, last, guard, reports, peer>> /\ live' \subseteq live
  BY DEF Acceptor, Accept, AcceptFails, AnnounceAccepted, AcceptedWriter, AcceptedWrite,
         AcceptedWriteFails, AcceptedWriteEnds, Fail, network, threads, nodes
<1>3. events'["dialler"] = events["dialler"]
  BY <1>1, DiallerTypes
     DEF Acceptor, Accept, AcceptFails, AnnounceAccepted, AcceptedWriter, AcceptedWrite,
         AcceptedWriteFails, AcceptedWriteEnds, Fail, Report
<1>4. reader'["dialler"] = reader["dialler"]
  BY <1>1, DiallerTypes
     DEF Acceptor, Accept, AcceptFails, AnnounceAccepted, AcceptedWriter, AcceptedWrite,
         AcceptedWriteFails, AcceptedWriteEnds, Fail, threads
<1> QED
  BY <1>2, <1>3, <1>4, QuietStep

LEMMA DisciplineStep ==
  ASSUME Discipline, [Next]_vars
  PROVE  Discipline'
<1>1. TypeInv'
  BY TypeStep DEF Discipline
<1>2. CASE UNCHANGED vars
  BY <1>1, <1>2, QuietStep DEF Discipline, vars, network, threads, nodes
<1>3. CASE Next
  BY <1>1, <1>3, DisciplineDialler, DisciplineReader, DisciplineNode, DisciplineAcceptor
     DEF Discipline, Next
<1> QED
  BY <1>2, <1>3

LEMMA DisciplineInit == Init => Discipline
<1> SUFFICES ASSUME Init PROVE Discipline
  OBVIOUS
<1>1. TypeInv
  BY TypeInit
<1>2. /\ dial = "connect" /\ last = 0 /\ guard = {}
      /\ reader["dialler"] = [c \in Conn |-> "none"]
      /\ events["dialler"] = << >> /\ peer["dialler"] = 0
      /\ reports = [c \in Conn |-> 0]
  BY DEF Init, End
<1>3. Counted /\ Guarded
  BY <1>2 DEF Counted, Guarded
<1>4. Chronology
  BY <1>2 DEF Chronology, InTurn
<1> QED
  BY <1>1, <1>3, <1>4 DEF Discipline

\* The invariant behind the two theorems on reports.
THEOREM TransportDiscipline == Spec => []Discipline
<1>1. Discipline /\ [Next]_vars => Discipline'
  BY DisciplineStep
<1> QED
  BY <1>1, DisciplineInit, PTL DEF Spec

\* The dialler reports a connection once, although two threads may see its failure.
THEOREM ReportsOnce == Spec => []DisconnectOnce
<1>1. Discipline => DisconnectOnce
  BY DEF Discipline, Counted, DisconnectOnce
<1> QED
  BY <1>1, TransportDiscipline, PTL

\* A step that drops the Sender handles a report, and the report is about the Sender's
\* connection or a later one.
LEMMA DropsDead ==
  ASSUME Discipline, [Next]_vars, peer["dialler"] # 0, peer'["dialler"] = 0
  PROVE  ~Usable(peer["dialler"])
<1>0. /\ TypeInv /\ Guarded /\ Chronology
      /\ peer \in [End -> Conn \cup {0}]
  BY DEF Discipline, TypeInv, TypeOK
<1>1. ASSUME NEW e \in End, Handle(e) \/ Send(e)
      PROVE  ~Usable(peer["dialler"])
  <2>1. e = "dialler" /\ RemovePeer(e)
    <3>1. CASE AddPeer(e)
      <4>1. Head(events[e]).conn \in Conn
        BY <1>0, <3>1, NextEventType DEF AddPeer, NextEvent, Event
      <4> QED
        BY <1>0, <3>1, <4>1, ConnType, DiallerTypes DEF AddPeer
    <3>2. CASE RemovePeer(e)
      BY <1>0, <3>2, DiallerTypes DEF RemovePeer
    <3>3. CASE OnNet(e) \/ Send(e)
      BY <3>3 DEF OnNet, Send
    <3> QED
      BY <1>1, <3>1, <3>2, <3>3 DEF Handle
  <2> DEFINE k == Head(events["dialler"]).conn
  <2>2. /\ 1 \in DOMAIN events["dialler"] /\ events["dialler"][1].type = "down"
        /\ events["dialler"][1].conn = k /\ k \in Nat
    <3>1. events["dialler"] # << >> /\ Head(events["dialler"]).type = "down"
      BY <2>1 DEF RemovePeer, NextEvent
    <3>2. events["dialler"] \in Seq(Event)
      BY <1>0, DiallerTypes
    <3>3. 1 \in DOMAIN events["dialler"] /\ Head(events["dialler"]) = events["dialler"][1]
      BY <3>1, <3>2
    <3> QED
      BY <3>1, <3>2, <3>3, QueueType
  <2> HIDE DEF k
  <2>3. k \in guard /\ peer["dialler"] <= k
    BY <1>0, <2>2 DEF Chronology, InTurn
  <2>4. k <= last /\ ~Usable(k)
    BY <1>0, <2>3 DEF Guarded
  <2>5. peer["dialler"] = last => k = peer["dialler"]
    BY <1>0, <2>2, <2>3, <2>4, DiallerTypes
  <2> QED
    BY <2>4, <2>5 DEF Usable
<1>2. CASE UNCHANGED peer
  BY <1>2
<1>3. CASE Dialler
  BY <1>2, <1>3 DEF Dialler, Dial, ReadAck, AckFails, Announce, Write, WriteFails, nodes
<1>4. ASSUME NEW c \in Conn, Acceptor(c) \/ AcceptedWriter(c) \/ Fail(c)
      PROVE  UNCHANGED peer
  BY <1>4 DEF Acceptor, Accept, AcceptFails, AnnounceAccepted, AcceptedWriter,
         AcceptedWrite, AcceptedWriteFails, AcceptedWriteEnds, Fail, nodes
<1>5. ASSUME NEW e \in End, NEW c \in Conn, Reader(e, c)
      PROVE  UNCHANGED peer
  BY <1>5 DEF Reader, Read, ReadFails, nodes
<1> QED
  BY <1>1, <1>2, <1>3, <1>4, <1>5 DEF Next, vars, nodes

\* The dialler's node never drops the Sender of a connection that still serves.
THEOREM DropsOnlyDead == Spec => DialledRemovesDead
<1>1. Discipline /\ [Next]_vars =>
        [peer["dialler"] # 0 /\ peer'["dialler"] = 0 => ~Usable(peer["dialler"])]_vars
  BY DropsDead
<1> QED
  BY <1>1, TransportDiscipline, PTL DEF Spec, DialledRemovesDead

-----------------------------------------------------------------------------
(* The handshake *)

\* No Hello in s
Plain(s) == \A i \in DOMAIN s : s[i] # Hello

\* Until the reader of e for c is started, the first thing to be read is a Hello, and it
\* is the only one.
HelloFirst(e, c) ==
  \A i \in DOMAIN Unread(e, c) :
    Unread(e, c)[i] = Hello <=> i = 1 /\ reader[e][c] = "none"

\* Where the two ends of c stand in the handshake, and what each has written by then.
Opening(c) ==
  /\ c > last => accept[c] = "none" /\ c \notin live
  /\ accept[c] \in {"none", "hello"} => reader["acceptor"][c] = "none"
  /\ reader["acceptor"][c] = "none" =>
       /\ writer[c] = "none" /\ socket["acceptor"][c] = << >>
       /\ reader["dialler"][c] = "none"
  /\ c \in live /\ reader["acceptor"][c] # "none" /\ reader["dialler"][c] = "none" =>
       socket["acceptor"][c] # << >>
  /\ c = last /\ dial = "hello" => reader["dialler"][c] = "none"
  /\ c = last /\ dial \in {"spawn", "write"} => reader["dialler"][c] # "none"
  /\ HelloFirst("dialler", c) /\ HelloFirst("acceptor", c)

\* The events in q that carry a message are those of that type.
Marked(q) == \A i \in DOMAIN q : q[i].msg = Hello <=> q[i].type # "msg"

\* A Hello comes from no node and reaches none.
Carried ==
  /\ Plain(rx_out) /\ \A c \in Conn : Plain(rx_accept[c])
  /\ \A e \in End : Marked(events[e]) /\ Plain(got[e])

Shaken == TypeInv /\ Carried /\ \A c \in Conn : Opening(c)

LEMMA Ends ==
  /\ "dialler" \in End /\ "acceptor" \in End
  /\ Other("dialler") = "acceptor" /\ Other("acceptor") = "dialler"
  /\ \A e \in End : Other(e) \in End /\ Other(e) # e /\ Other(Other(e)) = e
  /\ \A e \in End : e = "dialler" \/ e = "acceptor"
BY DEF End, Other

LEMMA VarTypes ==
  ASSUME TypeInv
  PROVE  /\ socket \in [End -> [Conn -> Seq(Nat)]]
         /\ reader \in [End -> [Conn -> {"none", "run", "done"}]]
         /\ writer \in [Conn -> {"none", "run", "done"}]
         /\ accept \in [Conn -> {"none", "hello", "spawn", "done"}]
         /\ rx_out \in Seq(Nat) /\ rx_accept \in [Conn -> Seq(Nat)]
         /\ got \in [End -> Seq(Nat)] /\ sent \in [End -> Nat]
         /\ last \in Nat /\ events \in [End -> Seq(Event)]
         /\ dial # "connect" => last \in Conn
<1>1. last \in Nat
  BY ConnType DEF TypeInv, TypeOK
<1>2. events \in [End -> Seq(Event)]
  BY DEF TypeInv, TypeOK, Event
<1> QED
  BY <1>1, <1>2 DEF TypeInv, TypeOK

LEMMA AppendIs ==
  ASSUME NEW S, NEW s \in Seq(S), NEW m \in S
  PROVE  /\ Append(s, m) \in Seq(S) /\ Append(s, m) # << >>
         /\ DOMAIN Append(s, m) = 1 .. Len(s) + 1 /\ DOMAIN s = 1 .. Len(s) /\ Len(s) \in Nat
         /\ \A i \in 1 .. Len(s) : Append(s, m)[i] = s[i]
         /\ Append(s, m)[Len(s) + 1] = m
<1>1. Append(s, m) \in Seq(S) /\ Append(s, m) # << >> /\ Append(s, m)[Len(s) + 1] = m
  BY AppendProperties
<1>2. Len(Append(s, m)) = Len(s) + 1 /\ DOMAIN s = 1 .. Len(s) /\ Len(s) \in Nat
  BY AppendProperties, LenProperties
<1>3. \A i \in 1 .. Len(s) : Append(s, m)[i] = s[i]
  BY AppendProperties
<1>4. DOMAIN Append(s, m) = 1 .. Len(s) + 1
  BY <1>1, <1>2, LenProperties
<1> QED
  BY <1>1, <1>2, <1>3, <1>4

LEMMA PlainTail ==
  ASSUME NEW s \in Seq(Nat), s # << >>
  PROVE  /\ Plain(s) => Plain(Tail(s)) /\ Head(s) # Hello
         /\ \A i \in DOMAIN Tail(s) :
              i \in Nat /\ i + 1 # 1 /\ i + 1 \in DOMAIN s /\ Tail(s)[i] = s[i + 1]
         /\ Head(s) = s[1] /\ 1 \in DOMAIN s
BY DEF Plain

LEMMA PlainAppend ==
  ASSUME NEW s \in Seq(Nat), NEW m \in Nat
  PROVE  /\ Plain(s) /\ m # Hello => Plain(Append(s, m))
         /\ \A i \in DOMAIN Append(s, m) :
              \/ i \in DOMAIN s /\ Append(s, m)[i] = s[i]
              \/ i = Len(s) + 1 /\ Append(s, m)[i] = m
BY DEF Plain

\* The numbers a node gives to its messages leave 0 to Hello.
LEMMA PostPlain ==
  ASSUME TypeInv, Carried, NEW e \in End, NEW c \in Conn, NEW k \in Nat, Post(e, c, k)
  PROVE  Plain(rx_out') /\ \A d \in Conn : Plain(rx_accept'[d])
<1> DEFINE ms == [i \in 1 .. k |-> sent[e] + i]
<1>1. ms \in Seq(Nat) /\ Plain(ms)
  BY VarTypes DEF Plain, Hello
<1>2. \A s \in Seq(Nat) : Plain(s) => Plain(s \o ms)
  BY <1>1 DEF Plain
<1> HIDE DEF ms
<1>3. /\ rx_out' = rx_out \/ rx_out' = rx_out \o ms
      /\ rx_accept' = rx_accept \/ rx_accept' = [rx_accept EXCEPT ![c] = @ \o ms]
  BY DEF Post, ms
<1>4. Plain(rx_out) /\ \A d \in Conn : Plain(rx_accept[d])
  BY DEF Carried
<1>5. Plain(rx_out')
  BY <1>2, <1>3, <1>4, VarTypes
<1>6. ASSUME NEW d \in Conn
      PROVE  Plain(rx_accept'[d])
  <2>1. rx_accept'[d] \in {rx_accept[d], rx_accept[d] \o ms}
    BY <1>3, VarTypes
  <2> QED
    BY <1>2, <1>4, <2>1, VarTypes
<1> QED
  BY <1>5, <1>6

\* What is written on c once its reader at the other end is started, or a Hello before
LEMMA HelloFirstAppend ==
  ASSUME TypeInv, NEW e \in End, NEW c \in Conn, NEW m \in Nat, HelloFirst(e, c),
         reader'[e][c] = reader[e][c],
         Unread(e, c)' = Append(Unread(e, c), m),
         m = Hello <=> reader[e][c] = "none",
         m = Hello => Unread(e, c) = << >>
  PROVE  HelloFirst(e, c)'
<1>1. Unread(e, c) \in Seq(Nat)
  BY VarTypes, UnreadType
<1> QED
  BY <1>1, PlainAppend DEF HelloFirst

\* The first message of c is read.
LEMMA HelloFirstTail ==
  ASSUME TypeInv, NEW e \in End, NEW c \in Conn, HelloFirst(e, c), Unread(e, c) # << >>,
         Unread(e, c)' = Tail(Unread(e, c)), reader'[e][c] # "none"
  PROVE  HelloFirst(e, c)' /\ (Head(Unread(e, c)) = Hello <=> reader[e][c] = "none")
<1>1. Unread(e, c) \in Seq(Nat)
  BY VarTypes, UnreadType
<1> QED
  BY <1>1, PlainTail DEF HelloFirst

\* What is unread of c is cut off or stays.
LEMMA HelloFirstCut ==
  ASSUME TypeInv, NEW e \in End, NEW c \in Conn, HelloFirst(e, c),
         Unread(e, c)' \in Prefixes(Unread(e, c)), reader'[e][c] = "none" <=> reader[e][c] = "none"
  PROVE  HelloFirst(e, c)'
<1>1. Unread(e, c) \in Seq(Nat)
  BY VarTypes, UnreadType
<1>2. PICK k \in 0 .. Len(Unread(e, c)) : Unread(e, c)' = SubSeq(Unread(e, c), 1, k)
  BY DEF Prefixes
<1>3. \A i \in DOMAIN Unread(e, c)' :
        i \in DOMAIN Unread(e, c) /\ Unread(e, c)'[i] = Unread(e, c)[i]
  BY <1>1, <1>2
<1> QED
  BY <1>3 DEF HelloFirst

\* A step that touches neither the socket of c nor its threads
LEMMA OpeningKept ==
  ASSUME TypeInv, NEW c \in Conn, Opening(c),
         \A e \in End : socket'[e][c] = socket[e][c],
         \A e \in End : reader'[e][c] = "none" <=> reader[e][c] = "none",
         writer'[c] = "none" <=> writer[c] = "none",
         accept'[c] \in {"none", "hello"} => accept[c] \in {"none", "hello"},
         c > last' => c > last /\ accept'[c] = accept[c],
         c \in live' => c \in live,
         c = last' => /\ c = last
                      /\ \/ dial' \in {dial, "connect"}
                         \/ {dial, dial'} \subseteq {"spawn", "write"}
  PROVE  Opening(c)'
<1>1. HelloFirst("dialler", c)' /\ HelloFirst("acceptor", c)'
  BY Ends DEF Opening, HelloFirst, Unread
<1> QED
  BY <1>1, Ends DEF Opening

\* What a write does to the socket
LEMMA WrittenIs ==
  ASSUME TypeInv, NEW e \in End, NEW c \in Conn, NEW m \in Nat
  PROVE  /\ c \in live => Written(e, c, m)[e][c] = Append(socket[e][c], m)
         /\ c \notin live => Written(e, c, m) = socket
         /\ \A f \in End, d \in Conn : f # e \/ d # c => Written(e, c, m)[f][d] = socket[f][d]
BY VarTypes DEF Written

LEMMA OpeningDialler ==
  ASSUME TypeInv, Carried, NEW c \in Conn, Opening(c), Dialler
  PROVE  Opening(c)'
<1>1. CASE Dial
  <2>1. /\ dial = "connect" /\ dial' = "hello" /\ last' = last + 1 /\ last' \in Conn
        /\ live' = live \cup {last'}
        /\ socket' = [socket EXCEPT !["dialler"][last'] = <<Hello>>]
        /\ accept' = [accept EXCEPT ![last'] = "hello"]
        /\ reader' = reader /\ writer' = writer
    BY <1>1 DEF Dial
  <2>2. CASE c = last'
    <3>1. /\ c > last /\ reader["acceptor"][c] = "none" /\ reader["dialler"][c] = "none"
          /\ socket["acceptor"][c] = << >> /\ writer[c] = "none"
      BY <2>1, <2>2, VarTypes DEF Opening
    <3>2. /\ socket'["acceptor"][c] = << >> /\ socket'["dialler"][c] = <<Hello>>
          /\ accept'[c] = "hello"
      BY <2>1, <2>2, <3>1, VarTypes, Ends
    <3>3. HelloFirst("dialler", c)' /\ HelloFirst("acceptor", c)'
      BY <2>1, <3>1, <3>2, Ends DEF HelloFirst, Unread
    <3> QED
      BY <2>1, <2>2, <3>1, <3>2, <3>3 DEF Opening
  <2>3. CASE c # last'
    <3>1. c \in Nat /\ last \in Nat /\ (c > last' => c > last)
      BY <2>1, ConnType, VarTypes
    <3>2. accept'[c] = accept[c] /\ \A e \in End : socket'[e][c] = socket[e][c]
      BY <2>1, <2>3, VarTypes
    <3> QED
      BY <2>1, <2>3, <3>1, <3>2, OpeningKept
  <2> QED
    BY <2>2, <2>3
<1>2. CASE ReadAck
  <2>1. /\ dial = "hello" /\ dial' = "spawn" /\ Unread("dialler", last) # << >>
        /\ socket' = [socket EXCEPT !["acceptor"][last] = Tail(@)]
        /\ reader' = [reader EXCEPT !["dialler"][last] = "run"]
        /\ last \in Conn
        /\ UNCHANGED <<last, accept, live, writer>>
    BY <1>2, VarTypes DEF ReadAck
  <2>2. CASE c = last
    <3>1. /\ Unread("dialler", c)' = Tail(Unread("dialler", c))
          /\ Unread("acceptor", c)' = Unread("acceptor", c)
          /\ reader'["dialler"][c] = "run" /\ reader'["acceptor"][c] = reader["acceptor"][c]
      BY <2>1, <2>2, VarTypes, Ends DEF Unread
    <3>2. reader["acceptor"][c] # "none"
      BY <2>1, <2>2, Ends DEF Opening, Unread
    <3>3. HelloFirst("dialler", c)'
      BY <2>1, <2>2, <3>1, Ends, HelloFirstTail DEF Opening
    <3>4. HelloFirst("acceptor", c)'
      BY <3>1 DEF Opening, HelloFirst
    <3> QED
      BY <2>1, <2>2, <3>1, <3>2, <3>3, <3>4 DEF Opening
  <2>3. CASE c # last
    BY <2>1, <2>3, VarTypes, OpeningKept
  <2> QED
    BY <2>2, <2>3
<1>3. CASE AckFails
  BY <1>3, OpeningKept DEF AckFails
<1>4. CASE Announce
  BY <1>4, OpeningKept DEF Announce, network
<1>5. CASE Write
  <2>1. /\ dial = "write" /\ rx_out # << >>
        /\ socket' = Written("dialler", last, Head(rx_out))
        /\ last \in Conn /\ Head(rx_out) \in Nat /\ Head(rx_out) # Hello
        /\ UNCHANGED <<live, dial, last, accept, reader, writer>>
    BY <1>5, VarTypes, PlainTail DEF Write, threads, Carried
  <2>2. CASE c = last /\ c \in live
    <3>1. /\ Unread("acceptor", c)' = Append(Unread("acceptor", c), Head(rx_out))
          /\ \A e \in End : socket'["acceptor"][c] = socket["acceptor"][c]
      BY <2>1, <2>2, WrittenIs, Ends DEF Unread
    <3>2. reader["acceptor"][c] # "none" /\ reader["dialler"][c] # "none"
      BY <2>1, <2>2 DEF Opening
    <3>3. HelloFirst("acceptor", c)'
      BY <2>1, <3>1, <3>2, HelloFirstAppend, Ends DEF Opening
    <3>4. HelloFirst("dialler", c)'
      BY <2>1, <3>1, Ends DEF Opening, HelloFirst, Unread
    <3> QED
      BY <2>1, <3>1, <3>2, <3>3, <3>4 DEF Opening
  <2>3. CASE c # last \/ c \notin live
    <3>1. \A e \in End : socket'[e][c] = socket[e][c]
      BY <2>1, <2>3, WrittenIs, Ends
    <3> QED
      BY <2>1, <3>1, OpeningKept
  <2> QED
    BY <2>2, <2>3
<1>6. CASE WriteFails
  BY <1>6, OpeningKept DEF WriteFails, network
<1> QED
  BY <1>1, <1>2, <1>3, <1>4, <1>5, <1>6 DEF Dialler

LEMMA OpeningAcceptor ==
  ASSUME TypeInv, Carried, NEW c \in Conn, Opening(c),
         NEW d \in Conn, Acceptor(d) \/ AcceptedWriter(d)
  PROVE  Opening(c)'
<1>1. CASE Accept(d)
  <2> DEFINE w == Written("acceptor", d, Hello)
  <2>1. /\ accept[d] = "hello" /\ Unread("acceptor", d) # << >>
        /\ socket' = [w EXCEPT !["dialler"][d] = Tail(@)]
        /\ reader' = [reader EXCEPT !["acceptor"][d] = "run"]
        /\ writer' = [writer EXCEPT ![d] = "run"]
        /\ accept' = [accept EXCEPT ![d] = "spawn"]
        /\ UNCHANGED <<dial, last, live>>
    BY <1>1 DEF Accept
  <2>2. w \in [End -> [Conn -> Seq(Nat)]]
    BY VarTypes, Ends, WrittenType DEF Hello
  <2>3. /\ d \in live => w["acceptor"][d] = Append(socket["acceptor"][d], Hello)
        /\ d \notin live => w["acceptor"][d] = socket["acceptor"][d]
        /\ w["dialler"][d] = socket["dialler"][d]
        /\ \A e \in End, k \in Conn \ {d} : w[e][k] = socket[e][k]
    BY WrittenIs, Ends DEF Hello
  <2> HIDE DEF w
  <2>4. CASE c = d
    <3>1. /\ Unread("acceptor", c)' = Tail(Unread("acceptor", c))
          /\ socket'["acceptor"][c] = w["acceptor"][c]
          /\ reader'["acceptor"][c] = "run" /\ reader'["dialler"][c] = reader["dialler"][c]
      BY <2>1, <2>2, <2>3, <2>4, VarTypes, Ends DEF Unread
    <3>2. /\ c <= last /\ reader["acceptor"][c] = "none" /\ reader["dialler"][c] = "none"
          /\ socket["acceptor"][c] = << >>
      <4>1. ~(c > last) /\ c \in Nat /\ last \in Nat
        BY <2>1, <2>4, ConnType, VarTypes DEF Opening
      <4> QED
        BY <2>1, <2>4, <4>1 DEF Opening
    <3>3. HelloFirst("acceptor", c)'
      BY <2>1, <2>4, <3>1, HelloFirstTail, Ends DEF Opening
    <3>4. HelloFirst("dialler", c)' /\ (c \in live => socket'["acceptor"][c] # << >>)
      <4>0. Append(<< >>, Hello) = <<Hello>> /\ <<Hello>> # << >>
        BY DEF Hello
      <4>1. /\ c \in live => socket'["acceptor"][c] = Append(<< >>, Hello)
            /\ c \notin live => socket'["acceptor"][c] = << >>
        BY <2>3, <2>4, <3>1, <3>2
      <4>2. /\ socket'["acceptor"][c] \in {<< >>, <<Hello>>}
            /\ c \in live => socket'["acceptor"][c] # << >>
        BY <4>0, <4>1
      <4> QED
        BY <3>1, <3>2, <4>2, Ends DEF HelloFirst, Unread
    <3>5. accept'[c] = "spawn"
      BY <2>1, <2>4, VarTypes
    <3>6. ~(c > last)
      BY <3>2, ConnType, VarTypes
    <3> QED
      BY <2>1, <3>1, <3>2, <3>3, <3>4, <3>5, <3>6 DEF Opening
  <2>5. CASE c # d
    <3>1. \A e \in End : socket'[e][c] = socket[e][c]
      BY <2>1, <2>2, <2>3, <2>5
    <3>2. \A e \in End : reader'[e][c] = reader[e][c]
      BY <2>1, <2>5, VarTypes
    <3> QED
      BY <2>1, <2>5, <3>1, <3>2, VarTypes, OpeningKept
  <2> QED
    BY <2>4, <2>5
<1>2. CASE AcceptFails(d)
  <2>1. /\ accept[d] = "hello" /\ accept' = [accept EXCEPT ![d] = "done"]
        /\ live' = live \ {d}
        /\ UNCHANGED <<dial, last, socket, reader, writer>>
    BY <1>2 DEF AcceptFails
  <2>2. c > last => c # d
    BY <2>1 DEF Opening
  <2> QED
    BY <2>1, <2>2, VarTypes, OpeningKept
<1>3. CASE AnnounceAccepted(d)
  <2>1. /\ accept[d] = "spawn" /\ accept' = [accept EXCEPT ![d] = "done"]
        /\ UNCHANGED <<dial, last, live, socket, reader, writer>>
    BY <1>3 DEF AnnounceAccepted, network
  <2>2. c > last => c # d
    BY <2>1 DEF Opening
  <2> QED
    BY <2>1, <2>2, VarTypes, OpeningKept
<1>4. CASE AcceptedWrite(d)
  <2> DEFINE m == Head(rx_accept[d])
  <2>1. /\ writer[d] = "run" /\ rx_accept[d] # << >>
        /\ socket' = Written("acceptor", d, m)
        /\ UNCHANGED <<live, dial, last, accept, reader, writer>>
    BY <1>4 DEF AcceptedWrite, threads
  <2>2. m \in Nat /\ m # Hello
    BY <2>1, VarTypes, PlainTail DEF Carried
  <2> HIDE DEF m
  <2>3. CASE c = d /\ c \in live
    <3>1. /\ Unread("dialler", c)' = Append(Unread("dialler", c), m)
          /\ socket'["dialler"][c] = socket["dialler"][c]
      BY <2>1, <2>2, <2>3, WrittenIs, Ends DEF Unread
    <3>2. reader["acceptor"][c] # "none"
      BY <2>1, <2>3 DEF Opening
    <3>3. Unread("dialler", c) \in Seq(Nat) /\ Unread("dialler", c)' # << >>
      <4> DEFINE q == Unread("dialler", c)
      <4>1. q \in Seq(Nat)
        BY UnreadType, VarTypes, Ends
      <4> HIDE DEF q
      <4>2. Append(q, m) # << >>
        BY <2>2, <4>1, AppendIs
      <4> QED
        BY <3>1, <4>1, <4>2 DEF q
    <3>4. HelloFirst("dialler", c)'
      <4>1. CASE reader["dialler"][c] # "none"
        BY <2>1, <2>2, <3>1, <4>1, HelloFirstAppend, Ends DEF Opening
      <4>2. CASE reader["dialler"][c] = "none"
        <5>1. Unread("dialler", c) # << >>
          BY <2>3, <3>2, <4>2, Ends DEF Opening, Unread
        <5>2. 1 \in DOMAIN Unread("dialler", c)
          BY <3>3, <5>1
        <5>3. Len(Unread("dialler", c)) + 1 # 1
          BY <3>3, <5>1
        <5> QED
          BY <2>1, <2>2, <3>1, <3>3, <4>2, <5>2, <5>3, PlainAppend DEF Opening, HelloFirst
      <4> QED
        BY <4>1, <4>2
    <3>5. HelloFirst("acceptor", c)'
      BY <2>1, <3>1, Ends DEF Opening, HelloFirst, Unread
    <3> QED
      BY <2>1, <3>1, <3>2, <3>3, <3>4, <3>5, Ends DEF Opening, Unread
  <2>4. CASE c # d \/ c \notin live
    <3>1. \A e \in End : socket'[e][c] = socket[e][c]
      BY <2>1, <2>2, <2>4, WrittenIs, Ends
    <3> QED
      BY <2>1, <3>1, OpeningKept
  <2> QED
    BY <2>3, <2>4
<1>5. CASE AcceptedWriteFails(d) \/ AcceptedWriteEnds(d)
  <2>1. /\ writer[d] = "run" /\ writer' = [writer EXCEPT ![d] = "done"]
        /\ UNCHANGED <<dial, last, live, socket, reader, accept>>
    BY <1>5 DEF AcceptedWriteFails, AcceptedWriteEnds, network
  <2>2. writer'[c] = "none" <=> writer[c] = "none"
    BY <2>1, VarTypes
  <2> QED
    BY <2>1, <2>2, OpeningKept
<1> QED
  BY <1>1, <1>2, <1>3, <1>4, <1>5 DEF Acceptor, AcceptedWriter

LEMMA OpeningReader ==
  ASSUME TypeInv, NEW c \in Conn, Opening(c), NEW e \in End, NEW d \in Conn,
         Reader(e, d) \/ Fail(d)
  PROVE  Opening(c)'
<1>1. CASE Read(e, d)
  <2>1. /\ reader[e][d] = "run" /\ Unread(e, d) # << >>
        /\ socket' = [socket EXCEPT ![Other(e)][d] = Tail(@)]
        /\ UNCHANGED <<live, dial, last, accept, reader, writer>>
    BY <1>1 DEF Read, threads
  <2>2. CASE c = d
    <3>1. /\ Unread(e, c)' = Tail(Unread(e, c))
          /\ Unread(Other(e), c)' = Unread(Other(e), c)
      BY <2>1, <2>2, VarTypes, Ends DEF Unread
    <3>2. HelloFirst(e, c)
      BY Ends DEF Opening
    <3>3. HelloFirst(e, c)'
      BY <2>1, <2>2, <3>1, <3>2, HelloFirstTail
    <3>4. HelloFirst(Other(e), c)'
      BY <2>1, <3>1, Ends DEF Opening, HelloFirst
    <3>5. /\ reader["acceptor"][c] = "none" => socket'["acceptor"][c] = socket["acceptor"][c]
          /\ reader["dialler"][c] = "none" => socket'["acceptor"][c] = socket["acceptor"][c]
      <4>1. CASE e = "dialler"
        BY <2>1, <2>2, <4>1 DEF Opening
      <4>2. CASE e = "acceptor"
        BY <3>1, <4>2, Ends DEF Unread
      <4> QED
        BY <4>1, <4>2, Ends
    <3>6. HelloFirst("dialler", c)' /\ HelloFirst("acceptor", c)'
      BY <3>3, <3>4, Ends
    <3> QED
      BY <2>1, <3>5, <3>6 DEF Opening
  <2>3. CASE c # d
    BY <2>1, <2>3, VarTypes, Ends, OpeningKept
  <2> QED
    BY <2>2, <2>3
<1>2. CASE ReadFails(e, d)
  <2>1. /\ reader[e][d] = "run" /\ reader' = [reader EXCEPT ![e][d] = "done"]
        /\ UNCHANGED <<live, socket, dial, last, accept, writer>>
    BY <1>2 DEF ReadFails, network
  <2>2. \A f \in End : reader'[f][c] = "none" <=> reader[f][c] = "none"
    BY <2>1, VarTypes
  <2> QED
    BY <2>1, <2>2, OpeningKept
<1>3. CASE Fail(d)
  <2>1. /\ live' = live \ {d} /\ UNCHANGED <<dial, last, accept, reader, writer>>
        /\ \E s \in Prefixes(socket["dialler"][d]), t \in Prefixes(socket["acceptor"][d]) :
             socket' = [socket EXCEPT !["dialler"][d] = s, !["acceptor"][d] = t]
    BY <1>3 DEF Fail, threads
  <2>2. CASE c = d
    <3>1. PICK s \in Prefixes(socket["dialler"][d]), t \in Prefixes(socket["acceptor"][d]) :
             socket' = [socket EXCEPT !["dialler"][d] = s, !["acceptor"][d] = t]
      BY <2>1
    <3>2. socket'["dialler"][c] = s /\ socket'["acceptor"][c] = t
      BY <2>2, <3>1, VarTypes, Ends
    <3>3. HelloFirst("dialler", c)'
      BY <2>1, <2>2, <3>2, HelloFirstCut, Ends DEF Opening, Unread
    <3>4. HelloFirst("acceptor", c)'
      BY <2>1, <2>2, <3>2, HelloFirstCut, Ends DEF Opening, Unread
    <3>5. socket["acceptor"][c] = << >> => t = << >>
      BY <2>2 DEF Prefixes
    <3> QED
      BY <2>1, <2>2, <3>2, <3>3, <3>4, <3>5 DEF Opening
  <2>3. CASE c # d
    <3>1. \A f \in End : socket'[f][c] = socket[f][c]
      <4>1. PICK s \in Prefixes(socket["dialler"][d]), t \in Prefixes(socket["acceptor"][d]) :
               socket' = [socket EXCEPT !["dialler"][d] = s, !["acceptor"][d] = t]
        BY <2>1
      <4> QED
        BY <2>3, <4>1, VarTypes
    <3> QED
      BY <2>1, <3>1, OpeningKept
  <2> QED
    BY <2>2, <2>3
<1> QED
  BY <1>1, <1>2, <1>3 DEF Reader

LEMMA OpeningStep ==
  ASSUME TypeInv, Carried, NEW c \in Conn, Opening(c), [Next]_vars
  PROVE  Opening(c)'
<1>1. ASSUME NEW e \in End, Handle(e) \/ Send(e)
      PROVE  Opening(c)'
  BY <1>1, OpeningKept DEF Handle, AddPeer, RemovePeer, OnNet, Send, network, threads
<1>2. CASE UNCHANGED vars
  BY <1>2, OpeningKept DEF vars, network, threads
<1> QED
  BY <1>1, <1>2, OpeningDialler, OpeningAcceptor, OpeningReader, Ends DEF Next

LEMMA MarkedAppend ==
  ASSUME TypeInv, Carried, NEW e \in End, NEW x \in Event, x.msg = Hello <=> x.type # "msg"
  PROVE  \A f \in End : Marked(Report(e, x)[f])
<1>1. /\ Report(e, x)[e] = Append(events[e], x)
      /\ \A f \in End \ {e} : Report(e, x)[f] = events[f]
  BY VarTypes, ReportType
<1>2. events[e] \in Seq(Event) /\ Marked(events[e])
  BY VarTypes DEF Carried
<1>3. Marked(Append(events[e], x))
  BY <1>2 DEF Marked
<1> QED
  BY <1>1, <1>3 DEF Carried

LEMMA MarkedTail ==
  ASSUME TypeInv, Carried, NEW e \in End, events[e] # << >>,
         events' = [events EXCEPT ![e] = Tail(@)]
  PROVE  \A f \in End : Marked(events'[f])
<1>1. events[e] \in Seq(Event) /\ Marked(events[e])
  BY VarTypes DEF Carried
<1>2. Marked(Tail(events[e]))
  BY <1>1 DEF Marked
<1>3. \A f \in End : /\ events'[f] \in {events[f], Tail(events[e])}
                    /\ f # e => events'[f] = events[f]
  BY VarTypes
<1>4. events'[e] = Tail(events[e])
  BY VarTypes
<1> QED
  BY <1>2, <1>3, <1>4 DEF Carried

LEMMA Reports ==
  ASSUME TypeInv, Carried, NEW c \in Conn
  PROVE  /\ \A e \in End : \A f \in End :
              Marked(Report(e, Up(c))[f]) /\ Marked(Report(e, Down(c))[f])
         /\ SendDisconnect(c) => \A f \in End : Marked(events'[f])
<1>1. /\ Up(c) \in Event /\ Up(c).msg = Hello /\ Up(c).type # "msg"
      /\ Down(c) \in Event /\ Down(c).msg = Hello /\ Down(c).type # "msg"
  BY EventTypes DEF Up, Down, Hello
<1>2. \A e \in End : \A f \in End :
        Marked(Report(e, Up(c))[f]) /\ Marked(Report(e, Down(c))[f])
  BY <1>1, MarkedAppend
<1> QED
  BY <1>2, Ends DEF SendDisconnect, Carried

LEMMA CarriedStep ==
  ASSUME Shaken, [Next]_vars
  PROVE  Carried'
<1>0. TypeInv /\ Carried /\ \A c \in Conn : Opening(c)
  BY DEF Shaken
<1>1. CASE Dialler
  <2>1. rx_out' = rx_out \/ (rx_out # << >> /\ rx_out' = Tail(rx_out))
    BY <1>1 DEF Dialler, Dial, ReadAck, AckFails, Announce, Write, WriteFails
  <2>2. Plain(rx_out')
    BY <1>0, <2>1, PlainTail, VarTypes DEF Carried
  <2>3. UNCHANGED <<rx_accept, got>>
    BY <1>1 DEF Dialler, Dial, ReadAck, AckFails, Announce, Write, WriteFails, nodes
  <2>4. \/ events' = events
        \/ last \in Conn /\ (events' = Report("dialler", Up(last)) \/ SendDisconnect(last))
    BY <1>0, <1>1, VarTypes DEF Dialler, Dial, ReadAck, AckFails, Announce, Write, WriteFails
  <2>5. \A f \in End : Marked(events'[f])
    BY <1>0, <2>4, Reports, Ends DEF Carried
  <2> QED
    BY <1>0, <2>2, <2>3, <2>5 DEF Carried
<1>2. ASSUME NEW c \in Conn, Acceptor(c) \/ AcceptedWriter(c) \/ Fail(c)
      PROVE  Carried'
  <2>1. UNCHANGED <<rx_out, got>>
    BY <1>2 DEF Acceptor, Accept, AcceptFails, AnnounceAccepted, AcceptedWriter,
         AcceptedWrite, AcceptedWriteFails, AcceptedWriteEnds, Fail, nodes
  <2>2. \/ rx_accept' = rx_accept
        \/ rx_accept' = [rx_accept EXCEPT ![c] = << >>]
        \/ rx_accept[c] # << >> /\ rx_accept' = [rx_accept EXCEPT ![c] = Tail(@)]
    BY <1>2 DEF Acceptor, Accept, AcceptFails, AnnounceAccepted, AcceptedWriter,
         AcceptedWrite, AcceptedWriteFails, AcceptedWriteEnds, Fail
  <2>3. ASSUME NEW d \in Conn
        PROVE  Plain(rx_accept'[d])
    <3>1. \/ rx_accept'[d] = rx_accept[d] \/ rx_accept'[d] = << >>
          \/ rx_accept[d] # << >> /\ rx_accept'[d] = Tail(rx_accept[d])
      BY <1>0, <2>2, VarTypes
    <3>2. Plain(rx_accept[d]) /\ rx_accept[d] \in Seq(Nat) /\ Plain(<< >>)
      BY <1>0, VarTypes DEF Carried, Plain
    <3> QED
      BY <3>1, <3>2, PlainTail
  <2>4. \/ events' = events \/ events' = Report("acceptor", Up(c))
        \/ events' = Report("acceptor", Down(c))
    BY <1>2 DEF Acceptor, Accept, AcceptFails, AnnounceAccepted, AcceptedWriter,
         AcceptedWrite, AcceptedWriteFails, AcceptedWriteEnds, Fail
  <2>5. \A f \in End : Marked(events'[f])
    BY <1>0, <2>4, Reports, Ends DEF Carried
  <2> QED
    BY <1>0, <2>1, <2>3, <2>5 DEF Carried
<1>3. ASSUME NEW e \in End, NEW c \in Conn, Reader(e, c)
      PROVE  Carried'
  <2>1. UNCHANGED <<rx_out, rx_accept, got>>
    BY <1>3 DEF Reader, Read, ReadFails, nodes
  <2>2. CASE Read(e, c)
    <3> DEFINE m == Head(Unread(e, c))
    <3>1. /\ reader[e][c] = "run" /\ Unread(e, c) # << >> /\ events' = Report(e, Msg(c, m))
      BY <2>2 DEF Read
    <3>2. m \in Nat /\ m # Hello
      <4>1. Unread(e, c) \in Seq(Nat) /\ HelloFirst(e, c)
        <5>1. Unread(e, c) \in Seq(Nat)
          BY <1>0, UnreadType, VarTypes
        <5> QED
          BY <1>0, <5>1, Ends DEF Opening
      <4>2. m \in Nat /\ m = Unread(e, c)[1] /\ 1 \in DOMAIN Unread(e, c)
        BY <3>1, <4>1
      <4> QED
        BY <3>1, <4>1, <4>2 DEF HelloFirst
    <3> HIDE DEF m
    <3>3. Msg(c, m) \in Event /\ Msg(c, m).type = "msg" /\ Msg(c, m).msg # Hello
      BY <3>2, EventTypes DEF Msg
    <3> QED
      BY <1>0, <2>1, <3>1, <3>3, MarkedAppend DEF Carried
  <2>3. CASE ReadFails(e, c)
    <3>1. \A f \in End : Marked(events'[f])
      BY <1>0, <2>3, Reports, Ends DEF ReadFails
    <3> QED
      BY <1>0, <2>1, <3>1 DEF Carried
  <2> QED
    BY <1>3, <2>2, <2>3 DEF Reader
<1>4. ASSUME NEW e \in End, Handle(e)
      PROVE  Carried'
  <2>1. events[e] # << >> /\ events' = [events EXCEPT ![e] = Tail(@)]
    BY <1>4 DEF Handle, AddPeer, RemovePeer, OnNet, NextEvent
  <2>2. \A f \in End : Marked(events'[f])
    BY <1>0, <2>1, MarkedTail
  <2>3. Head(events[e]) \in Event /\ events[e] \in Seq(Event)
    BY <1>0, <2>1, NextEventType, VarTypes
  <2>4. CASE AddPeer(e)
    <3>1. Post(e, Head(events[e]).conn, GREETINGS) /\ got' = got
      BY <2>4 DEF AddPeer
    <3>2. Head(events[e]).conn \in Conn /\ GREETINGS \in Nat
      BY <2>3, TransportAssumption DEF Event
    <3> QED
      BY <1>0, <2>2, <3>1, <3>2, PostPlain DEF Carried
  <2>5. CASE RemovePeer(e)
    BY <1>0, <2>2, <2>5 DEF RemovePeer, Carried
  <2>6. CASE OnNet(e)
    <3> DEFINE m == Head(events[e]).msg
    <3>1. /\ Head(events[e]).type = "msg" /\ UNCHANGED <<rx_out, rx_accept>>
          /\ got' = [got EXCEPT ![e] = Append(@, m)]
      BY <2>6 DEF OnNet, NextEvent
    <3>2. Head(events[e]) = events[e][1] /\ 1 \in DOMAIN events[e]
      BY <2>1, <2>3
    <3>3. m \in Nat /\ m # Hello
      BY <1>0, <2>3, <3>1, <3>2 DEF Carried, Marked, Event
    <3> HIDE DEF m
    <3>4. Plain(Append(got[e], m))
      BY <1>0, <3>3, PlainAppend, VarTypes DEF Carried
    <3>5. \A f \in End : Plain(got'[f])
      BY <1>0, <3>1, <3>4, VarTypes DEF Carried
    <3> QED
      BY <1>0, <2>2, <3>1, <3>5 DEF Carried
  <2> QED
    BY <1>4, <2>4, <2>5, <2>6 DEF Handle
<1>5. ASSUME NEW e \in End, Send(e)
      PROVE  Carried'
  <2>1. Post(e, peer[e], 1) /\ UNCHANGED <<events, got>> /\ peer[e] \in Conn
    BY <1>0, <1>5 DEF Send, TypeInv, TypeOK
  <2> QED
    BY <1>0, <2>1, PostPlain DEF Carried
<1>6. CASE UNCHANGED vars
  BY <1>0, <1>6 DEF vars, nodes, Carried
<1> QED
  BY <1>1, <1>2, <1>3, <1>4, <1>5, <1>6 DEF Next

LEMMA ShakenStep ==
  ASSUME Shaken, [Next]_vars
  PROVE  Shaken'
<1>1. TypeInv /\ Carried /\ \A c \in Conn : Opening(c)
  BY DEF Shaken
<1>2. \A c \in Conn : Opening(c)'
  BY <1>1, OpeningStep
<1>3. TypeInv' /\ Carried'
  BY <1>1, TypeStep, CarriedStep
<1> QED
  BY <1>2, <1>3 DEF Shaken

LEMMA ShakenInit == Init => Shaken
<1> SUFFICES ASSUME Init PROVE Shaken
  OBVIOUS
<1>1. /\ dial = "connect" /\ last = 0 /\ live = {} /\ rx_out = << >>
      /\ \A c \in Conn : /\ accept[c] = "none" /\ writer[c] = "none" /\ rx_accept[c] = << >>
                         /\ \A e \in End : socket[e][c] = << >> /\ reader[e][c] = "none"
      /\ \A e \in End : events[e] = << >> /\ got[e] = << >>
  BY DEF Init
<1>2. Carried
  BY <1>1 DEF Carried, Plain, Marked
<1>3. \A c \in Conn : Opening(c)
  BY <1>1, Ends DEF Opening, HelloFirst, Unread
<1> QED
  BY <1>2, <1>3, TypeInit DEF Shaken

-----------------------------------------------------------------------------
(* No message twice *)

\* The message at f[a][i] is not at f[b][j] as well.
Single(f, a, i, b, j) == f[a][i] # Hello /\ f[a][i] = f[b][j] => a = b /\ i = j

\* In the queues f of B no message is above n, and none is at two places.
Sole(B, f, n) ==
  /\ \A a \in B : \A i \in DOMAIN f[a] : f[a][i] <= n
  /\ \A a, b \in B : \A i \in DOMAIN f[a] : \A j \in DOMAIN f[b] : Single(f, a, i, b, j)

\* t holds nothing but a stretch of s, and a Hello here and there.
Stretch(t, s) ==
  \E k \in Nat : \A i \in DOMAIN t : t[i] = Hello \/ (i + k \in DOMAIN s /\ t[i] = s[i + k])

LEMMA SoleStretch ==
  ASSUME NEW B, NEW f \in [B -> Seq(Nat)], NEW g \in [B -> Seq(Nat)], NEW n \in Nat,
         NEW m \in Nat, n <= m, Sole(B, f, n), \A b \in B : Stretch(g[b], f[b])
  PROVE  Sole(B, g, m)
<1> SUFFICES ASSUME NEW a \in B, NEW b \in B, NEW i \in DOMAIN g[a], NEW j \in DOMAIN g[b]
             PROVE  g[a][i] <= m /\ Single(g, a, i, b, j)
  BY DEF Sole
<1>1. PICK k \in Nat : \A l \in DOMAIN g[a] :
        g[a][l] = Hello \/ (l + k \in DOMAIN f[a] /\ g[a][l] = f[a][l + k])
  BY DEF Stretch
<1>2. PICK h \in Nat : \A l \in DOMAIN g[b] :
        g[b][l] = Hello \/ (l + h \in DOMAIN f[b] /\ g[b][l] = f[b][l + h])
  BY DEF Stretch
<1>3. g[a] \in Seq(Nat) /\ g[b] \in Seq(Nat)
  OBVIOUS
<1>4. i \in Nat /\ j \in Nat /\ g[a][i] \in Nat
  BY <1>3
<1>5. g[a][i] <= m
  <2>1. CASE g[a][i] = Hello
    BY <2>1 DEF Hello
  <2>2. CASE i + k \in DOMAIN f[a] /\ g[a][i] = f[a][i + k]
    <3>1. f[a][i + k] <= n
      BY <2>2 DEF Sole
    <3> QED
      BY <1>4, <2>2, <3>1
  <2> QED
    BY <1>1, <2>1, <2>2
<1>6. ASSUME g[a][i] # Hello, g[a][i] = g[b][j]
      PROVE  a = b /\ i = j
  <2>1. /\ i + k \in DOMAIN f[a] /\ g[a][i] = f[a][i + k]
        /\ j + h \in DOMAIN f[b] /\ g[b][j] = f[b][j + h]
    BY <1>1, <1>2, <1>6
  <2>2. a = b /\ i + k = j + h
    <3>1. f[a][i + k] # Hello /\ f[a][i + k] = f[b][j + h]
      BY <1>6, <2>1
    <3> QED
      BY <2>1, <3>1 DEF Sole, Single
  <2>3. CASE k = h
    BY <1>4, <2>2, <2>3
  <2>4. CASE k # h
    (* the same queue, read off at two offsets *)
    <3>1. j + k \in DOMAIN f[a] /\ g[b][j] = f[a][j + k]
      BY <1>1, <1>6, <2>2
    <3>2. f[a][i + k] # Hello /\ f[a][i + k] = f[a][j + k]
      BY <1>6, <2>1, <3>1
    <3>3. i + k = j + k
      BY <2>1, <3>1, <3>2 DEF Sole, Single
    <3> QED
      BY <1>4, <3>3, <2>2
  <2> QED
    BY <2>3, <2>4
<1> QED
  BY <1>5, <1>6 DEF Single

\* Where a message was before it went from the head of queue x to position l of y
Was(x, y, l, b, i) ==
  IF b = y /\ i = l THEN <<x, 1>> ELSE IF b = x THEN <<b, i + 1>> ELSE <<b, i>>

LEMMA WasOne ==
  ASSUME NEW x, NEW y, x # y, NEW l \in Nat, NEW a, NEW b, NEW i \in Nat \ {0}, NEW j \in Nat \ {0},
         Was(x, y, l, a, i) = Was(x, y, l, b, j)
  PROVE  a = b /\ i = j
BY DEF Was

\* g is f with the head of x at the end of y.
Moves(B, f, g, x, y) ==
  /\ g[x] = Tail(f[x]) /\ g[y] = Append(f[y], Head(f[x]))
  /\ \A b \in B \ {x, y} : g[b] = f[b]

\* i is a place of g[b] and w the place of f where the message there was.
WasAt(B, f, g, b, i, w) ==
  i \in Nat \ {0} /\ w[1] \in B /\ w[2] \in DOMAIN f[w[1]] /\ g[b][i] = f[w[1]][w[2]]

LEMMA WasThere ==
  ASSUME NEW B, NEW f \in [B -> Seq(Nat)], NEW g \in [B -> Seq(Nat)],
         NEW x \in B, NEW y \in B, x # y, f[x] # << >>, Moves(B, f, g, x, y),
         NEW b \in B, NEW i \in DOMAIN g[b]
  PROVE  WasAt(B, f, g, b, i, Was(x, y, Len(f[y]) + 1, b, i))
<1>1. f[x] \in Seq(Nat) /\ f[y] \in Seq(Nat)
  OBVIOUS
<1>2. CASE b = x
  BY <1>1, <1>2, PlainTail DEF Was, WasAt, Moves
<1>3. CASE b = y
  <2>1. 1 \in DOMAIN f[x] /\ Head(f[x]) = f[x][1]
    BY <1>1, PlainTail
  <2>2. \/ i \in DOMAIN f[y] /\ g[y][i] = f[y][i] /\ i # Len(f[y]) + 1 /\ i \in Nat \ {0}
        \/ i = Len(f[y]) + 1 /\ g[y][i] = Head(f[x]) /\ i \in Nat \ {0}
    <3> DEFINE p == f[y]
               m == Head(f[x])
    <3>1. p \in Seq(Nat) /\ m \in Nat /\ g[y] = Append(p, m) /\ i \in DOMAIN Append(p, m)
      BY <1>1, <1>3 DEF Moves
    <3> HIDE DEF p, m
    <3>2. /\ DOMAIN Append(p, m) = 1 .. Len(p) + 1 /\ DOMAIN p = 1 .. Len(p) /\ Len(p) \in Nat
          /\ \A j \in 1 .. Len(p) : Append(p, m)[j] = p[j]
          /\ Append(p, m)[Len(p) + 1] = m
      BY <3>1, AppendIs
    <3>3. /\ i \in Nat \ {0}
          /\ \/ i \in DOMAIN p /\ i # Len(p) + 1
             \/ i = Len(p) + 1
      <4>1. ASSUME NEW l \in Nat, i \in 1 .. l + 1
            PROVE  i \in Nat \ {0} /\ (i \in 1 .. l => i # l + 1) /\ (i \in 1 .. l \/ i = l + 1)
        BY <4>1
      <4>2. i \in 1 .. Len(p) + 1
        BY <3>1, <3>2
      <4> QED
        BY <3>2, <4>1, <4>2
    <3> QED
      BY <3>1, <3>2, <3>3 DEF p, m
  <2> QED
    BY <1>3, <2>1, <2>2 DEF Was, WasAt
<1>4. CASE b \notin {x, y}
  <2>1. f[b] \in Seq(Nat) /\ g[b] = f[b]
    BY <1>4 DEF Moves
  <2>2. i \in Nat \ {0}
    BY <2>1
  <2> QED
    BY <1>4, <2>1, <2>2 DEF Was, WasAt
<1> QED
  BY <1>2, <1>3, <1>4

\* The head of x goes to the end of y.
LEMMA SoleMove ==
  ASSUME NEW B, NEW f \in [B -> Seq(Nat)], NEW g \in [B -> Seq(Nat)], NEW n \in Nat,
         NEW x \in B, NEW y \in B, x # y, f[x] # << >>, Sole(B, f, n), Moves(B, f, g, x, y)
  PROVE  Sole(B, g, n)
<1> SUFFICES ASSUME NEW a \in B, NEW b \in B, NEW i \in DOMAIN g[a], NEW j \in DOMAIN g[b]
             PROVE  g[a][i] <= n /\ Single(g, a, i, b, j)
  BY DEF Sole
<1> DEFINE l == Len(f[y]) + 1
           v == Was(x, y, l, a, i)
           w == Was(x, y, l, b, j)
<1>1. l \in Nat
  <2>1. f[y] \in Seq(Nat)
    OBVIOUS
  <2> QED
    BY <2>1
<1>2. WasAt(B, f, g, a, i, v) /\ WasAt(B, f, g, b, j, w)
  BY WasThere
<1>3. v = w => a = b /\ i = j
  BY <1>1, <1>2, WasOne DEF WasAt
<1>4. v[1] = w[1] /\ v[2] = w[2] => v = w
  BY DEF Was
<1> HIDE DEF v, w
<1>5. /\ v[1] \in B /\ v[2] \in DOMAIN f[v[1]] /\ g[a][i] = f[v[1]][v[2]]
      /\ w[1] \in B /\ w[2] \in DOMAIN f[w[1]] /\ g[b][j] = f[w[1]][w[2]]
  BY <1>2 DEF WasAt
<1>6. f[v[1]][v[2]] <= n
  BY <1>5 DEF Sole
<1>7. Single(f, v[1], v[2], w[1], w[2])
  BY <1>5 DEF Sole
<1> QED
  BY <1>3, <1>4, <1>5, <1>6, <1>7 DEF Single

\* At place i of g[b] is what f[b] has there, or, behind the first l in y, one of the
\* next k messages.
Posts(f, g, n, k, y, l, b, i) ==
  \/ i \in DOMAIN f[b] /\ g[b][i] = f[b][i]
  \/ b = y /\ i \in Nat /\ i > l /\ g[b][i] = n + (i - l) /\ i - l <= k

LEMMA SoleExtended ==
  ASSUME NEW B, NEW f \in [B -> Seq(Nat)], NEW g \in [B -> Seq(Nat)], NEW n \in Nat,
         NEW k \in Nat, NEW y, NEW l \in Nat, Sole(B, f, n),
         NEW a \in B, NEW b \in B, NEW i \in DOMAIN g[a], NEW j \in DOMAIN g[b],
         Posts(f, g, n, k, y, l, a, i), Posts(f, g, n, k, y, l, b, j)
  PROVE  g[a][i] <= n + k /\ Single(g, a, i, b, j)
<1>1. g[a][i] \in Nat
  <2>1. g[a] \in Seq(Nat)
    OBVIOUS
  <2> QED
    BY <2>1
<1>2. \/ i \in DOMAIN f[a] /\ g[a][i] = f[a][i] /\ g[a][i] <= n
      \/ a = y /\ i \in Nat /\ i > l /\ g[a][i] = n + (i - l) /\ i - l <= k
  BY DEF Sole, Posts
<1>3. \/ j \in DOMAIN f[b] /\ g[b][j] = f[b][j] /\ g[b][j] <= n
      \/ b = y /\ j \in Nat /\ j > l /\ g[b][j] = n + (j - l) /\ j - l <= k
  BY DEF Sole, Posts
<1>4. g[a][i] <= n + k
  <2>1. CASE g[a][i] <= n
    BY <1>1, <2>1
  <2>2. CASE i \in Nat /\ i > l /\ g[a][i] = n + (i - l) /\ i - l <= k
    BY <1>1, <2>2
  <2> QED
    BY <1>2, <2>1, <2>2
<1>5. ASSUME g[a][i] # Hello, g[a][i] = g[b][j]
      PROVE  a = b /\ i = j
  <2>1. CASE i \in DOMAIN f[a] /\ g[a][i] = f[a][i] /\ g[a][i] <= n
    <3>1. j \in DOMAIN f[b] /\ g[b][j] = f[b][j]
      BY <1>1, <1>3, <1>5, <2>1
    <3>2. f[a][i] # Hello /\ f[a][i] = f[b][j]
      BY <1>5, <2>1, <3>1
    <3> QED
      BY <2>1, <3>1, <3>2 DEF Sole, Single
  <2>2. CASE a = y /\ i \in Nat /\ i > l /\ g[a][i] = n + (i - l) /\ i - l <= k
    BY <1>1, <1>3, <1>5, <2>2
  <2> QED
    BY <1>2, <2>1, <2>2
<1> QED
  BY <1>4, <1>5 DEF Single

\* The next k messages are posted at the end of y.
LEMMA SolePost ==
  ASSUME NEW B, NEW f \in [B -> Seq(Nat)], NEW g \in [B -> Seq(Nat)], NEW n \in Nat,
         NEW k \in Nat, NEW y \in B, Sole(B, f, n),
         g[y] = f[y] \o [i \in 1 .. k |-> n + i],
         \A b \in B \ {y} : g[b] = f[b]
  PROVE  Sole(B, g, n + k)
<1> DEFINE l == Len(f[y])
           ms == [i \in 1 .. k |-> n + i]
<1>1. f[y] \in Seq(Nat) /\ l \in Nat /\ DOMAIN f[y] = 1 .. l
  OBVIOUS
<1>2. ms \in Seq(Nat) /\ Len(ms) = k /\ \A i \in 1 .. k : ms[i] = n + i
  OBVIOUS
<1>3. g[y] = f[y] \o ms
  OBVIOUS
<1> HIDE DEF ms, l
<1>4. /\ DOMAIN g[y] = 1 .. l + k
      /\ \A i \in 1 .. l + k : g[y][i] = IF i <= l THEN f[y][i] ELSE n + (i - l)
  BY <1>1, <1>2, <1>3 DEF l
<1>5. \A b \in B : \A i \in DOMAIN g[b] : Posts(f, g, n, k, y, l, b, i)
  <2> SUFFICES ASSUME NEW b \in B, NEW i \in DOMAIN g[b] PROVE Posts(f, g, n, k, y, l, b, i)
    OBVIOUS
  <2>1. CASE b = y /\ i <= l
    BY <1>1, <1>4, <2>1 DEF Posts
  <2>3. CASE b = y /\ ~(i <= l)
    <3>1. i \in 1 .. l + k /\ g[y][i] = n + (i - l)
      BY <1>4, <2>3
    <3>2. i \in Nat /\ i > l /\ i - l <= k
      BY <1>1, <2>3, <3>1
    <3> QED
      BY <2>3, <3>1, <3>2 DEF Posts
  <2>2. CASE b # y
    BY <2>2 DEF Posts
  <2> QED
    BY <2>1, <2>2, <2>3
<1> SUFFICES ASSUME NEW a \in B, NEW b \in B, NEW i \in DOMAIN g[a], NEW j \in DOMAIN g[b]
             PROVE  g[a][i] <= n + k /\ Single(g, a, i, b, j)
  BY DEF Sole
<1>6. Posts(f, g, n, k, y, l, a, i) /\ Posts(f, g, n, k, y, l, b, j)
  BY <1>5
<1> QED
  BY <1>1, <1>6, SoleExtended

LEMMA Stretches ==
  ASSUME NEW s \in Seq(Nat)
  PROVE  /\ Stretch(s, s) /\ Stretch(<< >>, s) /\ Stretch(Append(s, Hello), s)
         /\ s # << >> => Stretch(Tail(s), s)
         /\ \A t \in Prefixes(s) : Stretch(t, s)
<1>1. \A i \in DOMAIN s : i \in Nat /\ i + 0 = i
  OBVIOUS
<1>2. Stretch(s, s)
  BY <1>1 DEF Stretch
<1>3. Stretch(<< >>, s)
  BY DEF Stretch
<1>4. Stretch(Append(s, Hello), s)
  BY <1>1, PlainAppend DEF Stretch, Hello
<1>5. s # << >> => Stretch(Tail(s), s)
  BY PlainTail DEF Stretch
<1>6. ASSUME NEW t \in Prefixes(s)
      PROVE  Stretch(t, s)
  <2>1. PICK k \in 0 .. Len(s) : t = SubSeq(s, 1, k)
    BY DEF Prefixes
  <2>2. \A i \in DOMAIN t : i + 0 \in DOMAIN s /\ t[i] = s[i + 0]
    BY <2>1
  <2> QED
    BY <2>2 DEF Stretch
<1> QED
  BY <1>2, <1>3, <1>4, <1>5, <1>6

\* Where messages for e are: handled, waiting for its node, on a connection, or posted;
\* the dialler posts in one channel.
Box(e) ==
  {<<"got", 0>>, <<"heard", 0>>} \cup ({"socket"} \X Conn) \cup
  ({"posted"} \X (IF e = "acceptor" THEN {0} ELSE Conn))

Held(e, b) ==
  CASE b[1] = "got" -> got[e]
    [] b[1] = "heard" -> Heard(e)
    [] b[1] = "socket" -> Unread(e, b[2])
    [] b[1] = "posted" -> Posted(Other(e), b[2])

Boxes(e) == [b \in Box(e) |-> Held(e, b)]

Once(e) == Sole(Box(e), Boxes(e), sent[Other(e)])

LEMMA HeldIs ==
  ASSUME NEW e \in End, NEW c
  PROVE  /\ Held(e, <<"got", 0>>) = got[e] /\ Held(e, <<"heard", 0>>) = Heard(e)
         /\ Held(e, <<"socket", c>>) = Unread(e, c)
         /\ Held(e, <<"posted", c>>) = Posted(Other(e), c)
BY DEF Held

LEMMA BoxIs ==
  ASSUME NEW e \in End
  PROVE  /\ <<"got", 0>> \in Box(e) /\ <<"heard", 0>> \in Box(e)
         /\ \A c \in Conn : <<"socket", c>> \in Box(e)
         /\ e = "acceptor" => <<"posted", 0>> \in Box(e)
         /\ e = "dialler" => \A c \in Conn : <<"posted", c>> \in Box(e)
         /\ \A b \in Box(e) :
              \/ b = <<"got", 0>> \/ b = <<"heard", 0>>
              \/ \E c \in Conn : b = <<"socket", c>>
              \/ e = "acceptor" /\ b = <<"posted", 0>>
              \/ e = "dialler" /\ \E c \in Conn : b = <<"posted", c>>
BY Ends DEF Box

LEMMA HeardType ==
  ASSUME TypeInv, NEW e \in End
  PROVE  /\ Heard(e) \in Seq(Nat) /\ Len(Heard(e)) = Len(events[e])
         /\ events[e] # << >> => Head(Heard(e)) = Head(events[e]).msg /\ Heard(e) # << >>
<1>1. events[e] \in Seq(Event) /\ \A x \in Event : x.msg \in Nat
  BY VarTypes DEF Event
<1>2. \A i \in DOMAIN events[e] : events[e][i].msg \in Nat
  BY <1>1
<1>3. Heard(e) \in Seq(Nat) /\ Len(Heard(e)) = Len(events[e])
  BY <1>1, <1>2 DEF Heard
<1>4. ASSUME events[e] # << >>
      PROVE  Head(Heard(e)) = Head(events[e]).msg /\ Heard(e) # << >>
  <2>1. 1 \in DOMAIN events[e] /\ Head(events[e]) = events[e][1] /\ Len(events[e]) # 0
    BY <1>1, <1>4
  <2>2. Heard(e) # << >> /\ Heard(e)[1] = events[e][1].msg
    BY <1>3, <2>1 DEF Heard
  <2> QED
    BY <1>3, <2>1, <2>2
<1> QED
  BY <1>3, <1>4

LEMMA TailIs ==
  ASSUME NEW S, NEW s \in Seq(S), s # << >>
  PROVE  /\ Tail(s) = [i \in 1 .. Len(s) - 1 |-> s[i + 1]] /\ Len(s) \in Nat
         /\ DOMAIN Tail(s) = 1 .. Len(s) - 1 /\ \A i \in 1 .. Len(s) - 1 : Tail(s)[i] = s[i + 1]
<1>1. Tail(s) \in Seq(S) /\ Len(s) \in Nat /\ Len(s) # 0 /\ Len(Tail(s)) = Len(s) - 1
  OBVIOUS
<1>2. \A i \in 1 .. Len(s) - 1 : Tail(s)[i] = s[i + 1]
  BY <1>1
<1>3. Tail(s) \in [1 .. Len(s) - 1 -> S]
  BY <1>1, LenProperties
<1>4. Tail(s) = [i \in 1 .. Len(s) - 1 |-> Tail(s)[i]]
  BY <1>3, Zenon
<1>5. Tail(s) = [i \in 1 .. Len(s) - 1 |-> s[i + 1]]
  BY <1>2, <1>4
<1> QED
  BY <1>1, <1>2, <1>3, <1>5

LEMMA HeardReport ==
  ASSUME TypeInv, NEW e \in End, NEW x \in Event, events' = Report(e, x)
  PROVE  /\ Heard(e)' = Append(Heard(e), x.msg)
         /\ \A f \in End \ {e} : Heard(f)' = Heard(f)
<1>1. /\ events'[e] = Append(events[e], x) /\ events[e] \in Seq(Event)
      /\ \A f \in End \ {e} : events'[f] = events[f]
  BY VarTypes, ReportType
<1>2. \A f \in End \ {e} : Heard(f)' = Heard(f)
  BY <1>1 DEF Heard
<1>3. /\ DOMAIN events'[e] = 1 .. Len(events[e]) + 1
      /\ \A i \in 1 .. Len(events[e]) + 1 :
           events'[e][i] = IF i <= Len(events[e]) THEN events[e][i] ELSE x
  BY <1>1
<1>4. Heard(e)' = [i \in 1 .. Len(events[e]) + 1 |-> events'[e][i].msg]
  BY <1>3 DEF Heard
<1>5. Heard(e) = [i \in 1 .. Len(events[e]) |-> events[e][i].msg]
  BY <1>1 DEF Heard
<1>6. /\ Heard(e) \in Seq(Nat) /\ Len(Heard(e)) = Len(events[e]) /\ x.msg \in Nat
      /\ Len(events[e]) \in Nat
  BY <1>1, HeardType DEF Event
<1>7. Append(Heard(e), x.msg) = [i \in 1 .. Len(events[e]) + 1 |->
                                    IF i <= Len(events[e]) THEN Heard(e)[i] ELSE x.msg]
  <2> DEFINE q == Heard(e)
             m == x.msg
  <2>1. q \in Seq(Nat) /\ m \in Nat /\ Len(q) = Len(events[e])
    BY <1>6
  <2> HIDE DEF q, m
  <2>2. /\ DOMAIN Append(q, m) = 1 .. Len(q) + 1 /\ Append(q, m) \in Seq(Nat)
        /\ \A i \in 1 .. Len(q) : Append(q, m)[i] = q[i]
        /\ Append(q, m)[Len(q) + 1] = m /\ Len(q) \in Nat
    BY <2>1, AppendIs
  <2>3. Append(q, m) = [i \in 1 .. Len(q) + 1 |-> Append(q, m)[i]]
    <3>1. \A f \in Seq(Nat) : f = [i \in DOMAIN f |-> f[i]]
      OBVIOUS
    <3> QED
      BY <2>2, <3>1
  <2>4. ASSUME NEW i \in 1 .. Len(q) + 1
        PROVE  Append(q, m)[i] = IF i <= Len(q) THEN q[i] ELSE m
    <3>1. CASE i <= Len(q)
      <4>1. i \in 1 .. Len(q)
        BY <2>2, <3>1
      <4> QED
        BY <2>2, <3>1, <4>1
    <3>2. CASE ~(i <= Len(q))
      <4>1. i = Len(q) + 1
        BY <2>2, <3>2
      <4> QED
        BY <2>2, <3>2, <4>1
    <3> QED
      BY <3>1, <3>2
  <2> QED
    BY <2>1, <2>3, <2>4 DEF q, m
<1>8. \A i \in 1 .. Len(events[e]) + 1 :
        events'[e][i].msg = IF i <= Len(events[e]) THEN Heard(e)[i] ELSE x.msg
  BY <1>3, <1>5, <1>6
<1>9. Heard(e)' = Append(Heard(e), x.msg)
  BY <1>4, <1>7, <1>8
<1> QED
  BY <1>2, <1>9

LEMMA HeardTail ==
  ASSUME TypeInv, NEW e \in End, events[e] # << >>, events' = [events EXCEPT ![e] = Tail(@)]
  PROVE  /\ Heard(e)' = Tail(Heard(e))
         /\ \A f \in End \ {e} : Heard(f)' = Heard(f)
<1>1. /\ events'[e] = Tail(events[e]) /\ events[e] \in Seq(Event)
      /\ \A f \in End \ {e} : events'[f] = events[f]
  BY VarTypes
<1>2. \A f \in End \ {e} : Heard(f)' = Heard(f)
  BY <1>1 DEF Heard
<1>3. /\ DOMAIN events'[e] = 1 .. Len(events[e]) - 1 /\ Len(events[e]) \in Nat
      /\ \A i \in 1 .. Len(events[e]) - 1 : events'[e][i] = events[e][i + 1]
  <2> DEFINE q == events[e]
  <2>1. q \in Seq(Event) /\ q # << >> /\ events'[e] = Tail(q)
    BY <1>1
  <2> HIDE DEF q
  <2>2. /\ DOMAIN Tail(q) = 1 .. Len(q) - 1 /\ Len(q) \in Nat
        /\ \A i \in 1 .. Len(q) - 1 : Tail(q)[i] = q[i + 1]
    BY <2>1, TailIs
  <2> QED
    BY <2>1, <2>2 DEF q
<1>4. Heard(e)' = [i \in 1 .. Len(events[e]) - 1 |-> events[e][i + 1].msg]
  BY <1>3 DEF Heard
<1>5. Heard(e) \in Seq(Nat) /\ Len(Heard(e)) = Len(events[e]) /\ Heard(e) # << >>
  BY HeardType
<1>6. Tail(Heard(e)) = [i \in 1 .. Len(events[e]) - 1 |-> Heard(e)[i + 1]]
  BY <1>5, TailIs
<1>7. \A i \in 1 .. Len(events[e]) - 1 : Heard(e)[i + 1] = events[e][i + 1].msg
  BY <1>1, <1>3 DEF Heard
<1> QED
  BY <1>2, <1>4, <1>6, <1>7

BoxesTyped(e) ==
  Boxes(e) \in [Box(e) -> Seq(Nat)] /\ \A b \in Box(e) : Boxes(e)[b] = Held(e, b)

LEMMA BoxesType ==
  ASSUME NEW e \in End
  PROVE  TypeInv => BoxesTyped(e)
<1> SUFFICES ASSUME TypeInv, NEW b \in Box(e) PROVE Held(e, b) \in Seq(Nat)
  BY DEF Boxes, BoxesTyped
<1>1. got[e] \in Seq(Nat) /\ Heard(e) \in Seq(Nat)
  BY VarTypes, HeardType
<1>2. \A c \in Conn : Unread(e, c) \in Seq(Nat)
  BY VarTypes, UnreadType
<1>3. e = "acceptor" => Posted(Other(e), 0) \in Seq(Nat)
  BY VarTypes, Ends DEF Posted
<1>4. e = "dialler" => \A c \in Conn : Posted(Other(e), c) \in Seq(Nat)
  BY VarTypes, Ends DEF Posted
<1>5. CASE b = <<"got", 0>> \/ b = <<"heard", 0>>
  BY <1>1, <1>5, HeldIs
<1>6. CASE \E c \in Conn : b = <<"socket", c>>
  BY <1>2, <1>6, HeldIs
<1>7. CASE e = "acceptor" /\ b = <<"posted", 0>>
  BY <1>3, <1>7, HeldIs
<1>8. CASE e = "dialler" /\ \E c \in Conn : b = <<"posted", c>>
  BY <1>4, <1>8, HeldIs
<1> QED
  BY <1>5, <1>6, <1>7, <1>8, BoxIs

LEMMA BoxesNext ==
  ASSUME NEW e \in End
  PROVE  TypeInv' => BoxesTyped(e)'
<1>1. TypeInv => BoxesTyped(e)
  BY BoxesType
<1> QED
  BY <1>1, PTL

\* All that is under way to e stays where it is, or less of it.
LEMMA OnceStretch ==
  ASSUME TypeInv, TypeInv', NEW e \in End, Once(e), sent[Other(e)] <= sent'[Other(e)],
         \A b \in Box(e) : Stretch(Held(e, b)', Held(e, b))
  PROVE  Once(e)'
<1>1. BoxesTyped(e) /\ BoxesTyped(e)'
  BY BoxesType, BoxesNext
<1>2. \A b \in Box(e) : Stretch(Boxes(e)'[b], Boxes(e)[b])
  BY <1>1 DEF BoxesTyped
<1>3. sent[Other(e)] \in Nat /\ sent'[Other(e)] \in Nat
  BY Ends DEF TypeInv, TypeOK
<1>4. Sole(Box(e), Boxes(e)', sent'[Other(e)])
  BY <1>1, <1>2, <1>3, SoleStretch DEF BoxesTyped, Once
<1> QED
  BY <1>4 DEF Once

LEMMA OnceMove ==
  ASSUME TypeInv, TypeInv', NEW e \in End, Once(e), sent'[Other(e)] = sent[Other(e)],
         NEW x \in Box(e), NEW y \in Box(e), x # y, Held(e, x) # << >>,
         Held(e, x)' = Tail(Held(e, x)),
         Held(e, y)' = Append(Held(e, y), Head(Held(e, x))),
         \A b \in Box(e) \ {x, y} : Held(e, b)' = Held(e, b)
  PROVE  Once(e)'
<1>1. BoxesTyped(e) /\ BoxesTyped(e)'
  BY BoxesType, BoxesNext
<1>2. Moves(Box(e), Boxes(e), Boxes(e)', x, y) /\ Boxes(e)[x] # << >>
  BY <1>1 DEF BoxesTyped, Moves
<1>3. sent[Other(e)] \in Nat
  BY Ends DEF TypeInv, TypeOK
<1>4. Sole(Box(e), Boxes(e)', sent'[Other(e)])
  BY <1>1, <1>2, <1>3, SoleMove DEF BoxesTyped, Once
<1> QED
  BY <1>4 DEF Once

LEMMA OncePost ==
  ASSUME TypeInv, TypeInv', NEW e \in End, Once(e), NEW k \in Nat,
         sent'[Other(e)] = sent[Other(e)] + k, NEW y \in Box(e),
         Held(e, y)' = Held(e, y) \o [i \in 1 .. k |-> sent[Other(e)] + i],
         \A b \in Box(e) \ {y} : Held(e, b)' = Held(e, b)
  PROVE  Once(e)'
<1>1. BoxesTyped(e) /\ BoxesTyped(e)'
  BY BoxesType, BoxesNext
<1>2. /\ Boxes(e)'[y] = Boxes(e)[y] \o [i \in 1 .. k |-> sent[Other(e)] + i]
      /\ \A b \in Box(e) \ {y} : Boxes(e)'[b] = Boxes(e)[b]
  BY <1>1 DEF BoxesTyped
<1>3. sent[Other(e)] \in Nat
  BY Ends DEF TypeInv, TypeOK
<1>4. Sole(Box(e), Boxes(e)', sent[Other(e)] + k)
  BY <1>1, <1>2, <1>3, SolePost DEF BoxesTyped, Once
<1> QED
  BY <1>4 DEF Once

LEMMA Unchanged ==
  ASSUME TypeInv, NEW e \in End, NEW b \in Box(e)
  PROVE  Stretch(Held(e, b), Held(e, b))
<1>1. Held(e, b) \in Seq(Nat)
  BY BoxesType DEF BoxesTyped
<1> QED
  BY <1>1, Stretches

\* The queues for e by their kind
LEMMA OnceParts ==
  ASSUME TypeInv, TypeInv', NEW e \in End, Once(e), sent[Other(e)] <= sent'[Other(e)],
         Stretch(got'[e], got[e]), Stretch(Heard(e)', Heard(e)),
         \A c \in Conn : Stretch(Unread(e, c)', Unread(e, c)),
         e = "acceptor" => Stretch(rx_out', rx_out),
         e = "dialler" => \A c \in Conn : Stretch(rx_accept'[c], rx_accept[c])
  PROVE  Once(e)'
<1> SUFFICES ASSUME NEW b \in Box(e) PROVE Stretch(Held(e, b)', Held(e, b))
  BY OnceStretch
<1>1. CASE b = <<"got", 0>> \/ b = <<"heard", 0>>
  BY <1>1 DEF Held
<1>2. CASE \E c \in Conn : b = <<"socket", c>>
  BY <1>2 DEF Held
<1>3. CASE e = "acceptor" /\ b = <<"posted", 0>>
  BY <1>3, Ends DEF Held, Posted
<1>4. CASE e = "dialler" /\ \E c \in Conn : b = <<"posted", c>>
  BY <1>4, Ends DEF Held, Posted
<1> QED
  BY <1>1, <1>2, <1>3, <1>4, BoxIs

\* Each queue of TypeInv is a stretch of itself, and so are some others of it.
LEMMA Selves ==
  ASSUME TypeInv, NEW e \in End
  PROVE  /\ Stretch(got[e], got[e]) /\ Stretch(Heard(e), Heard(e)) /\ Stretch(rx_out, rx_out)
         /\ \A c \in Conn : /\ Stretch(Unread(e, c), Unread(e, c))
                            /\ Stretch(rx_accept[c], rx_accept[c])
                            /\ Stretch(<<Hello>>, Unread(e, c))
         /\ Stretch(Append(Heard(e), Hello), Heard(e))
<1>1. got[e] \in Seq(Nat) /\ Heard(e) \in Seq(Nat) /\ rx_out \in Seq(Nat)
  BY VarTypes, HeardType
<1>2. \A c \in Conn : Unread(e, c) \in Seq(Nat) /\ rx_accept[c] \in Seq(Nat)
  BY VarTypes, UnreadType
<1>3. \A s \in Seq(Nat) : Stretch(<<Hello>>, s)
  BY DEF Stretch
<1> QED
  BY <1>1, <1>2, <1>3, Stretches

\* Both ends
AllOnce == \A e \in End : Once(e)

\* A step of Posted and Sender aside: the events it reports carry no message.
LEMMA HeardQuiet ==
  ASSUME TypeInv, NEW c \in Conn,
         \/ events' = events
         \/ \E e \in End : events' = Report(e, Up(c)) \/ events' = Report(e, Down(c))
         \/ SendDisconnect(c)
  PROVE  \A e \in End : Stretch(Heard(e)', Heard(e))
<1> SUFFICES ASSUME NEW e \in End PROVE Stretch(Heard(e)', Heard(e))
  OBVIOUS
<1>1. CASE events' = events
  <2>1. Heard(e)' = Heard(e)
    BY <1>1 DEF Heard
  <2> QED
    BY <2>1, Selves
<1>2. ASSUME NEW f \in End, NEW x \in {Up(c), Down(c)}, events' = Report(f, x)
      PROVE  Stretch(Heard(e)', Heard(e))
  <2>1. x \in Event /\ x.msg = Hello
    BY EventTypes DEF Up, Down, Hello
  <2>2. Heard(e)' = Heard(e) \/ Heard(e)' = Append(Heard(e), Hello)
    BY <1>2, <2>1, HeardReport
  <2> QED
    BY <2>2, Selves
<1> QED
  BY <1>1, <1>2, Ends DEF SendDisconnect

LEMMA OnceDialler ==
  ASSUME TypeInv, TypeInv', NEW e \in End, Once(e), Dialler
  PROVE  Once(e)'
<1>0. /\ UNCHANGED <<got, sent, rx_accept>> /\ sent[Other(e)] <= sent'[Other(e)]
  <2>1. UNCHANGED <<got, sent, rx_accept>>
    BY DEF Dialler, Dial, ReadAck, AckFails, Announce, Write, WriteFails, nodes
  <2>2. sent[Other(e)] \in Nat
    BY VarTypes, Ends
  <2> QED
    BY <2>1, <2>2
<1>1. CASE Dial
  <2>1. /\ socket' = [socket EXCEPT !["dialler"][last'] = <<Hello>>]
        /\ UNCHANGED <<rx_out, events>>
    BY <1>1 DEF Dial
  <2>2. \A c \in Conn : Unread(e, c)' = Unread(e, c) \/ Unread(e, c)' = <<Hello>>
    BY <2>1, VarTypes, Ends DEF Unread
  <2>3. Heard(e)' = Heard(e)
    BY <2>1 DEF Heard
  <2> QED
    BY <1>0, <2>1, <2>2, <2>3, Selves, OnceParts
<1>2. CASE ReadAck
  <2>1. /\ Unread("dialler", last) # << >> /\ last \in Conn
        /\ socket' = [socket EXCEPT !["acceptor"][last] = Tail(@)]
        /\ UNCHANGED <<rx_out, events>>
    BY <1>2, VarTypes DEF ReadAck
  <2>2. Heard(e)' = Heard(e)
    BY <2>1 DEF Heard
  <2>3. ASSUME NEW c \in Conn
        PROVE  Stretch(Unread(e, c)', Unread(e, c))
    <3>1. \/ Unread(e, c)' = Unread(e, c)
          \/ Unread(e, c) # << >> /\ Unread(e, c)' = Tail(Unread(e, c))
      BY <2>1, VarTypes, Ends DEF Unread
    <3>2. Unread(e, c) \in Seq(Nat)
      BY VarTypes, UnreadType
    <3> QED
      BY <3>1, <3>2, Stretches
  <2> QED
    BY <1>0, <2>1, <2>2, <2>3, Selves, OnceParts
<1>3. CASE AckFails \/ Announce \/ WriteFails
  <2>1. /\ socket' = socket
        /\ rx_out' = rx_out \/ (rx_out # << >> /\ rx_out' = Tail(rx_out))
    BY <1>3 DEF AckFails, Announce, WriteFails, network
  <2>2. rx_out \in Seq(Nat)
    BY VarTypes
  <2>3. Stretch(rx_out', rx_out)
    BY <2>1, <2>2, Stretches
  <2>4. Stretch(Heard(e)', Heard(e))
    <3>1. CASE events' = events
      <4>1. Heard(e)' = Heard(e)
        BY <3>1 DEF Heard
      <4> QED
        BY <4>1, Selves
    <3>2. CASE events' # events
      <4>1. last \in Conn
        BY <1>3, <3>2, VarTypes DEF AckFails, Announce, WriteFails
      <4>2. events' = Report("dialler", Up(last)) \/ SendDisconnect(last)
        BY <1>3, <3>2 DEF AckFails, Announce, WriteFails
      <4> QED
        BY <4>1, <4>2, HeardQuiet, Ends
    <3> QED
      BY <3>1, <3>2
  <2>5. \A c \in Conn : Unread(e, c)' = Unread(e, c)
    BY <2>1 DEF Unread
  <2> QED
    BY <1>0, <2>3, <2>4, <2>5, Selves, OnceParts
<1>4. CASE Write
  <2> DEFINE m == Head(rx_out)
  <2>1. /\ last \in Conn /\ rx_out # << >> /\ rx_out' = Tail(rx_out)
        /\ socket' = Written("dialler", last, m) /\ events' = events
        /\ m \in Nat /\ rx_out \in Seq(Nat)
    BY <1>4, VarTypes DEF Write
  <2>2. Heard(e)' = Heard(e)
    BY <2>1 DEF Heard
  <2>3. Stretch(rx_out', rx_out)
    BY <2>1, Stretches
  <2> HIDE DEF m
  <2>4. CASE e = "dialler" \/ last \notin live
    <3>1. \A c \in Conn : Unread(e, c)' = Unread(e, c)
      BY <2>1, <2>4, WrittenIs, Ends DEF Unread
    <3> QED
      BY <1>0, <2>2, <2>3, <3>1, Selves, OnceParts
  <2>5. CASE e = "acceptor" /\ last \in live
    <3>0. PICK d \in Conn : d = last
      BY <2>1
    <3> DEFINE x == <<"posted", 0>>
               y == <<"socket", d>>
    <3>1. x \in Box(e) /\ y \in Box(e) /\ x # y
      BY <2>1, <2>5, BoxIs
    <3>2. /\ Held(e, x) = rx_out /\ Held(e, x)' = rx_out'
          /\ Held(e, y) = Unread(e, d) /\ Held(e, y)' = Unread(e, d)'
      BY <2>5, Ends DEF Held, Posted, Unread
    <3>3. /\ Unread(e, d)' = Append(Unread(e, d), m)
          /\ \A c \in Conn \ {d} : Unread(e, c)' = Unread(e, c)
      <4>1. "dialler" \in End /\ socket' = Written("dialler", d, m) /\ d \in live
        BY <2>1, <2>5, <3>0, Ends
      <4>2. /\ Written("dialler", d, m)["dialler"][d] = Append(socket["dialler"][d], m)
            /\ \A c \in Conn \ {d} : Written("dialler", d, m)["dialler"][c] = socket["dialler"][c]
        BY <2>1, <4>1, WrittenIs
      <4>3. \A c \in Conn : /\ Unread(e, c) = socket["dialler"][c]
                           /\ Unread(e, c)' = socket'["dialler"][c]
        BY <2>5, Ends DEF Unread
      <4> QED
        BY <4>1, <4>2, <4>3
    <3>4. \A b \in Box(e) \ {x, y} : Held(e, b)' = Held(e, b)
      <4> SUFFICES ASSUME NEW b \in Box(e) \ {x, y} PROVE Held(e, b)' = Held(e, b)
        OBVIOUS
      <4>1. CASE b = <<"got", 0>> \/ b = <<"heard", 0>>
        BY <1>0, <2>2, <4>1 DEF Held
      <4>2. CASE \E c \in Conn : b = <<"socket", c>>
        BY <3>3, <4>2 DEF Held
      <4> QED
        BY <2>5, <4>1, <4>2, BoxIs
    <3> HIDE DEF x, y
    <3> QED
      BY <1>0, <2>1, <3>1, <3>2, <3>3, <3>4, OnceMove DEF m
  <2> QED
    BY <2>4, <2>5, Ends
<1> QED
  BY <1>1, <1>2, <1>3, <1>4 DEF Dialler

LEMMA OnceAcceptor ==
  ASSUME TypeInv, TypeInv', NEW e \in End, Once(e),
         NEW c \in Conn, Acceptor(c) \/ AcceptedWriter(c) \/ Fail(c)
  PROVE  Once(e)'
<1>0. /\ UNCHANGED <<got, sent, rx_out>> /\ sent[Other(e)] <= sent'[Other(e)]
  <2>1. UNCHANGED <<got, sent, rx_out>>
    BY DEF Acceptor, Accept, AcceptFails, AnnounceAccepted, AcceptedWriter,
         AcceptedWrite, AcceptedWriteFails, AcceptedWriteEnds, Fail, nodes
  <2>2. sent[Other(e)] \in Nat
    BY VarTypes, Ends
  <2> QED
    BY <2>1, <2>2
<1>1. CASE Accept(c)
  <2> DEFINE w == Written("acceptor", c, Hello)
  <2>1. /\ Unread("acceptor", c) # << >> /\ UNCHANGED <<rx_accept, events>>
        /\ socket' = [w EXCEPT !["dialler"][c] = Tail(@)]
    BY <1>1 DEF Accept
  <2>2. w \in [End -> [Conn -> Seq(Nat)]]
    BY VarTypes, Ends, WrittenType DEF Hello
  <2>3. /\ w["acceptor"][c] \in {socket["acceptor"][c], Append(socket["acceptor"][c], Hello)}
        /\ w["dialler"][c] = socket["dialler"][c]
        /\ \A f \in End, k \in Conn \ {c} : w[f][k] = socket[f][k]
    BY WrittenIs, Ends DEF Hello
  <2> HIDE DEF w
  <2>4. ASSUME NEW k \in Conn
        PROVE  Stretch(Unread(e, k)', Unread(e, k))
    <3>1. \/ Unread(e, k)' = Unread(e, k)
          \/ Unread(e, k)' = Append(Unread(e, k), Hello)
          \/ Unread(e, k) # << >> /\ Unread(e, k)' = Tail(Unread(e, k))
      <4>1. CASE k # c
        BY <2>1, <2>2, <2>3, <4>1, Ends DEF Unread
      <4>2. CASE k = c /\ e = "acceptor"
        BY <2>1, <2>2, <2>3, <4>2, Ends DEF Unread
      <4>3. CASE k = c /\ e = "dialler"
        BY <2>1, <2>2, <2>3, <4>3, Ends DEF Unread
      <4> QED
        BY <4>1, <4>2, <4>3, Ends
    <3>2. Unread(e, k) \in Seq(Nat)
      BY VarTypes, UnreadType
    <3> QED
      BY <3>1, <3>2, Stretches
  <2>5. Heard(e)' = Heard(e)
    BY <2>1 DEF Heard
  <2> QED
    BY <1>0, <2>1, <2>4, <2>5, Selves, OnceParts
<1>2. CASE AcceptFails(c) \/ AnnounceAccepted(c) \/ AcceptedWriteFails(c) \/ AcceptedWriteEnds(c)
  <2>1. /\ socket' = socket
        /\ rx_accept' = rx_accept \/ rx_accept' = [rx_accept EXCEPT ![c] = << >>]
        /\ \/ events' = events \/ events' = Report("acceptor", Up(c))
           \/ events' = Report("acceptor", Down(c))
    BY <1>2 DEF AcceptFails, AnnounceAccepted, AcceptedWriteFails, AcceptedWriteEnds, network
  <2>2. \A k \in Conn : rx_accept[k] \in Seq(Nat) /\ rx_accept'[k] \in {rx_accept[k], << >>}
    BY <2>1, VarTypes
  <2>3. \A k \in Conn : Stretch(rx_accept'[k], rx_accept[k])
    BY <2>2, Stretches
  <2>4. Stretch(Heard(e)', Heard(e))
    BY <2>1, HeardQuiet, Ends
  <2>5. \A k \in Conn : Unread(e, k)' = Unread(e, k)
    BY <2>1 DEF Unread
  <2> QED
    BY <1>0, <2>3, <2>4, <2>5, Selves, OnceParts
<1>3. CASE AcceptedWrite(c)
  <2> DEFINE m == Head(rx_accept[c])
  <2>1. /\ rx_accept[c] # << >> /\ rx_accept' = [rx_accept EXCEPT ![c] = Tail(@)]
        /\ socket' = Written("acceptor", c, m) /\ events' = events
        /\ m \in Nat /\ rx_accept[c] \in Seq(Nat)
    BY <1>3, VarTypes DEF AcceptedWrite
  <2>2. Heard(e)' = Heard(e)
    BY <2>1 DEF Heard
  <2>3. /\ rx_accept'[c] = Tail(rx_accept[c])
        /\ \A k \in Conn \ {c} : rx_accept'[k] = rx_accept[k]
    BY <2>1, VarTypes
  <2>4. \A k \in Conn : Stretch(rx_accept'[k], rx_accept[k])
    BY <2>1, <2>3, Stretches, Selves
  <2> HIDE DEF m
  <2>5. CASE e = "acceptor" \/ c \notin live
    <3>1. \A k \in Conn : Unread(e, k)' = Unread(e, k)
      BY <2>1, <2>5, WrittenIs, Ends DEF Unread
    <3> QED
      BY <1>0, <2>2, <2>4, <3>1, Selves, OnceParts
  <2>6. CASE e = "dialler" /\ c \in live
    <3> DEFINE x == <<"posted", c>>
               y == <<"socket", c>>
    <3>1. x \in Box(e) /\ y \in Box(e) /\ x # y
      BY <2>6, BoxIs
    <3>2. /\ Held(e, x) = rx_accept[c] /\ Held(e, x)' = rx_accept'[c]
          /\ Held(e, y) = Unread(e, c) /\ Held(e, y)' = Unread(e, c)'
      BY <2>6, Ends DEF Held, Posted
    <3>3. /\ Unread(e, c)' = Append(Unread(e, c), m)
          /\ \A k \in Conn \ {c} : Unread(e, k)' = Unread(e, k)
      BY <2>1, <2>6, WrittenIs, Ends DEF Unread
    <3>4. \A b \in Box(e) \ {x, y} : Held(e, b)' = Held(e, b)
      <4> SUFFICES ASSUME NEW b \in Box(e) \ {x, y} PROVE Held(e, b)' = Held(e, b)
        OBVIOUS
      <4>1. CASE b = <<"got", 0>> \/ b = <<"heard", 0>>
        BY <1>0, <2>2, <4>1 DEF Held
      <4>2. CASE \E k \in Conn : b = <<"socket", k>>
        BY <3>3, <4>2 DEF Held
      <4>3. CASE \E k \in Conn : b = <<"posted", k>>
        BY <2>3, <2>6, <4>3, Ends DEF Held, Posted
      <4> QED
        BY <2>6, <4>1, <4>2, <4>3, BoxIs
    <3> HIDE DEF x, y
    <3> QED
      BY <1>0, <2>1, <2>3, <3>1, <3>2, <3>3, <3>4, OnceMove DEF m
  <2> QED
    BY <2>5, <2>6, Ends
<1>4. CASE Fail(c)
  <2>1. /\ UNCHANGED <<rx_accept, events>>
        /\ \E s \in Prefixes(socket["dialler"][c]), t \in Prefixes(socket["acceptor"][c]) :
             socket' = [socket EXCEPT !["dialler"][c] = s, !["acceptor"][c] = t]
    BY <1>4 DEF Fail
  <2>2. PICK s \in Prefixes(socket["dialler"][c]), t \in Prefixes(socket["acceptor"][c]) :
             socket' = [socket EXCEPT !["dialler"][c] = s, !["acceptor"][c] = t]
    BY <2>1
  <2>3. ASSUME NEW k \in Conn
        PROVE  Stretch(Unread(e, k)', Unread(e, k))
    <3>1. Unread(e, k)' = Unread(e, k) \/ Unread(e, k)' \in Prefixes(Unread(e, k))
      BY <2>2, VarTypes, Ends DEF Unread
    <3>2. Unread(e, k) \in Seq(Nat)
      BY VarTypes, UnreadType
    <3> QED
      BY <3>1, <3>2, Stretches
  <2>4. Heard(e)' = Heard(e)
    BY <2>1 DEF Heard
  <2> QED
    BY <1>0, <2>1, <2>3, <2>4, Selves, OnceParts
<1> QED
  BY <1>1, <1>2, <1>3, <1>4 DEF Acceptor, AcceptedWriter

\* A node posts its next k messages: they are at the end of the queue of its Sender, or,
\* if the writer of that has returned, nowhere.
LEMMA OncePosted ==
  ASSUME TypeInv, TypeInv', NEW f \in End, NEW e \in End, e = Other(f), Once(e),
         NEW c \in Conn, NEW k \in Nat, Post(f, c, k),
         got' = got, socket' = socket, Heard(e)' = Heard(e)
  PROVE  Once(e)'
<1> DEFINE ms == [i \in 1 .. k |-> sent[f] + i]
           y == IF f = "dialler" THEN <<"posted", 0>> ELSE <<"posted", c>>
<1>1. /\ sent'[f] = sent[f] + k /\ sent[f] \in Nat /\ Other(e) = f
      /\ rx_out \in Seq(Nat) /\ rx_accept \in [Conn -> Seq(Nat)]
  BY VarTypes, Ends DEF Post
<1>2. /\ f = "dialler" => rx_out' = rx_out \o ms /\ rx_accept' = rx_accept
      /\ f # "dialler" => /\ rx_out' = rx_out
                          /\ rx_accept' \in {rx_accept, [rx_accept EXCEPT ![c] = @ \o ms]}
  BY DEF Post
<1>3. y \in Box(e) /\ Held(e, y) = Posted(f, c) /\ Held(e, y)' = Posted(f, c)'
  BY <1>1, BoxIs, Ends DEF Held, Posted
<1>4. \A b \in Box(e) \ {y} : Held(e, b)' = Held(e, b)
  <2> SUFFICES ASSUME NEW b \in Box(e) \ {y} PROVE Held(e, b)' = Held(e, b)
    OBVIOUS
  <2>1. CASE b = <<"got", 0>> \/ b = <<"heard", 0>>
    BY <2>1 DEF Held
  <2>2. CASE \E d \in Conn : b = <<"socket", d>>
    BY <2>2 DEF Held, Unread
  <2>3. CASE e = "dialler" /\ \E d \in Conn : b = <<"posted", d>>
    <3>1. PICK d \in Conn : b = <<"posted", d>>
      BY <2>3
    <3>2. f # "dialler" /\ d # c
      BY <2>3, <3>1, Ends
    <3>3. rx_accept'[d] = rx_accept[d]
      BY <1>1, <1>2, <3>2
    <3> QED
      BY <1>1, <3>1, <3>2, <3>3 DEF Held, Posted
  <2>4. CASE e = "acceptor" /\ b = <<"posted", 0>>
    BY <2>4, Ends
  <2> QED
    BY <2>1, <2>2, <2>3, <2>4, BoxIs
<1>5. CASE Posted(f, c)' = Posted(f, c) \o ms
  BY <1>1, <1>3, <1>4, <1>5, OncePost
<1>6. CASE Posted(f, c)' = Posted(f, c)
  <2>1. \A b \in Box(e) : Held(e, b)' = Held(e, b)
    BY <1>3, <1>4, <1>6
  <2>2. sent[Other(e)] <= sent'[Other(e)]
    BY <1>1
  <2> QED
    BY <2>1, <2>2, Unchanged, OnceStretch
<1> QED
  BY <1>1, <1>2, <1>5, <1>6 DEF Posted

LEMMA OnceNode ==
  ASSUME TypeInv, TypeInv', NEW e \in End, Once(e), NEW f \in End, Handle(f) \/ Send(f)
  PROVE  Once(e)'
<1>0. /\ socket' = socket /\ events[f] \in Seq(Event) /\ sent[Other(e)] \in Nat
      /\ \A c \in Conn : Unread(e, c)' = Unread(e, c)
  BY VarTypes, Ends DEF Handle, AddPeer, RemovePeer, OnNet, Send, network, Unread
<1>1. CASE Send(f)
  <2>1. Post(f, peer[f], 1) /\ UNCHANGED <<events, got>> /\ peer[f] \in Conn
    BY <1>1 DEF Send, TypeInv, TypeOK
  <2>2. Heard(e)' = Heard(e)
    BY <2>1 DEF Heard
  <2>3. CASE e = Other(f)
    BY <1>0, <2>1, <2>2, <2>3, OncePosted
  <2>4. CASE e = f
    <3>1. sent'[Other(e)] = sent[Other(e)] /\ (e = "acceptor" => rx_out' = rx_out)
          /\ (e = "dialler" => rx_accept' = rx_accept)
      BY <2>1, <2>4, VarTypes, Ends DEF Post
    <3> QED
      BY <1>0, <2>1, <2>2, <3>1, Selves, OnceParts
  <2> QED
    BY <2>3, <2>4, Ends
<1>2. CASE Handle(f)
  <2>1. events[f] # << >> /\ events' = [events EXCEPT ![f] = Tail(@)]
    BY <1>2 DEF Handle, AddPeer, RemovePeer, OnNet, NextEvent
  <2>2. /\ Heard(f)' = Tail(Heard(f)) /\ \A g \in End \ {f} : Heard(g)' = Heard(g)
        /\ Heard(f) \in Seq(Nat) /\ Heard(f) # << >> /\ Head(Heard(f)) = Head(events[f]).msg
    BY <2>1, HeardTail, HeardType
  <2>3. Stretch(Heard(e)', Heard(e))
    BY <2>2, Stretches, Selves
  <2>4. CASE RemovePeer(f)
    BY <1>0, <2>3, <2>4, Selves, OnceParts DEF RemovePeer
  <2>5. CASE AddPeer(f)
    <3> DEFINE c == Head(events[f]).conn
    <3>1. Post(f, c, GREETINGS) /\ got' = got /\ c \in Conn /\ GREETINGS \in Nat
      <4>1. Head(events[f]) \in Event
        BY <2>1, NextEventType
      <4> QED
        BY <2>5, <4>1, TransportAssumption DEF AddPeer, Event
    <3> HIDE DEF c
    <3>2. CASE e = Other(f)
      <4>1. Heard(e)' = Heard(e)
        BY <2>2, <3>2, Ends
      <4> QED
        BY <1>0, <3>1, <3>2, <4>1, OncePosted
    <3>3. CASE e = f
      <4>1. sent'[Other(e)] = sent[Other(e)] /\ (e = "acceptor" => rx_out' = rx_out)
            /\ (e = "dialler" => rx_accept' = rx_accept)
        BY <3>1, <3>3, VarTypes, Ends DEF Post
      <4> QED
        BY <1>0, <2>3, <3>1, <4>1, Selves, OnceParts
    <3> QED
      BY <3>2, <3>3, Ends
  <2>6. CASE OnNet(f)
    <3>1. /\ got' = [got EXCEPT ![f] = Append(@, Head(events[f]).msg)]
          /\ UNCHANGED <<rx_out, rx_accept, sent>>
      BY <2>6 DEF OnNet
    <3>2. CASE e # f
      <4>1. got'[e] = got[e]
        BY <3>1, <3>2, VarTypes
      <4> QED
        BY <1>0, <2>3, <3>1, <4>1, Selves, OnceParts
    <3>3. CASE e = f
      <4> DEFINE x == <<"heard", 0>>
                 y == <<"got", 0>>
      <4>1. x \in Box(e) /\ y \in Box(e) /\ x # y
        BY BoxIs
      <4>2. /\ Held(e, x) = Heard(e) /\ Held(e, x)' = Heard(e)'
            /\ Held(e, y) = got[e] /\ Held(e, y)' = got'[e]
        BY DEF Held
      <4>3. got'[e] = Append(got[e], Head(Heard(e)))
        BY <2>2, <3>1, <3>3, VarTypes
      <4>4. \A b \in Box(e) \ {x, y} : Held(e, b)' = Held(e, b)
        <5> SUFFICES ASSUME NEW b \in Box(e) \ {x, y} PROVE Held(e, b)' = Held(e, b)
          OBVIOUS
        <5>1. CASE \E c \in Conn : b = <<"socket", c>>
          BY <1>0, <5>1 DEF Held
        <5>2. CASE b[1] = "posted"
          BY <3>1, <5>2 DEF Held, Posted
        <5> QED
          BY <5>1, <5>2, BoxIs
      <4> HIDE DEF x, y
      <4> QED
        BY <2>2, <3>1, <3>3, <4>1, <4>2, <4>3, <4>4, OnceMove
    <3> QED
      BY <3>2, <3>3
  <2> QED
    BY <1>2, <2>4, <2>5, <2>6 DEF Handle
<1> QED
  BY <1>1, <1>2

LEMMA OnceReader ==
  ASSUME TypeInv, TypeInv', NEW e \in End, Once(e), NEW f \in End, NEW c \in Conn, Reader(f, c)
  PROVE  Once(e)'
<1>0. /\ UNCHANGED <<got, sent, rx_out, rx_accept>> /\ sent[Other(e)] <= sent'[Other(e)]
  <2>1. UNCHANGED <<got, sent, rx_out, rx_accept>>
    BY DEF Reader, Read, ReadFails, nodes
  <2>2. sent[Other(e)] \in Nat
    BY VarTypes, Ends
  <2> QED
    BY <2>1, <2>2
<1>1. CASE ReadFails(f, c)
  <2>1. socket' = socket /\ (events' = Report(f, Down(c)) \/ SendDisconnect(c))
    BY <1>1 DEF ReadFails, network
  <2>2. Stretch(Heard(e)', Heard(e)) /\ \A k \in Conn : Unread(e, k)' = Unread(e, k)
    BY <2>1, HeardQuiet DEF Unread
  <2> QED
    BY <1>0, <2>2, Selves, OnceParts
<1>2. CASE Read(f, c)
  <2> DEFINE m == Head(Unread(f, c))
  <2>1. /\ Unread(f, c) # << >> /\ Unread(f, c) \in Seq(Nat) /\ m \in Nat
        /\ socket' = [socket EXCEPT ![Other(f)][c] = Tail(@)]
        /\ events' = Report(f, Msg(c, m))
    BY <1>2, VarTypes, UnreadType DEF Read
  <2>2. /\ Unread(f, c)' = Tail(Unread(f, c))
        /\ \A k \in Conn : f # e \/ k # c => Unread(e, k)' = Unread(e, k)
    BY <2>1, VarTypes, Ends DEF Unread
  <2> HIDE DEF m
  <2>3. Msg(c, m) \in Event /\ Msg(c, m).msg = m
    BY <2>1, EventTypes DEF Msg
  <2>4. Heard(f)' = Append(Heard(f), m) /\ \A g \in End \ {f} : Heard(g)' = Heard(g)
    BY <2>1, <2>3, HeardReport
  <2>5. CASE e # f
    <3>1. Heard(e)' = Heard(e) /\ \A k \in Conn : Unread(e, k)' = Unread(e, k)
      BY <2>2, <2>4, <2>5
    <3> QED
      BY <1>0, <3>1, Selves, OnceParts
  <2>6. CASE e = f
    <3> DEFINE x == <<"socket", c>>
               y == <<"heard", 0>>
    <3>1. x \in Box(e) /\ y \in Box(e) /\ x # y
      BY BoxIs
    <3>2. /\ Held(e, x) = Unread(e, c) /\ Held(e, x)' = Unread(e, c)'
          /\ Held(e, y) = Heard(e) /\ Held(e, y)' = Heard(e)'
      BY DEF Held
    <3>3. \A b \in Box(e) \ {x, y} : Held(e, b)' = Held(e, b)
      <4> SUFFICES ASSUME NEW b \in Box(e) \ {x, y} PROVE Held(e, b)' = Held(e, b)
        OBVIOUS
      <4>1. CASE b = <<"got", 0>>
        BY <1>0, <4>1 DEF Held
      <4>2. CASE \E k \in Conn : b = <<"socket", k>>
        BY <2>2, <4>2 DEF Held
      <4>3. CASE b[1] = "posted"
        BY <1>0, <4>3 DEF Held, Posted
      <4> QED
        BY <4>1, <4>2, <4>3, BoxIs
    <3> HIDE DEF x, y
    <3> QED
      BY <1>0, <2>1, <2>2, <2>4, <2>6, <3>1, <3>2, <3>3, OnceMove DEF m
  <2> QED
    BY <2>5, <2>6
<1> QED
  BY <1>1, <1>2 DEF Reader

LEMMA OnceStep ==
  ASSUME TypeInv, [Next]_vars, AllOnce
  PROVE  AllOnce'
<1> SUFFICES ASSUME NEW e \in End PROVE Once(e)'
  BY DEF AllOnce
<1>1. Once(e) /\ TypeInv'
  BY TypeStep DEF AllOnce
<1>2. CASE UNCHANGED vars
  <2>1. /\ UNCHANGED <<got, rx_out, rx_accept>> /\ Heard(e)' = Heard(e)
        /\ \A c \in Conn : Unread(e, c)' = Unread(e, c)
        /\ sent[Other(e)] <= sent'[Other(e)]
    BY <1>2, VarTypes, Ends DEF vars, network, nodes, Heard, Unread
  <2> QED
    BY <1>1, <2>1, Selves, OnceParts
<1> QED
  BY <1>1, <1>2, OnceDialler, OnceAcceptor, OnceNode, OnceReader DEF Next

LEMMA OnceInit == Init => AllOnce
<1> SUFFICES ASSUME Init, NEW e \in End PROVE Once(e)
  BY DEF AllOnce
<1>1. BoxesTyped(e)
  BY TypeInit, BoxesType
<1>2. /\ got[e] = << >> /\ Heard(e) = << >> /\ rx_out = << >>
      /\ \A c \in Conn : Unread(e, c) = << >> /\ rx_accept[c] = << >>
  BY Ends DEF Init, Heard, Unread
<1>3. ASSUME NEW b \in Box(e)
      PROVE  Held(e, b) = << >>
  <2>1. CASE b = <<"got", 0>> \/ b = <<"heard", 0>> \/ \E c \in Conn : b = <<"socket", c>>
    BY <1>2, <2>1 DEF Held
  <2>2. CASE e = "acceptor" /\ b = <<"posted", 0>>
    BY <1>2, <2>2, Ends DEF Held, Posted
  <2>3. CASE e = "dialler" /\ \E c \in Conn : b = <<"posted", c>>
    BY <1>2, <2>3, Ends DEF Held, Posted
  <2> QED
    BY <2>1, <2>2, <2>3, BoxIs
<1>4. \A b \in Box(e) : DOMAIN Boxes(e)[b] = {}
  BY <1>1, <1>3 DEF BoxesTyped
<1> QED
  BY <1>4 DEF Once, Sole

\* Whatever fails and when, no message reaches a node twice.
THEOREM NothingTwice == Spec => []DeliveredOnce
<1>1. Init => Shaken /\ AllOnce
  BY ShakenInit, OnceInit
<1>2. Shaken /\ AllOnce /\ [Next]_vars => Shaken' /\ AllOnce'
  BY ShakenStep, OnceStep DEF Shaken
<1>3. ASSUME Shaken, AllOnce
      PROVE  DeliveredOnce
  <2> SUFFICES ASSUME NEW e \in End, NEW i \in DOMAIN got[e], NEW j \in DOMAIN got[e],
                      got[e][i] = got[e][j]
               PROVE  i = j
    BY DEF DeliveredOnce
  <2>1. BoxesTyped(e) /\ Once(e) /\ <<"got", 0>> \in Box(e)
    BY <1>3, BoxesType, BoxIs DEF Shaken, AllOnce
  <2>2. Boxes(e)[<<"got", 0>>] = got[e]
    BY <2>1, HeldIs DEF BoxesTyped
  <2>3. got[e][i] # Hello
    BY <1>3 DEF Shaken, Carried, Plain
  <2>4. Single(Boxes(e), <<"got", 0>>, i, <<"got", 0>>, j)
    BY <2>1, <2>2 DEF Once, Sole
  <2> QED
    BY <2>2, <2>3, <2>4 DEF Single
<1> QED
  BY <1>1, <1>2, <1>3, PTL DEF Spec

-----------------------------------------------------------------------------
(* No gap and no disorder as long as nothing fails *)

\* Sequences put together: what goes from the head of one to the end of the one before
\* leaves the whole as it was.
LEMMA Joined ==
  ASSUME NEW s \in Seq(Nat), NEW t \in Seq(Nat), NEW x \in Nat
  PROVE  /\ <<x>> \in Seq(Nat) /\ s \o t \in Seq(Nat)
         /\ Append(s, x) = s \o <<x>>
         /\ t # << >> => t = <<Head(t)>> \o Tail(t)
<1>1. /\ <<x>> \in Seq(Nat) /\ s \o t \in Seq(Nat)
      /\ s \o <<x>> \in Seq(Nat) /\ Append(s, x) \in Seq(Nat)
  OBVIOUS
<1>2. Append(s, x) = s \o <<x>>
  <2>1. Len(Append(s, x)) = Len(s \o <<x>>) /\ Len(Append(s, x)) = Len(s) + 1 /\ Len(s) \in Nat
    OBVIOUS
  <2>2. ASSUME NEW i \in 1 .. Len(s) + 1
        PROVE  Append(s, x)[i] = (s \o <<x>>)[i]
    <3>1. CASE i <= Len(s)
      BY <2>1, <3>1
    <3>2. CASE i = Len(s) + 1
      BY <2>1, <3>2
    <3> QED
      BY <2>1, <3>1, <3>2
  <2> QED
    BY <1>1, <2>1, <2>2, SeqEqual
<1>3. ASSUME t # << >>
      PROVE  t = <<Head(t)>> \o Tail(t)
  <2> DEFINE u == <<Head(t)>> \o Tail(t)
  <2>1. Head(t) \in Nat /\ Tail(t) \in Seq(Nat) /\ u \in Seq(Nat)
    BY <1>3
  <2>2. Len(t) \in Nat /\ Len(Tail(t)) = Len(t) - 1 /\ Len(u) = Len(t)
    BY <1>3, <2>1
  <2>3. ASSUME NEW i \in 1 .. Len(t)
        PROVE  u[i] = t[i]
    <3>1. CASE i = 1
      BY <1>3, <2>1, <3>1
    <3>2. CASE i # 1
      <4>1. i - 1 \in 1 .. Len(Tail(t)) /\ u[i] = Tail(t)[i - 1]
        BY <2>1, <2>2, <3>2
      <4>2. Tail(t)[i - 1] = t[(i - 1) + 1]
        BY <1>3, <4>1, HeadTailProperties
      <4> QED
        BY <4>1, <4>2
    <3> QED
      BY <3>1, <3>2
  <2> HIDE DEF u
  <2>4. u = t
    BY <2>1, <2>2, <2>3, SeqEqual
  <2> QED
    BY <2>4 DEF u
<1> QED
  BY <1>1, <1>2, <1>3

LEMMA Shifted ==
  ASSUME NEW s \in Seq(Nat), NEW t \in Seq(Nat), t # << >>
  PROVE  Append(s, Head(t)) \o Tail(t) = s \o t
<1>1. Head(t) \in Nat /\ Tail(t) \in Seq(Nat)
  OBVIOUS
<1>2. /\ <<Head(t)>> \in Seq(Nat) /\ Append(s, Head(t)) = s \o <<Head(t)>>
      /\ t = <<Head(t)>> \o Tail(t)
  BY <1>1, Joined
<1>3. (s \o <<Head(t)>>) \o Tail(t) = s \o (<<Head(t)>> \o Tail(t))
  BY <1>1, <1>2, ConcatAssociative
<1> QED
  BY <1>2, <1>3

\* The messages of t are those of s, at the places u.
LEMMA InSequenceAt ==
  ASSUME NEW s \in Seq(Nat), NEW t \in Seq(Nat), NEW n \in Nat, NEW u, InSequence(s, n),
         \A i \in DOMAIN t : t[i] # Hello => u[i] \in DOMAIN s /\ s[u[i]] = t[i],
         \A i, j \in DOMAIN t : t[i] # Hello /\ t[j] # Hello /\ i < j => u[i] < u[j],
         \A i \in DOMAIN s : s[i] # Hello => \E j \in DOMAIN t : t[j] = s[i]
  PROVE  InSequence(t, n)
<1> DEFINE P == {i \in DOMAIN s : s[i] # Hello}
           Q == {i \in DOMAIN t : t[i] # Hello}
<1>1. /\ \A i, j \in P : i < j => s[i] < s[j]
      /\ {s[i] : i \in P} = 1 .. n
  BY DEF InSequence
<1>2. \A i \in Q : u[i] \in P /\ s[u[i]] = t[i]
  OBVIOUS
<1>3. \A i, j \in Q : i < j => t[i] < t[j]
  <2> SUFFICES ASSUME NEW i \in Q, NEW j \in Q, i < j PROVE t[i] < t[j]
    OBVIOUS
  <2>1. u[i] < u[j]
    OBVIOUS
  <2> QED
    BY <1>1, <1>2, <2>1
<1>4. {t[i] : i \in Q} = {s[i] : i \in P}
  <2>1. \A i \in Q : t[i] \in {s[k] : k \in P}
    BY <1>2
  <2>2. \A i \in P : \E j \in Q : t[j] = s[i]
    OBVIOUS
  <2> QED
    BY <2>1, <2>2
<1> QED
  BY <1>1, <1>3, <1>4 DEF InSequence

\* v is w with a Hello put in behind the first l messages.
Interposed(v, w, l) ==
  /\ l \in Nat /\ v[l + 1] = Hello
  /\ \A i \in DOMAIN w : i \in Nat /\ (i <= l => i \in DOMAIN v /\ v[i] = w[i])
  /\ \A i \in DOMAIN w : i > l => i + 1 \in DOMAIN v /\ v[i + 1] = w[i]
  /\ \A i \in DOMAIN v : i \in Nat /\ (i <= l => i \in DOMAIN w /\ v[i] = w[i])
  /\ \A i \in DOMAIN v : i > l + 1 => i - 1 \in DOMAIN w /\ v[i] = w[i - 1]

LEMMA InterposedSame ==
  ASSUME NEW v \in Seq(Nat), NEW w \in Seq(Nat), NEW l, Interposed(v, w, l), NEW n \in Nat
  PROVE  InSequence(v, n) <=> InSequence(w, n)
<1>0. l \in Nat /\ (\A i \in DOMAIN v : i \in Nat) /\ (\A i \in DOMAIN w : i \in Nat)
  BY DEF Interposed
<1>1. ASSUME InSequence(v, n)
      PROVE  InSequence(w, n)
  <2> DEFINE u == [i \in DOMAIN w |-> IF i <= l THEN i ELSE i + 1]
  <2>1. ASSUME NEW i \in DOMAIN w
        PROVE  u[i] \in DOMAIN v /\ v[u[i]] = w[i]
    <3>1. CASE i <= l
      BY <3>1 DEF Interposed
    <3>2. CASE i > l
      BY <1>0, <3>2 DEF Interposed
    <3> QED
      BY <1>0, <3>1, <3>2
  <2>2. \A i, j \in DOMAIN w : i < j => u[i] < u[j]
    BY <1>0
  <2>3. ASSUME NEW i \in DOMAIN v, v[i] # Hello
        PROVE  \E j \in DOMAIN w : w[j] = v[i]
    <3>1. CASE i <= l
      BY <3>1 DEF Interposed
    <3>2. CASE i > l + 1
      <4>1. i - 1 \in DOMAIN w /\ w[i - 1] = v[i]
        BY <3>2 DEF Interposed
      <4> QED
        BY <4>1
    <3>3. i # l + 1
      BY <2>3 DEF Interposed
    <3> QED
      BY <1>0, <3>1, <3>2, <3>3
  <2> HIDE DEF u
  <2> QED
    BY <1>1, <2>1, <2>2, <2>3, InSequenceAt
<1>2. ASSUME InSequence(w, n)
      PROVE  InSequence(v, n)
  <2> DEFINE u == [i \in DOMAIN v |-> IF i <= l THEN i ELSE i - 1]
  <2>1. ASSUME NEW i \in DOMAIN v, v[i] # Hello
        PROVE  i # l + 1 /\ u[i] \in DOMAIN w /\ w[u[i]] = v[i]
    <3>1. i # l + 1
      BY <2>1 DEF Interposed
    <3>2. CASE i <= l
      BY <3>1, <3>2 DEF Interposed
    <3>3. CASE i > l + 1
      <4>1. i - 1 \in DOMAIN w /\ w[i - 1] = v[i]
        BY <3>3 DEF Interposed
      <4>2. u[i] = i - 1
        BY <1>0, <3>3
      <4> QED
        BY <3>1, <4>1, <4>2
    <3> QED
      BY <1>0, <3>1, <3>2, <3>3
  <2>2. ASSUME NEW i \in DOMAIN v, NEW j \in DOMAIN v, i # l + 1, j # l + 1, i < j
        PROVE  u[i] < u[j]
    <3>1. i \in Nat /\ j \in Nat
      BY <1>0
    <3>2. u[i] = (IF i <= l THEN i ELSE i - 1) /\ u[j] = (IF j <= l THEN j ELSE j - 1)
      OBVIOUS
    <3> QED
      BY <1>0, <2>2, <3>1, <3>2
  <2> HIDE DEF u
  <2>3. ASSUME NEW i \in DOMAIN w
        PROVE  \E j \in DOMAIN v : v[j] = w[i]
    <3>1. CASE i <= l
      BY <3>1 DEF Interposed
    <3>2. CASE i > l
      <4>1. i + 1 \in DOMAIN v /\ v[i + 1] = w[i]
        BY <3>2 DEF Interposed
      <4> QED
        BY <4>1
    <3> QED
      BY <1>0, <3>1, <3>2
  <2>4. \A i, j \in DOMAIN v : v[i] # Hello /\ v[j] # Hello /\ i < j => u[i] < u[j]
    BY <2>1, <2>2
  <2> QED
    BY <1>2, <2>1, <2>3, <2>4, InSequenceAt
<1> QED
  BY <1>1, <1>2

\* A Hello inside changes nothing.
LEMMA HelloInside ==
  ASSUME NEW p \in Seq(Nat), NEW q \in Seq(Nat), NEW n \in Nat
  PROVE  InSequence(p \o (<<Hello>> \o q), n) <=> InSequence(p \o q, n)
<1> DEFINE l == Len(p)
           m == Len(q)
           w == p \o q
           h == <<Hello>> \o q
           v == p \o h
<1>1. /\ w \in Seq(Nat) /\ h \in Seq(Nat) /\ v \in Seq(Nat) /\ l \in Nat /\ m \in Nat
      /\ Len(h) = m + 1
  BY DEF Hello
<1>2. /\ DOMAIN w = 1 .. l + m
      /\ \A i \in 1 .. l + m : w[i] = IF i <= l THEN p[i] ELSE q[i - l]
  BY <1>1
<1>3. h[1] = Hello /\ \A i \in 1 .. m : h[i + 1] = q[i]
  BY <1>1 DEF Hello
<1>4. /\ DOMAIN v = 1 .. l + m + 1
      /\ \A i \in 1 .. l + m + 1 : v[i] = IF i <= l THEN p[i] ELSE h[i - l]
  BY <1>1
<1> HIDE DEF l, m, w, h, v
<1>5. v[l + 1] = Hello
  <2>1. l + 1 \in 1 .. l + m + 1 /\ ~(l + 1 <= l) /\ (l + 1) - l = 1
    BY <1>1
  <2> QED
    BY <1>3, <1>4, <2>1
<1>6. ASSUME NEW i \in 1 .. l + m, i > l
      PROVE  v[i + 1] = w[i]
  <2>1. i - l \in 1 .. m /\ (i + 1) - l = (i - l) + 1 /\ i + 1 \in 1 .. l + m + 1
        /\ ~(i <= l) /\ ~(i + 1 <= l)
    BY <1>1, <1>6
  <2> QED
    BY <1>2, <1>3, <1>4, <2>1
<1>7. ASSUME NEW i \in 1 .. l + m + 1, i > l + 1
      PROVE  v[i] = w[i - 1]
  <2>1. i - 1 \in 1 .. l + m /\ i - 1 > l /\ (i - 1) + 1 = i
    BY <1>1, <1>7
  <2> QED
    BY <1>6, <2>1
<1>8. ASSUME NEW i \in Nat, i <= l, i \in DOMAIN v \/ i \in DOMAIN w
      PROVE  i \in DOMAIN v /\ i \in DOMAIN w /\ v[i] = w[i]
  <2>1. i \in DOMAIN v \/ i \in DOMAIN w
    BY <1>8
  <2>2. 1 <= i
    BY <1>1, <1>2, <1>4, <2>1
  <2>3. i \in 1 .. l + m /\ i \in 1 .. l + m + 1 /\ i <= l
    BY <1>1, <1>8, <2>2
  <2> QED
    BY <1>2, <1>4, <2>3
<1>9. Interposed(v, w, l)
  <2>1. ASSUME NEW i \in 1 .. l + m
        PROVE  i \in Nat /\ i + 1 \in 1 .. l + m + 1
    BY <1>1
  <2>2. ASSUME NEW i \in 1 .. l + m + 1
        PROVE  i \in Nat /\ (i > l + 1 => i - 1 \in 1 .. l + m)
    BY <1>1
  <2>3. \A i \in DOMAIN w : i \in Nat /\ (i <= l => i \in DOMAIN v /\ v[i] = w[i])
    BY <1>2, <1>8, <2>1
  <2>4. \A i \in DOMAIN w : i > l => i + 1 \in DOMAIN v /\ v[i + 1] = w[i]
    BY <1>2, <1>4, <1>6, <2>1
  <2>5. \A i \in DOMAIN v : i \in Nat /\ (i <= l => i \in DOMAIN w /\ v[i] = w[i])
    BY <1>4, <1>8, <2>2
  <2>6. \A i \in DOMAIN v : i > l + 1 => i - 1 \in DOMAIN w /\ v[i] = w[i - 1]
    BY <1>2, <1>4, <1>7, <2>2
  <2> QED
    BY <1>1, <1>5, <2>3, <2>4, <2>5, <2>6 DEF Interposed
<1> QED
  BY <1>1, <1>9, InterposedSame DEF w, v, h

\* The next k messages at the end
LEMMA InSequencePost ==
  ASSUME NEW s \in Seq(Nat), NEW n \in Nat, NEW k \in Nat, InSequence(s, n)
  PROVE  InSequence(s \o [i \in 1 .. k |-> n + i], n + k)
<1> DEFINE ms == [i \in 1 .. k |-> n + i]
           t == s \o ms
           l == Len(s)
<1>1. /\ ms \in Seq(Nat) /\ Len(ms) = k /\ l \in Nat /\ DOMAIN s = 1 .. l
      /\ \A i \in 1 .. k : ms[i] = n + i
  OBVIOUS
<1> HIDE DEF ms
<1>2. /\ DOMAIN t = 1 .. l + k
      /\ \A i \in 1 .. l + k : t[i] = IF i <= l THEN s[i] ELSE ms[i - l]
  BY <1>1
<1> HIDE DEF t, l
<1>3. \A i \in 1 .. l + k : t[i] = IF i <= l THEN s[i] ELSE n + (i - l)
  BY <1>1, <1>2
<1> DEFINE P == {i \in DOMAIN s : s[i] # Hello}
           Q == {i \in DOMAIN t : t[i] # Hello}
<1>4. /\ \A i, j \in P : i < j => s[i] < s[j]
      /\ {s[i] : i \in P} = 1 .. n
  BY DEF InSequence
<1>5. \A i \in P : s[i] \in 1 .. n
  BY <1>4
<1>6. ASSUME NEW i \in Q
      PROVE  \/ i \in P /\ t[i] = s[i] /\ i <= l
             \/ i \in l + 1 .. l + k /\ t[i] = n + (i - l)
  <2>1. CASE i <= l
    BY <1>1, <1>2, <1>3, <2>1
  <2>2. CASE ~(i <= l)
    <3>1. i \in l + 1 .. l + k
      BY <1>1, <1>2, <2>2
    <3> QED
      BY <1>2, <1>3, <2>2, <3>1
  <2> QED
    BY <2>1, <2>2
<1>7. \A i \in l + 1 .. l + k : i \in Q /\ t[i] = n + (i - l)
  BY <1>1, <1>2, <1>3 DEF Hello
<1>8. \A i \in P : i \in Q /\ t[i] = s[i]
  BY <1>1, <1>2, <1>3
<1>9. \A i, j \in Q : i < j => t[i] < t[j]
  <2> SUFFICES ASSUME NEW i \in Q, NEW j \in Q, i < j PROVE t[i] < t[j]
    OBVIOUS
  <2>1. CASE i \in l + 1 .. l + k /\ t[i] = n + (i - l)
    <3>1. ~(j <= l)
      BY <1>1, <1>2, <2>1
    <3>2. j \in l + 1 .. l + k /\ t[j] = n + (j - l)
      BY <1>6, <3>1
    <3> QED
      BY <1>1, <2>1, <3>2
  <2>2. CASE i \in P /\ t[i] = s[i] /\ i <= l
    <3>1. CASE j \in P /\ t[j] = s[j]
      BY <1>4, <2>2, <3>1
    <3>2. CASE j \in l + 1 .. l + k /\ t[j] = n + (j - l)
      <4>1. t[i] \in 1 .. n
        BY <1>5, <2>2
      <4> QED
        BY <1>1, <3>2, <4>1
    <3> QED
      BY <1>6, <3>1, <3>2
  <2> QED
    BY <1>6, <2>1, <2>2
<1>10. {t[i] : i \in Q} = 1 .. n + k
  <2>1. \A i \in Q : t[i] \in 1 .. n + k
    <3> SUFFICES ASSUME NEW i \in Q PROVE t[i] \in 1 .. n + k
      OBVIOUS
    <3>1. CASE i \in P /\ t[i] = s[i]
      BY <1>5, <3>1
    <3>2. CASE i \in l + 1 .. l + k /\ t[i] = n + (i - l)
      BY <1>1, <3>2
    <3> QED
      BY <1>6, <3>1, <3>2
  <2>2. ASSUME NEW m \in 1 .. n + k
        PROVE  m \in {t[i] : i \in Q}
    <3>1. CASE m <= n
      <4>1. m \in 1 .. n
        BY <3>1
      <4>2. m \in {s[i] : i \in P}
        BY <1>4, <4>1, Zenon
      <4> QED
        BY <1>8, <4>2
    <3>2. CASE ~(m <= n)
      <4>1. l + (m - n) \in l + 1 .. l + k
        BY <1>1, <3>2
      <4>2. l + (m - n) \in Q /\ t[l + (m - n)] = m
        BY <1>1, <1>7, <4>1
      <4> QED
        BY <4>2
    <3> QED
      BY <3>1, <3>2
  <2> QED
    BY <2>1, <2>2
<1>11. InSequence(t, n + k)
  BY <1>9, <1>10 DEF InSequence
<1> QED
  BY <1>11 DEF t, ms

\* What is handled, waits, is on the way and is posted, one behind the other
InLine(a, b, c, d, n) == InSequence(a \o b \o c \o d, n)

Regrouped(s1, s2, s3) == (s1 \o s2) \o s3 = s1 \o (s2 \o s3)

LEMMA RegroupAny ==
  ASSUME NEW S, NEW s1 \in Seq(S), NEW s2 \in Seq(S), NEW s3 \in Seq(S)
  PROVE  Regrouped(s1, s2, s3)
BY ConcatAssociative DEF Regrouped

LEMMA Regroup ==
  ASSUME NEW s1 \in Seq(Nat), NEW s2 \in Seq(Nat), NEW s3 \in Seq(Nat)
  PROVE  Regrouped(s1, s2, s3)
BY RegroupAny

LEMMA HelloAround ==
  ASSUME NEW p \in Seq(Nat), NEW x \in Seq(Nat), NEW q \in Seq(Nat), NEW n \in Nat
  PROVE  /\ InSequence(p \o Append(x, Hello) \o q, n) <=> InSequence(p \o x \o q, n)
         /\ x # << >> /\ Head(x) = Hello =>
              (InSequence(p \o Tail(x) \o q, n) <=> InSequence(p \o x \o q, n))
<1>0. Hello \in Nat
  BY DEF Hello
<1> DEFINE h == <<Hello>>
<1>1. h \in Seq(Nat) /\ p \o x \in Seq(Nat) /\ x \o q \in Seq(Nat) /\ Append(x, Hello) = x \o h
  BY <1>0, Joined
<1>2. h \o q \in Seq(Nat)
  BY <1>1, Joined, <1>0
<1>3. InSequence(p \o (h \o q), n) <=> InSequence(p \o q, n)
  BY HelloInside
<1> HIDE DEF h
<1>4. InSequence(p \o Append(x, Hello) \o q, n) <=> InSequence(p \o x \o q, n)
  <2>1. Regrouped(p, x, h) /\ Regrouped(p \o x, h, q)
    BY <1>1, Regroup
  <2>2. (p \o (x \o h)) \o q = (p \o x) \o (h \o q)
    BY <2>1 DEF Regrouped
  <2>3. InSequence((p \o x) \o (h \o q), n) <=> InSequence((p \o x) \o q, n)
    BY <1>1, HelloInside DEF h
  <2> QED
    BY <1>1, <2>2, <2>3
<1>5. ASSUME x # << >>, Head(x) = Hello
      PROVE  InSequence(p \o Tail(x) \o q, n) <=> InSequence(p \o x \o q, n)
  <2> DEFINE t == Tail(x)
  <2>1. t \in Seq(Nat)
    BY <1>5
  <2>2. x = h \o t
    BY <1>5, Joined DEF h
  <2> HIDE DEF t
  <2>3. t \o q \in Seq(Nat) /\ h \o t \in Seq(Nat)
    BY <1>0, <1>1, <2>1, Joined
  <2>4. Regrouped(p, h \o t, q) /\ Regrouped(h, t, q) /\ Regrouped(p, t, q)
    BY <1>1, <2>1, <2>3, Regroup
  <2>5. (p \o (h \o t)) \o q = p \o (h \o (t \o q)) /\ (p \o t) \o q = p \o (t \o q)
    BY <2>4 DEF Regrouped
  <2>6. InSequence(p \o (h \o (t \o q)), n) <=> InSequence(p \o (t \o q), n)
    BY <2>3, HelloInside DEF h
  <2> QED
    BY <2>2, <2>5, <2>6 DEF t
<1> QED
  BY <1>4, <1>5

\* A Hello that comes into the line or leaves it
LEMMA InLineHello ==
  ASSUME NEW a \in Seq(Nat), NEW b \in Seq(Nat), NEW c \in Seq(Nat), NEW d \in Seq(Nat),
         NEW n \in Nat, InLine(a, b, c, d, n)
  PROVE  /\ InLine(a, Append(b, Hello), c, d, n)
         /\ InLine(a, b, Append(c, Hello), d, n)
         /\ b # << >> /\ Head(b) = Hello => InLine(a, Tail(b), c, d, n)
         /\ c # << >> /\ Head(c) = Hello => InLine(a, b, Tail(c), d, n)
<1>1. c \o d \in Seq(Nat) /\ a \o b \in Seq(Nat) /\ Append(b, Hello) \in Seq(Nat)
  BY Joined DEF Hello
<1>2. \A x \in Seq(Nat) : (a \o x) \o (c \o d) = ((a \o x) \o c) \o d
  <2> SUFFICES ASSUME NEW x \in Seq(Nat) PROVE (a \o x) \o (c \o d) = ((a \o x) \o c) \o d
    OBVIOUS
  <2>1. a \o x \in Seq(Nat)
    OBVIOUS
  <2> QED
    BY <2>1, Regroup DEF Regrouped
<1>3. InSequence(((a \o b) \o c) \o d, n) /\ InSequence((a \o b) \o (c \o d), n)
  BY <1>2 DEF InLine
<1>4. InSequence(((a \o b) \o Append(c, Hello)) \o d, n)
  BY <1>1, <1>3, HelloAround
<1>5. c # << >> /\ Head(c) = Hello => InSequence(((a \o b) \o Tail(c)) \o d, n)
  BY <1>1, <1>3, HelloAround
<1>6. InSequence((a \o Append(b, Hello)) \o (c \o d), n)
  BY <1>1, <1>3, HelloAround
<1>7. ASSUME b # << >>, Head(b) = Hello
      PROVE  InSequence((a \o Tail(b)) \o (c \o d), n) /\ Tail(b) \in Seq(Nat)
  <2>1. Tail(b) \in Seq(Nat)
    BY <1>7
  <2>2. InSequence((a \o Tail(b)) \o (c \o d), n)
    BY <1>1, <1>3, <1>7, HelloAround
  <2> QED
    BY <2>1, <2>2
<1> QED
  BY <1>1, <1>2, <1>4, <1>5, <1>6, <1>7 DEF InLine

\* A message that goes from one part of the line to the part before
LEMMA InLineMove ==
  ASSUME NEW a \in Seq(Nat), NEW b \in Seq(Nat), NEW c \in Seq(Nat), NEW d \in Seq(Nat),
         NEW n \in Nat, InLine(a, b, c, d, n)
  PROVE  /\ b # << >> => InLine(Append(a, Head(b)), Tail(b), c, d, n)
         /\ c # << >> => InLine(a, Append(b, Head(c)), Tail(c), d, n)
         /\ d # << >> => InLine(a, b, Append(c, Head(d)), Tail(d), n)
<1>1. ASSUME NEW s \in Seq(Nat), NEW p \in Seq(Nat), NEW t \in Seq(Nat), t # << >>
      PROVE  (s \o Append(p, Head(t))) \o Tail(t) = (s \o p) \o t
  <2> DEFINE h == <<Head(t)>>
             u == Tail(t)
  <2>1. Head(t) \in Nat
    BY <1>1
  <2>2. h \in Seq(Nat) /\ u \in Seq(Nat) /\ s \o p \in Seq(Nat)
    BY <1>1
  <2>3. t = h \o u
    BY <1>1, Joined
  <2>4. Append(p, Head(t)) = p \o h
    BY <2>1, Joined
  <2> HIDE DEF h, u
  <2>5. Regrouped(s, p, h) /\ Regrouped(s \o p, h, u)
    BY <2>2, Regroup
  <2> QED
    BY <2>3, <2>4, <2>5 DEF u, Regrouped
<1>2. b # << >> => Append(a, Head(b)) \o Tail(b) = a \o b
  BY Shifted
<1>3. c # << >> => (a \o Append(b, Head(c))) \o Tail(c) = (a \o b) \o c
  BY <1>1
<1>4. a \o b \in Seq(Nat)
  OBVIOUS
<1>5. d # << >> => ((a \o b) \o Append(c, Head(d))) \o Tail(d) = ((a \o b) \o c) \o d
  BY <1>1, <1>4
<1> QED
  BY <1>2, <1>3, <1>5 DEF InLine

\* The next k messages are posted.
LEMMA InLinePost ==
  ASSUME NEW a \in Seq(Nat), NEW b \in Seq(Nat), NEW c \in Seq(Nat), NEW d \in Seq(Nat),
         NEW n \in Nat, NEW k \in Nat, InLine(a, b, c, d, n)
  PROVE  InLine(a, b, c, d \o [i \in 1 .. k |-> n + i], n + k)
<1> DEFINE ms == [i \in 1 .. k |-> n + i]
           s == (a \o b) \o c
<1>1. ms \in Seq(Nat) /\ s \in Seq(Nat) /\ s \o d \in Seq(Nat)
  OBVIOUS
<1>2. InSequence((s \o d) \o ms, n + k)
  BY <1>1, InSequencePost DEF InLine
<1> HIDE DEF ms, s
<1>3. Regrouped(s, d, ms)
  BY <1>1, Regroup
<1> QED
  BY <1>2, <1>3 DEF InLine, s, ms, Regrouped

\* The acceptor hears of the first connection only, and of no end of it.
Heralded ==
  \A i \in DOMAIN events["acceptor"] :
    events["acceptor"][i].conn = 1 /\ events["acceptor"][i].type # "down"

Pending == \E i \in DOMAIN events["acceptor"] : events["acceptor"][i] = Up(1)

\* Before the first fault there is at most one connection, which carries data as soon as
\* it is opened, is the only one the acceptor hears of, and keeps its writer.
Steady ==
  /\ last = IF dial = "connect" THEN 0 ELSE 1
  /\ live = IF dial = "connect" THEN {} ELSE {1}
  /\ last = 0 => socket["dialler"][1] = << >>
  /\ peer["acceptor"] \in {0, 1} /\ Heralded
  /\ writer[1] # "done"
  /\ accept[1] = "done" => peer["acceptor"] = 1 \/ Pending

LEMMA FirstConn == 1 \in Conn /\ \A c \in Conn : c \in Nat /\ c >= 1
BY TransportAssumption DEF Conn

\* A thread that has begun is one of the first connection.
LEMMA OnlyOne ==
  ASSUME TypeInv, Steady, NEW c \in Conn, Opening(c),
         \/ accept[c] # "none" \/ writer[c] # "none"
         \/ \E e \in End : reader[e][c] # "none"
  PROVE  c = 1 /\ last = 1 /\ live = {1} /\ dial # "connect"
<1>1. ~(c > last)
  BY Ends DEF Opening
<1>2. c \in Nat /\ c >= 1
  BY FirstConn
<1>3. last = 0 \/ last = 1
  BY DEF Steady
<1> QED
  BY <1>1, <1>2, <1>3 DEF Steady

\* An error of a connection that carries data is a fault.
LEMMA NoError ==
  ASSUME TypeInv, faults' = 0, NEW c \in live
  PROVE  /\ ~TimesOut(c) /\ ~WriteError(c) /\ ~AckRejected
         /\ \A e \in End : ~ReadError(e, c)
<1>1. faults \in Nat
  BY DEF TypeInv, TypeOK
<1> QED
  BY <1>1 DEF TimesOut, WriteError, ReadError, AckRejected

LEMMA FaultsStay ==
  ASSUME TypeInv, [Next]_vars, faults' = 0
  PROVE  faults = 0
<1>1. faults \in Nat
  BY DEF TypeInv, TypeOK
<1>2. faults' = faults \/ faults' = faults + 1
  <2>1. CASE Dialler
    BY <2>1 DEF Dialler, Dial, ReadAck, AckFails, Announce, Write, WriteFails, WriteError,
                ReadError, AckRejected, TimesOut
  <2>2. ASSUME NEW c \in Conn, Acceptor(c) \/ AcceptedWriter(c) \/ Fail(c)
        PROVE  faults' = faults \/ faults' = faults + 1
    BY <2>2 DEF Acceptor, Accept, AcceptFails, AnnounceAccepted, AcceptedWriter,
         AcceptedWrite, AcceptedWriteFails, AcceptedWriteEnds, Fail, WriteError, ReadError, TimesOut
  <2>3. ASSUME NEW e \in End, \/ Handle(e) \/ Send(e)
                              \/ \E c \in Conn : Reader(e, c)
        PROVE  faults' = faults
    BY <2>3 DEF Handle, AddPeer, RemovePeer, OnNet, Send, Reader, Read, ReadFails
  <2>4. CASE UNCHANGED vars
    BY <2>4 DEF vars
  <2> QED
    BY <2>1, <2>2, <2>3, <2>4 DEF Next
<1> QED
  BY <1>1, <1>2

\* The steps that are left while nothing fails
Smooth ==
  \/ Dial \/ ReadAck \/ Announce \/ Write
  \/ Accept(1) \/ AnnounceAccepted(1) \/ AcceptedWrite(1)
  \/ \E e \in End : Read(e, 1) \/ AddPeer(e) \/ OnNet(e) \/ Send(e)
  \/ RemovePeer("dialler") \/ UNCHANGED vars

LEMMA SmoothOnly ==
  ASSUME Shaken, Steady, [Next]_vars, faults' = 0
  PROVE  Smooth
<1>0. TypeInv /\ \A c \in Conn : Opening(c)
  BY DEF Shaken
<1>1. CASE Dialler
  <2>1. ~AckFails /\ ~WriteFails
    <3>1. SUFFICES dial # "connect" => last \in live
      BY <1>0, NoError, Ends DEF AckFails, WriteFails
    <3> QED
      BY DEF Steady
  <2> QED
    BY <1>1, <2>1 DEF Dialler, Smooth
<1>2. ASSUME NEW c \in Conn, Acceptor(c)
      PROVE  Smooth
  <2>1. c = 1 /\ c \in live
    BY <1>0, <1>2, OnlyOne DEF Acceptor, Accept, AcceptFails, AnnounceAccepted
  <2>2. ~AcceptFails(c)
    BY <1>0, <2>1, NoError, Ends DEF AcceptFails
  <2> QED
    BY <1>2, <2>1, <2>2 DEF Acceptor, Smooth
<1>3. ASSUME NEW c \in Conn, AcceptedWriter(c)
      PROVE  Smooth
  <2>1. c = 1 /\ c \in live
    BY <1>0, <1>3, OnlyOne DEF AcceptedWriter, AcceptedWrite, AcceptedWriteFails, AcceptedWriteEnds
  <2>2. ~AcceptedWriteFails(c)
    BY <1>0, <2>1, NoError DEF AcceptedWriteFails
  <2>3. ~AcceptedWriteEnds(c)
    BY <2>1 DEF AcceptedWriteEnds, Steady, Pending
  <2> QED
    BY <1>3, <2>1, <2>2, <2>3 DEF AcceptedWriter, Smooth
<1>4. ASSUME NEW c \in Conn, Fail(c)
      PROVE  FALSE
  <2>1. faults \in Nat /\ faults' = faults + 1
    BY <1>0, <1>4 DEF Fail, TypeInv, TypeOK
  <2> QED
    BY <2>1
<1>5. ASSUME NEW e \in End, NEW c \in Conn, Reader(e, c)
      PROVE  Smooth
  <2>1. c = 1 /\ c \in live
    BY <1>0, <1>5, OnlyOne DEF Reader, Read, ReadFails
  <2> QED
    BY <1>5, <2>1 DEF Reader, ReadFails, Smooth
<1>6. ASSUME NEW e \in End, Handle(e) \/ Send(e)
      PROVE  Smooth
  <2>1. ~(e = "acceptor" /\ RemovePeer(e))
    <3>1. events["acceptor"] \in Seq(Event)
      BY <1>0, VarTypes, Ends
    <3>2. events["acceptor"] # << >> =>
            /\ Head(events["acceptor"]) = events["acceptor"][1]
            /\ 1 \in DOMAIN events["acceptor"]
      BY <3>1
    <3> QED
      BY <3>2 DEF RemovePeer, NextEvent, Steady, Heralded
  <2> QED
    BY <1>6, <2>1, Ends DEF Handle, Smooth
<1> QED
  BY <1>1, <1>2, <1>3, <1>4, <1>5, <1>6 DEF Next, Smooth

LEMMA HeraldedReport ==
  ASSUME TypeInv, Heralded, NEW e \in End, NEW x \in Event,
         e = "acceptor" => x.conn = 1 /\ x.type # "down", events' = Report(e, x)
  PROVE  /\ Heralded' /\ (Pending => Pending')
         /\ e = "acceptor" /\ x = Up(1) => Pending'
<1>1. /\ events["acceptor"] \in Seq(Event)
      /\ e = "acceptor" => events'["acceptor"] = Append(events["acceptor"], x)
      /\ e # "acceptor" => events'["acceptor"] = events["acceptor"]
  <2>1. events \in [End -> Seq(Event)] /\ "acceptor" \in End
    BY VarTypes, Ends
  <2>2. /\ Report(e, x)[e] = Append(events[e], x)
        /\ \A f \in End \ {e} : Report(e, x)[f] = events[f]
    BY <2>1, ReportType
  <2> QED
    BY <2>1, <2>2
<1>2. CASE e # "acceptor"
  BY <1>1, <1>2 DEF Heralded, Pending
<1>3. CASE e = "acceptor"
  <2> DEFINE q == events["acceptor"]
  <2>1. /\ DOMAIN events'["acceptor"] = 1 .. Len(q) + 1 /\ DOMAIN q = 1 .. Len(q) /\ Len(q) \in Nat
        /\ \A i \in 1 .. Len(q) : events'["acceptor"][i] = q[i]
        /\ events'["acceptor"][Len(q) + 1] = x
    BY <1>1, <1>3
  <2> HIDE DEF q
  <2>2. \A i \in 1 .. Len(q) : i \in 1 .. Len(q) + 1
    BY <2>1
  <2>3. \A i \in 1 .. Len(q) + 1 : i \in 1 .. Len(q) \/ i = Len(q) + 1
    BY <2>1
  <2>4. Len(q) + 1 \in 1 .. Len(q) + 1
    BY <2>1
  <2> QED
    BY <1>3, <2>1, <2>2, <2>3, <2>4 DEF Heralded, Pending, q
<1> QED
  BY <1>2, <1>3

LEMMA HeraldedTail ==
  ASSUME TypeInv, Heralded, NEW e \in End, events[e] # << >>,
         events' = [events EXCEPT ![e] = Tail(@)]
  PROVE  /\ Heralded'
         /\ Pending /\ ~(e = "acceptor" /\ Head(events[e]) = Up(1)) => Pending'
         /\ e = "acceptor" => Head(events[e]).conn = 1
<1>1. /\ events["acceptor"] \in Seq(Event)
      /\ e = "acceptor" => events'["acceptor"] = Tail(events["acceptor"])
      /\ e # "acceptor" => events'["acceptor"] = events["acceptor"]
  BY VarTypes, Ends
<1>2. CASE e # "acceptor"
  BY <1>1, <1>2 DEF Heralded, Pending
<1>3. CASE e = "acceptor"
  <2> DEFINE q == events["acceptor"]
  <2>1. /\ DOMAIN q = 1 .. Len(q) /\ Len(q) \in Nat /\ Len(q) >= 1 /\ Head(q) = q[1]
        /\ DOMAIN Tail(q) = 1 .. Len(q) - 1 
        /\ \A i \in 1 .. Len(q) - 1 : Tail(q)[i] = q[i + 1]
    BY <1>1, <1>3, TailIs
  <2>2. events'["acceptor"] = Tail(q)
    BY <1>1, <1>3
  <2> HIDE DEF q
  <2>3. \A i \in 1 .. Len(q) - 1 : i + 1 \in 1 .. Len(q)
    BY <2>1
  <2>4. ASSUME NEW i \in 1 .. Len(q), i # 1
        PROVE  i - 1 \in 1 .. Len(q) - 1 /\ Tail(q)[i - 1] = q[i]
    <3>1. i - 1 \in 1 .. Len(q) - 1 /\ (i - 1) + 1 = i
      BY <2>1, <2>4
    <3> QED
      BY <2>1, <3>1
  <2>5. 1 \in 1 .. Len(q)
    BY <2>1
  <2>6. Heralded' /\ Head(q).conn = 1
    BY <2>1, <2>2, <2>3, <2>5 DEF Heralded, q
  <2>7. ASSUME Pending, Head(q) # Up(1)
        PROVE  Pending'
    <3>1. PICK i \in 1 .. Len(q) : q[i] = Up(1)
      BY <2>1, <2>7 DEF Pending, q
    <3>2. i # 1
      BY <2>1, <2>7, <3>1
    <3>3. i - 1 \in DOMAIN events'["acceptor"] /\ events'["acceptor"][i - 1] = Up(1)
      BY <2>1, <2>2, <2>4, <3>1, <3>2
    <3> QED
      BY <3>3 DEF Pending, Up
  <2> QED
    BY <1>3, <2>6, <2>7 DEF q
<1> QED
  BY <1>2, <1>3

LEMMA SteadyStep ==
  ASSUME Shaken, Shaken', Steady, Smooth
  PROVE  Steady'
<1>0. /\ TypeInv /\ Carried /\ \A c \in Conn : Opening(c)
      /\ Heralded /\ last \in Nat /\ 1 \in Conn
      /\ Up(1) \in Event /\ Up(1).conn = 1 /\ Up(1).type = "up"
  BY VarTypes, FirstConn, EventTypes DEF Shaken, Steady, Up
<1>1. last' = 0 => socket'["dialler"][1] = << >>
  <2>1. CASE Dial \/ ReadAck \/ Announce \/ Write
    BY <1>0, <2>1 DEF Dial, ReadAck, Announce, Write, threads, Steady
  <2>2. CASE Accept(1) \/ AnnounceAccepted(1) \/ AcceptedWrite(1) \/ \E e \in End : Read(e, 1)
    <3>1. last = 1
      BY <1>0, <2>2, OnlyOne DEF Accept, AnnounceAccepted, AcceptedWrite, Read
    <3> QED
      BY <2>2, <3>1 DEF Accept, AnnounceAccepted, AcceptedWrite, Read, threads
  <2>3. ASSUME NEW e \in End, \/ AddPeer(e) \/ RemovePeer(e) \/ OnNet(e)
                              \/ Send(e) \/ UNCHANGED vars
        PROVE  UNCHANGED <<last, socket>>
    BY <2>3 DEF AddPeer, RemovePeer, OnNet, Send, network, threads, vars
  <2> QED
    BY <2>1, <2>2, <2>3, Ends DEF Smooth, Steady
<1>2. CASE UNCHANGED <<last, dial, live, peer, events, writer, accept>>
  BY <1>1, <1>2 DEF Steady, Heralded, Pending
<1>3. CASE Dial
  <2>1. /\ dial = "connect" /\ dial' = "hello" /\ last' = last + 1
        /\ live' = live \cup {last'} /\ accept' = [accept EXCEPT ![last'] = "hello"]
        /\ UNCHANGED <<peer, events, writer>>
    BY <1>3 DEF Dial, nodes
  <2>2. last' = 1 /\ live' = {1} /\ accept'[1] = "hello"
    BY <1>0, <2>1, VarTypes DEF Steady
  <2> QED
    BY <1>1, <2>1, <2>2 DEF Steady, Heralded
<1>4. CASE ReadAck
  <2>1. dial = "hello" /\ dial' = "spawn" /\ UNCHANGED <<last, live, peer, events, writer, accept>>
    BY <1>4 DEF ReadAck, nodes
  <2> QED
    BY <1>1, <2>1 DEF Steady, Heralded, Pending
<1>5. CASE Announce
  <2>1. /\ dial = "spawn" /\ dial' = "write" /\ events' = Report("dialler", Up(last)) /\ last = 1
        /\ UNCHANGED <<last, live, peer, writer, accept>>
    BY <1>5 DEF Announce, network, nodes, Steady
  <2>2. Heralded' /\ (Pending => Pending')
    BY <1>0, <2>1, HeraldedReport, Ends
  <2> QED
    BY <1>1, <2>1, <2>2 DEF Steady
<1>6. CASE Accept(1)
  <2>1. /\ writer' = [writer EXCEPT ![1] = "run"] /\ accept' = [accept EXCEPT ![1] = "spawn"]
        /\ UNCHANGED <<last, dial, live, peer, events>>
    BY <1>6 DEF Accept, nodes
  <2>2. writer'[1] = "run" /\ accept'[1] = "spawn"
    BY <1>0, <2>1, VarTypes
  <2> QED
    BY <1>1, <2>1, <2>2 DEF Steady, Heralded
<1>7. CASE AnnounceAccepted(1)
  <2>1. /\ events' = Report("acceptor", Up(1))
        /\ UNCHANGED <<last, dial, live, peer, writer>>
    BY <1>7 DEF AnnounceAccepted, network, nodes
  <2>2. Heralded' /\ Pending'
    BY <1>0, <2>1, HeraldedReport, Ends
  <2> QED
    BY <1>1, <2>1, <2>2 DEF Steady
<1>8. ASSUME NEW e \in End, Read(e, 1)
      PROVE  Steady'
  <2> DEFINE m == Head(Unread(e, 1))
  <2>1. /\ events' = Report(e, Msg(1, m)) /\ Unread(e, 1) # << >>
        /\ UNCHANGED <<last, dial, live, peer, writer, accept>>
    BY <1>8 DEF Read, threads, nodes
  <2>2. Msg(1, m) \in Event /\ Msg(1, m).conn = 1 /\ Msg(1, m).type = "msg"
    BY <1>0, <2>1, VarTypes, UnreadType, EventTypes DEF Msg
  <2>3. Heralded' /\ (Pending => Pending')
    BY <1>0, <2>1, <2>2, HeraldedReport
  <2> QED
    BY <1>1, <2>1, <2>3 DEF Steady
<1>9. ASSUME NEW e \in End, AddPeer(e) \/ (e = "dialler" /\ RemovePeer(e)) \/ OnNet(e)
      PROVE  Steady'
  <2>1. /\ events[e] # << >> /\ events' = [events EXCEPT ![e] = Tail(@)]
        /\ UNCHANGED <<last, dial, live, writer, accept>>
    BY <1>9 DEF AddPeer, RemovePeer, OnNet, NextEvent, network, threads
  <2>2. /\ Heralded'
        /\ Pending /\ ~(e = "acceptor" /\ Head(events[e]) = Up(1)) => Pending'
        /\ e = "acceptor" => Head(events[e]).conn = 1
    BY <1>0, <2>1, HeraldedTail
  <2>3. peer \in [End -> Conn \cup {0}]
    BY <1>0 DEF TypeInv, TypeOK
  <2>4. CASE e = "acceptor" /\ AddPeer(e)
    <3>1. peer'["acceptor"] = 1
      BY <2>2, <2>3, <2>4 DEF AddPeer
    <3> QED
      BY <1>1, <2>1, <2>2, <3>1 DEF Steady
  <2>5. CASE ~(e = "acceptor" /\ AddPeer(e))
    <3>1. peer'["acceptor"] = peer["acceptor"]
      BY <1>9, <2>3, <2>5, Ends DEF AddPeer, RemovePeer, OnNet
    <3>2. ~(e = "acceptor" /\ Head(events[e]) = Up(1))
      BY <1>0, <1>9, <2>5 DEF OnNet, NextEvent
    <3> QED
      BY <1>1, <2>1, <2>2, <3>1, <3>2 DEF Steady
  <2> QED
    BY <2>4, <2>5
<1>10. CASE Write \/ AcceptedWrite(1) \/ (\E e \in End : Send(e)) \/ UNCHANGED vars
  BY <1>2, <1>10 DEF Write, AcceptedWrite, Send, network, threads, nodes, vars
<1> QED
  BY <1>3, <1>4, <1>5, <1>6, <1>7, <1>8, <1>9, <1>10, Ends DEF Smooth

\* What LinkIntact says of one end
Flows(e) == InLine(got[e], Heard(e), Unread(e, 1), Posted(Other(e), 1), sent[Other(e)])

LEMMA LineType ==
  ASSUME TypeInv, NEW e \in End
  PROVE  /\ got[e] \in Seq(Nat) /\ Heard(e) \in Seq(Nat) /\ Unread(e, 1) \in Seq(Nat)
         /\ Posted(Other(e), 1) \in Seq(Nat) /\ sent[Other(e)] \in Nat
<1>1. got[e] \in Seq(Nat) /\ Heard(e) \in Seq(Nat) /\ sent[Other(e)] \in Nat
  BY VarTypes, HeardType, Ends
<1>2. Unread(e, 1) \in Seq(Nat)
  BY VarTypes, UnreadType, FirstConn
<1>3. Posted(Other(e), 1) \in Seq(Nat)
  BY VarTypes, FirstConn DEF Posted
<1> QED
  BY <1>1, <1>2, <1>3

\* What one step may do to the line towards e when the other node sends nothing
Flow(e) ==
  /\ sent'[Other(e)] = sent[Other(e)]
  /\ \/ /\ UNCHANGED <<got[e], Heard(e), Unread(e, 1), Posted(Other(e), 1)>>
     \/ /\ Heard(e) # << >> /\ Heard(e)' = Tail(Heard(e))
        /\ got'[e] = Append(got[e], Head(Heard(e))) \/ (Head(Heard(e)) = Hello /\ got'[e] = got[e])
        /\ UNCHANGED <<Unread(e, 1), Posted(Other(e), 1)>>
     \/ /\ Unread(e, 1) # << >> /\ Unread(e, 1)' = Tail(Unread(e, 1))
        /\ \/ Heard(e)' = Append(Heard(e), Head(Unread(e, 1)))
           \/ Head(Unread(e, 1)) = Hello /\ Heard(e)' = Heard(e)
        /\ UNCHANGED <<got[e], Posted(Other(e), 1)>>
     \/ /\ Posted(Other(e), 1) # << >> /\ Posted(Other(e), 1)' = Tail(Posted(Other(e), 1))
        /\ Unread(e, 1)' = Append(Unread(e, 1), Head(Posted(Other(e), 1)))
        /\ UNCHANGED <<got[e], Heard(e)>>
     \/ /\ Heard(e)' = Append(Heard(e), Hello)
        /\ UNCHANGED <<got[e], Unread(e, 1), Posted(Other(e), 1)>>
     \/ /\ Unread(e, 1)' = Append(Unread(e, 1), Hello)
        /\ UNCHANGED <<got[e], Heard(e), Posted(Other(e), 1)>>

LEMMA FlowKeeps ==
  ASSUME TypeInv, NEW e \in End, Flows(e), Flow(e)
  PROVE  Flows(e)'
<1> DEFINE a == got[e]
           b == Heard(e)
           c == Unread(e, 1)
           d == Posted(Other(e), 1)
           n == sent[Other(e)]
<1>1. /\ a \in Seq(Nat) /\ b \in Seq(Nat) /\ c \in Seq(Nat) /\ d \in Seq(Nat) /\ n \in Nat
      /\ InLine(a, b, c, d, n)
  BY LineType DEF Flows
<1>2. Flows(e)' <=> InLine(got'[e], Heard(e)', Unread(e, 1)', Posted(Other(e), 1)', sent'[Other(e)])
  BY DEF Flows
<1>3. /\ InLine(a, Append(b, Hello), c, d, n)
      /\ InLine(a, b, Append(c, Hello), d, n)
      /\ b # << >> /\ Head(b) = Hello => InLine(a, Tail(b), c, d, n)
      /\ c # << >> /\ Head(c) = Hello => InLine(a, b, Tail(c), d, n)
  BY <1>1, InLineHello
<1>4. /\ b # << >> => InLine(Append(a, Head(b)), Tail(b), c, d, n)
      /\ c # << >> => InLine(a, Append(b, Head(c)), Tail(c), d, n)
      /\ d # << >> => InLine(a, b, Append(c, Head(d)), Tail(d), n)
  BY <1>1, InLineMove
<1> QED
  BY <1>1, <1>2, <1>3, <1>4 DEF Flow

\* The other node posts its next k messages.
LEMMA FlowPosted ==
  ASSUME TypeInv, NEW e \in End, Flows(e), NEW k \in Nat,
         sent'[Other(e)] = sent[Other(e)] + k,
         Posted(Other(e), 1)' = Posted(Other(e), 1) \o [i \in 1 .. k |-> sent[Other(e)] + i],
         UNCHANGED <<got[e], Heard(e), Unread(e, 1)>>
  PROVE  Flows(e)'
<1>1. InLine(got[e], Heard(e), Unread(e, 1),
             Posted(Other(e), 1) \o [i \in 1 .. k |-> sent[Other(e)] + i], sent[Other(e)] + k)
  BY LineType, InLinePost DEF Flows
<1> QED
  BY <1>1 DEF Flows

LEMMA Still ==
  ASSUME NEW e \in End
  PROVE  /\ UNCHANGED events => UNCHANGED Heard(e)
         /\ UNCHANGED socket => UNCHANGED Unread(e, 1)
         /\ UNCHANGED <<rx_out, rx_accept>> => UNCHANGED Posted(Other(e), 1)
BY DEF Heard, Unread, Posted

\* The handshake and the dialler
LEMMA FlowDialler ==
  ASSUME Shaken, Steady, NEW e \in End, Dial \/ ReadAck \/ Announce \/ Write
  PROVE  Flow(e)
<1>0. /\ TypeInv /\ Carried /\ Opening(1) /\ 1 \in Conn
      /\ socket \in [End -> [Conn -> Seq(Nat)]] /\ Hello \in Nat
      /\ (e = "acceptor" /\ Other(e) = "dialler") \/ (e = "dialler" /\ Other(e) = "acceptor")
  BY VarTypes, FirstConn, Ends DEF Shaken, Hello
<1>1. CASE Dial
  <2>1. /\ last' = 1 /\ last = 0 /\ socket' = [socket EXCEPT !["dialler"][1] = <<Hello>>]
        /\ UNCHANGED <<rx_out, rx_accept, events, got, sent>>
    BY <1>1 DEF Dial, nodes, Steady
  <2>2. CASE e = "acceptor"
    <3>1. Unread(e, 1) = socket["dialler"][1] /\ Unread(e, 1)' = socket'["dialler"][1]
      BY <1>0, <2>2 DEF Unread
    <3>2. Unread(e, 1) = << >> /\ Unread(e, 1)' = <<Hello>>
      BY <1>0, <2>1, <3>1, Ends DEF Steady
    <3>3. Append(<< >>, Hello) = <<Hello>>
      OBVIOUS
    <3>4. Unread(e, 1)' = Append(Unread(e, 1), Hello)
      BY <3>2, <3>3, Zenon
    <3> QED
      BY <2>1, <3>4, Still DEF Flow
  <2>3. CASE e = "dialler"
    <3>1. Unread(e, 1)' = Unread(e, 1)
      BY <1>0, <2>1, <2>3 DEF Unread
    <3> QED
      BY <2>1, <3>1, Still DEF Flow
  <2> QED
    BY <1>0, <2>2, <2>3
<1>2. CASE ReadAck
  <2>1. /\ last = 1 /\ dial = "hello" /\ Unread("dialler", 1) # << >>
        /\ socket' = [socket EXCEPT !["acceptor"][1] = Tail(@)]
        /\ UNCHANGED <<rx_out, rx_accept, events, got, sent>>
    BY <1>2 DEF ReadAck, nodes, Steady
  <2>2. /\ Unread("dialler", 1) \in Seq(Nat) /\ reader["dialler"][1] = "none"
        /\ HelloFirst("dialler", 1)
    BY <1>0, <2>1, UnreadType, Ends DEF Opening
  <2>3. Head(Unread("dialler", 1)) = Hello
    BY <2>1, <2>2, PlainTail DEF HelloFirst
  <2>4. CASE e = "dialler"
    <3>0. Unread(e, 1) = socket["acceptor"][1] /\ Unread(e, 1)' = socket'["acceptor"][1]
      BY <1>0, <2>4 DEF Unread
    <3>1. Unread(e, 1)' = Tail(Unread(e, 1))
      BY <1>0, <2>1, <3>0, Ends
    <3> QED
      BY <2>1, <2>3, <2>4, <3>1, Still DEF Flow
  <2>5. CASE e = "acceptor"
    <3>1. Unread(e, 1)' = Unread(e, 1)
      BY <1>0, <2>1, <2>5 DEF Unread
    <3> QED
      BY <2>1, <3>1, Still DEF Flow
  <2> QED
    BY <1>0, <2>4, <2>5
<1>3. CASE Announce
  <2>1. /\ last = 1 /\ events' = Report("dialler", Up(1))
        /\ UNCHANGED <<rx_out, rx_accept, socket, got, sent>>
    BY <1>3 DEF Announce, nodes, network, Steady
  <2>2. /\ Heard("dialler")' = Append(Heard("dialler"), Hello)
        /\ Heard("acceptor")' = Heard("acceptor")
    BY <1>0, <2>1, HeardReport, EventTypes, Ends DEF Up, Hello
  <2> QED
    BY <1>0, <2>1, <2>2, Still DEF Flow
<1>4. CASE Write
  <2>1. /\ rx_out # << >> /\ rx_out' = Tail(rx_out) /\ Head(rx_out) \in Nat
        /\ last = 1 /\ 1 \in live
        /\ socket' = Written("dialler", 1, Head(rx_out))
        /\ UNCHANGED <<rx_accept, events, got, sent>>
    BY <1>0, <1>4, VarTypes DEF Write, nodes, threads, Steady
  <2>2. CASE e = "acceptor"
    <3>0. Unread(e, 1) = socket["dialler"][1] /\ Unread(e, 1)' = socket'["dialler"][1]
      BY <1>0, <2>2 DEF Unread
    <3>1. Unread(e, 1)' = Append(Unread(e, 1), Head(rx_out))
      <4> DEFINE m == Head(rx_out)
      <4>1. m \in Nat /\ socket' = Written("dialler", 1, m) /\ "dialler" \in End
        BY <2>1, Ends
      <4> HIDE DEF m
      <4>2. Written("dialler", 1, m)["dialler"][1] = Append(socket["dialler"][1], m)
        BY <1>0, <2>1, <4>1, WrittenIs
      <4> QED
        BY <3>0, <4>1, <4>2 DEF m
    <3>2. Posted(Other(e), 1) = rx_out /\ Posted(Other(e), 1)' = rx_out'
      BY <1>0, <2>2 DEF Posted
    <3> QED
      BY <2>1, <3>1, <3>2, Still DEF Flow
  <2>3. CASE e = "dialler"
    <3>1. Unread(e, 1)' = Unread(e, 1)
      BY <1>0, <2>1, <2>3, WrittenIs, Ends DEF Unread
    <3>2. Posted(Other(e), 1)' = Posted(Other(e), 1)
      BY <1>0, <2>1, <2>3 DEF Posted
    <3> QED
      BY <2>1, <3>1, <3>2, Still DEF Flow
  <2> QED
    BY <1>0, <2>2, <2>3
<1> QED
  BY <1>1, <1>2, <1>3, <1>4

LEMMA FlowAcceptor ==
  ASSUME Shaken, Steady, NEW e \in End, Accept(1) \/ AnnounceAccepted(1) \/ AcceptedWrite(1)
  PROVE  Flow(e)
<1>0. /\ TypeInv /\ Carried /\ Opening(1) /\ 1 \in Conn
      /\ socket \in [End -> [Conn -> Seq(Nat)]] /\ Hello \in Nat
      /\ (e = "acceptor" /\ Other(e) = "dialler") \/ (e = "dialler" /\ Other(e) = "acceptor")
  BY VarTypes, FirstConn, Ends DEF Shaken, Hello
<1>1. 1 \in live
  BY <1>0, OnlyOne DEF Accept, AnnounceAccepted, AcceptedWrite
<1>2. CASE Accept(1)
  <2> DEFINE w == Written("acceptor", 1, Hello)
  <2>1. /\ accept[1] = "hello" /\ Unread("acceptor", 1) # << >>
        /\ socket' = [w EXCEPT !["dialler"][1] = Tail(@)]
        /\ UNCHANGED <<rx_out, rx_accept, events, got, sent>>
    BY <1>2 DEF Accept, nodes
  <2>2. /\ Unread("acceptor", 1) \in Seq(Nat) /\ reader["acceptor"][1] = "none"
        /\ HelloFirst("acceptor", 1)
    BY <1>0, <2>1, UnreadType, Ends DEF Opening
  <2>3. Head(Unread("acceptor", 1)) = Hello
    BY <2>1, <2>2, PlainTail DEF HelloFirst
  <2>4. /\ w \in [End -> [Conn -> Seq(Nat)]]
        /\ w["acceptor"][1] = Append(socket["acceptor"][1], Hello)
        /\ w["dialler"][1] = socket["dialler"][1]
    <3>1. w \in [End -> [Conn -> Seq(Nat)]]
      BY <1>0, Ends, WrittenType
    <3>2. w["acceptor"][1] = Append(socket["acceptor"][1], Hello)
      BY <1>0, <1>1, Ends, WrittenIs
    <3>3. w["dialler"][1] = socket["dialler"][1]
      <4>1. "dialler" # "acceptor" /\ "dialler" \in End /\ "acceptor" \in End
        BY Ends
      <4> QED
        BY <1>0, <4>1, WrittenIs
    <3> QED
      BY <3>1, <3>2, <3>3
  <2> HIDE DEF w
  <2>5. /\ socket'["acceptor"][1] = Append(socket["acceptor"][1], Hello)
        /\ socket'["dialler"][1] = Tail(socket["dialler"][1])
    BY <1>0, <2>1, <2>4, Ends
  <2>6. CASE e = "acceptor"
    <3>1. Unread(e, 1)' = Tail(Unread(e, 1))
      BY <1>0, <2>5, <2>6 DEF Unread
    <3> QED
      BY <2>1, <2>3, <2>6, <3>1, Still DEF Flow
  <2>7. CASE e = "dialler"
    <3>1. Unread(e, 1)' = Append(Unread(e, 1), Hello)
      BY <1>0, <2>5, <2>7 DEF Unread
    <3> QED
      BY <2>1, <3>1, Still DEF Flow
  <2> QED
    BY <1>0, <2>6, <2>7
<1>3. CASE AnnounceAccepted(1)
  <2>1. /\ events' = Report("acceptor", Up(1))
        /\ UNCHANGED <<rx_out, rx_accept, socket, got, sent>>
    BY <1>3 DEF AnnounceAccepted, nodes, network
  <2>2. /\ Heard("acceptor")' = Append(Heard("acceptor"), Hello)
        /\ Heard("dialler")' = Heard("dialler")
    BY <1>0, <2>1, HeardReport, EventTypes, Ends DEF Up, Hello
  <2> QED
    BY <1>0, <2>1, <2>2, Still DEF Flow
<1>4. CASE AcceptedWrite(1)
  <2> DEFINE m == Head(rx_accept[1])
  <2>1. /\ rx_accept[1] # << >> /\ rx_accept'[1] = Tail(rx_accept[1]) /\ m \in Nat
        /\ socket' = Written("acceptor", 1, m)
        /\ UNCHANGED <<rx_out, events, got, sent>>
    BY <1>0, <1>4, VarTypes DEF AcceptedWrite, nodes
  <2> HIDE DEF m
  <2>2. CASE e = "dialler"
    <3>0. Unread(e, 1) = socket["acceptor"][1] /\ Unread(e, 1)' = socket'["acceptor"][1]
      BY <1>0, <2>2 DEF Unread
    <3>1. Unread(e, 1)' = Append(Unread(e, 1), m)
      BY <1>0, <1>1, <2>1, <3>0, WrittenIs, Ends
    <3>2. Posted(Other(e), 1) = rx_accept[1] /\ Posted(Other(e), 1)' = rx_accept'[1]
      BY <1>0, <2>2 DEF Posted
    <3> QED
      BY <2>1, <3>1, <3>2, Still DEF Flow, m
  <2>3. CASE e = "acceptor"
    <3>1. Unread(e, 1)' = Unread(e, 1)
      BY <1>0, <2>1, <2>3, WrittenIs, Ends DEF Unread
    <3>2. Posted(Other(e), 1)' = Posted(Other(e), 1)
      BY <1>0, <2>1, <2>3 DEF Posted
    <3> QED
      BY <2>1, <3>1, <3>2, Still DEF Flow
  <2> QED
    BY <1>0, <2>2, <2>3
<1> QED
  BY <1>2, <1>3, <1>4

LEMMA FlowRead ==
  ASSUME Shaken, Steady, NEW e \in End, NEW f \in End, Read(f, 1)
  PROVE  Flow(e)
<1> DEFINE m == Head(Unread(f, 1))
<1>1. TypeInv /\ 1 \in Conn /\ socket \in [End -> [Conn -> Seq(Nat)]]
  BY FirstConn, VarTypes DEF Shaken
<1>2. /\ Unread(f, 1) # << >> /\ socket' = [socket EXCEPT ![Other(f)][1] = Tail(@)]
      /\ events' = Report(f, Msg(1, m))
      /\ UNCHANGED <<rx_out, rx_accept, got, sent>>
  BY DEF Read, nodes
<1>3. Msg(1, m) \in Event /\ Msg(1, m).msg = m
  BY <1>1, <1>2, UnreadType, EventTypes DEF Msg
<1> HIDE DEF m
<1>4. Heard(f)' = Append(Heard(f), m) /\ \A g \in End \ {f} : Heard(g)' = Heard(g)
  BY <1>1, <1>2, <1>3, HeardReport
<1>5. CASE e = f
  <2>1. Unread(e, 1)' = Tail(Unread(e, 1))
    BY <1>1, <1>2, <1>5, Ends DEF Unread
  <2> QED
    BY <1>2, <1>4, <1>5, <2>1, Still DEF Flow, m
<1>6. CASE e # f
  <2>1. Unread(e, 1)' = Unread(e, 1)
    BY <1>1, <1>2, <1>6, Ends DEF Unread
  <2> QED
    BY <1>2, <1>4, <1>6, <2>1, Still DEF Flow
<1> QED
  BY <1>5, <1>6

LEMMA FlowHandled ==
  ASSUME Shaken, Steady, NEW e \in End, NEW f \in End,
         \/ OnNet(f) \/ RemovePeer(f)
         \/ AddPeer(f) /\ e = f
  PROVE  Flow(e) 
<1>1. TypeInv /\ Carried
  BY DEF Shaken
<1>2. /\ events[f] # << >> /\ events' = [events EXCEPT ![f] = Tail(@)]
      /\ UNCHANGED socket
  BY DEF OnNet, RemovePeer, AddPeer, NextEvent, network
<1>3. Heard(f)' = Tail(Heard(f)) /\ \A g \in End \ {f} : Heard(g)' = Heard(g)
  BY <1>1, <1>2, HeardTail
<1>4. /\ Heard(f) # << >> /\ Head(Heard(f)) = Head(events[f]).msg
      /\ Head(events[f]).type # "msg" => Head(Heard(f)) = Hello
  <2>1. /\ events[f] \in Seq(Event) /\ Marked(events[f])
        /\ Heard(f) \in Seq(Nat) /\ Len(Heard(f)) = Len(events[f])
    BY <1>1, VarTypes, HeardType DEF Carried
  <2>2. 1 \in DOMAIN events[f] /\ Head(events[f]) = events[f][1] /\ Len(events[f]) # 0
    BY <1>2, <2>1
  <2>3. Heard(f) # << >> /\ Head(Heard(f)) = Heard(f)[1]
    BY <2>1, <2>2
  <2>4. Heard(f)[1] = events[f][1].msg
    BY <2>2 DEF Heard
  <2> QED
    BY <2>1, <2>2, <2>3, <2>4 DEF Marked
<1>5. Unread(e, 1)' = Unread(e, 1)
  BY <1>2, Still
<1>6. CASE e = f /\ AddPeer(f)
  <2>1. sent'[Other(e)] = sent[Other(e)] /\ Posted(Other(e), 1)' = Posted(Other(e), 1)
    BY <1>1, <1>6, VarTypes, Ends DEF AddPeer, Post, Posted
  <2> QED
    BY <1>2, <1>3, <1>4, <1>5, <1>6, <2>1 DEF AddPeer, NextEvent, Flow
<1>7. CASE RemovePeer(f)
  <2>1. UNCHANGED <<rx_out, rx_accept, sent, got>> /\ Head(events[f]).type = "down"
    BY <1>7 DEF RemovePeer, NextEvent
  <2> QED
    BY <1>3, <1>4, <1>5, <2>1, Still DEF Flow
<1>8. CASE OnNet(f)
  <2>1. /\ UNCHANGED <<rx_out, rx_accept, sent>>
        /\ got'[f] = Append(got[f], Head(events[f]).msg)
        /\ \A g \in End \ {f} : got'[g] = got[g]
    BY <1>1, <1>8, VarTypes DEF OnNet
  <2> QED
    BY <1>3, <1>4, <1>5, <2>1, Still DEF Flow
<1> QED
  BY <1>6, <1>7, <1>8

\* A Post of the other node: its channel takes the messages.
LEMMA FlowSent ==
  ASSUME Shaken, Steady, NEW e \in End, NEW f \in End, f = Other(e), Flows(e),
         AddPeer(f) \/ Send(f)
  PROVE  Flows(e)'
<1>1. TypeInv /\ 1 \in Conn /\ Heralded /\ f # e
  BY FirstConn, Ends DEF Shaken, Steady
<1>2. PICK c \in Conn, k \in Nat : Post(f, c, k) /\ (f = "acceptor" => c = 1)
  <2>1. CASE AddPeer(f)
    <3>1. events[f] \in Seq(Event) /\ events[f] # << >>
      BY <1>1, <2>1, VarTypes DEF AddPeer, NextEvent
    <3>2. Head(events[f]) = events[f][1] /\ 1 \in DOMAIN events[f] /\ Head(events[f]) \in Event
      BY <3>1
    <3>3. Head(events[f]).conn \in Conn /\ (f = "acceptor" => Head(events[f]).conn = 1)
      BY <1>1, <3>2 DEF Heralded, Event
    <3> QED
      BY <2>1, <3>3, TransportAssumption DEF AddPeer
  <2>2. CASE Send(f)
    <3>1. peer[f] \in Conn /\ (f = "acceptor" => peer[f] = 1)
      BY <1>1, <2>2 DEF Send, Steady, TypeInv, TypeOK
    <3> QED
      BY <2>2, <3>1 DEF Send
  <2> QED
    BY <2>1, <2>2
<1>3. UNCHANGED <<got, socket>>
  BY DEF AddPeer, Send, network
<1>4. Heard(e)' = Heard(e)
  <2>1. events'[e] = events[e]
    BY <1>1, VarTypes DEF AddPeer, Send
  <2> QED
    BY <2>1 DEF Heard
<1>5. sent'[f] = sent[f] + k
  BY <1>1, <1>2, VarTypes DEF Post
<1>6. Posted(f, 1)' = Posted(f, 1) \o [i \in 1 .. k |-> sent[f] + i]
  <2>1. CASE f = "dialler"
    BY <1>2, <2>1 DEF Post, Posted
  <2>2. CASE f = "acceptor"
    <3>1. c = 1 /\ writer[c] # "done"
      BY <1>2, <2>2 DEF Steady
    <3> QED
      BY <1>1, <1>2, <2>2, <3>1, VarTypes, Ends DEF Post, Posted
  <2> QED
    BY <2>1, <2>2, Ends
<1> QED
  BY <1>1, <1>3, <1>4, <1>5, <1>6, FlowPosted, Still

LEMMA FlowsStep ==
  ASSUME Shaken, Steady, Smooth, NEW e \in End, Flows(e)
  PROVE  Flows(e)'
<1>1. TypeInv
  BY DEF Shaken
<1>2. Flow(e) => Flows(e)'
  BY <1>1, FlowKeeps
<1>3. ASSUME NEW f \in End, AddPeer(f) \/ Send(f)
      PROVE  Flows(e)'
  <2>1. CASE f = Other(e)
    BY <1>3, <2>1, FlowSent
  <2>2. CASE f = e /\ AddPeer(f)
    BY <1>2, <2>2, FlowHandled
  <2>3. CASE f = e /\ Send(f)
    <3>1. UNCHANGED <<got, events, socket>>
      BY <2>3 DEF Send, network
    <3>2. sent'[Other(e)] = sent[Other(e)] /\ Posted(Other(e), 1)' = Posted(Other(e), 1)
      BY <1>1, <2>3, VarTypes, Ends DEF Send, Post, Posted
    <3>3. Flow(e)
      BY <3>1, <3>2, Still DEF Flow
    <3> QED
      BY <1>2, <3>3
  <2> QED
    BY <1>3, <2>1, <2>2, <2>3, Ends
<1>4. CASE UNCHANGED vars
  <2>1. UNCHANGED <<got, events, socket, rx_out, rx_accept, sent>>
    BY <1>4 DEF vars, network, nodes
  <2> QED
    BY <1>2, <2>1, Still DEF Flow
<1> QED
  BY <1>2, <1>3, <1>4, FlowDialler, FlowAcceptor, FlowRead, FlowHandled, Ends DEF Smooth

Whole == Shaken /\ (faults = 0 => Steady /\ \A e \in End : Flows(e))

LEMMA WholeInit == Init => Whole
<1> SUFFICES ASSUME Init PROVE Whole
  OBVIOUS
<1>1. Steady
  BY FirstConn, Ends DEF Init, Steady, Heralded
<1>2. ASSUME NEW e \in End
      PROVE  Flows(e)
  <2>1. got[e] = << >> /\ events[e] = << >> /\ Unread(e, 1) = << >> /\ Posted(Other(e), 1) = << >>
        /\ sent[Other(e)] = 0
    BY Ends, FirstConn DEF Init, Unread, Posted
  <2>2. Heard(e) = << >>
    BY <2>1 DEF Heard
  <2>3. got[e] \o Heard(e) \o Unread(e, 1) \o Posted(Other(e), 1) = << >>
    BY <2>1, <2>2
  <2>4. InSequence(<< >>, 0)
    BY DEF InSequence
  <2> QED
    BY <2>1, <2>3, <2>4 DEF Flows, InLine
<1> QED
  BY <1>1, <1>2, ShakenInit DEF Whole

LEMMA WholeStep == Whole /\ [Next]_vars => Whole'
<1> SUFFICES ASSUME Whole, [Next]_vars PROVE Whole'
  OBVIOUS
<1>1. Shaken /\ Shaken' /\ TypeInv
  BY ShakenStep DEF Whole, Shaken
<1>2. ASSUME faults' = 0
      PROVE  Steady' /\ \A e \in End : Flows(e)'
  <2>1. Steady /\ \A e \in End : Flows(e)
    BY <1>1, <1>2, FaultsStay DEF Whole
  <2>2. Smooth
    BY <1>1, <1>2, <2>1, SmoothOnly
  <2> QED
    BY <1>1, <2>1, <2>2, SteadyStep, FlowsStep
<1> QED
  BY <1>1, <1>2 DEF Whole

\* As long as nothing fails, what a node sends is under way to the other or handled
\* there in the order of sending and without a gap (tcp.rs: one writer and one reader
\* thread for each direction, and channels between them and the nodes).
THEOREM KeepsOrder == Spec => []LinkIntact
<1>1. Whole => LinkIntact
  BY DEF Whole, LinkIntact, Flows, InLine
<1> QED
  BY <1>1, WholeInit, WholeStep, PTL DEF Spec

-----------------------------------------------------------------------------
(* Transport implements Link. *)

\* The first l of the messages in order are the numbers up to l.
Numbered(s) == \A i \in DOMAIN s : s[i] = i

\* What w begins with
Begins(a, w) == \A i \in 1 .. Len(a) : i \in DOMAIN w /\ w[i] = a[i]

LEMMA BeginsConcat ==
  ASSUME NEW a \in Seq(Nat), NEW s \in Seq(Nat), NEW t \in Seq(Nat), Begins(a, s)
  PROVE  s \o t \in Seq(Nat) /\ Begins(a, s \o t)
<1>1. s \o t \in Seq(Nat) /\ Len(s \o t) = Len(s) + Len(t) /\ Len(s) \in Nat /\ Len(t) \in Nat
  OBVIOUS
<1>2. \A i \in 1 .. Len(s) : i \in DOMAIN (s \o t) /\ (s \o t)[i] = s[i]
  BY <1>1
<1>3. DOMAIN s = 1 .. Len(s)
  OBVIOUS
<1> QED
  BY <1>1, <1>2, <1>3 DEF Begins

LEMMA NextInTurn ==
  ASSUME NEW w, NEW n \in Nat, InSequence(w, n),
         NEW l \in Nat, \A i \in 1 .. l : i \in DOMAIN w /\ w[i] = i,
         NEW m, l + 1 \in DOMAIN w, w[l + 1] = m, m # Hello, \A i \in DOMAIN w : i \in Nat /\ i # 0
  PROVE  m = l + 1 /\ m \in 1 .. n
<1> DEFINE P == {i \in DOMAIN w : w[i] # Hello}
<1>1. (\A i, j \in P : i < j => w[i] < w[j]) /\ {w[i] : i \in P} = 1 .. n
  BY DEF InSequence
<1>2. l + 1 \in P /\ m \in 1 .. n
  BY <1>1
<1>3. m >= l + 1
  <2>1. CASE l = 0
    BY <1>2, <2>1
  <2>2. CASE l # 0
    <3>1. l \in 1 .. l /\ l < l + 1
      BY <2>2
    <3>2. l \in P /\ w[l] = l
      BY <2>2, <3>1 DEF Hello
    <3>3. w[l] < w[l + 1]
      BY <1>1, <1>2, <3>1, <3>2
    <3> QED
      BY <1>2, <3>2, <3>3
  <2> QED
    BY <2>1, <2>2
<1>4. PICK j \in P : w[j] = l + 1
  <2>1. l + 1 \in 1 .. n
    BY <1>2, <1>3
  <2> QED
    BY <1>1, <2>1
<1>5. j \in Nat /\ j # 0
  OBVIOUS
<1>6. ~(j <= l)
  <2>1. j <= l => w[j] = j
    BY <1>5
  <2> QED
    BY <1>4, <1>5, <2>1
<1>7. ~(l + 1 < j)
  <2>1. l + 1 < j => m < l + 1
    BY <1>1, <1>2, <1>4
  <2> QED
    BY <1>2, <1>3, <2>1
<1>8. j = l + 1
  BY <1>5, <1>6, <1>7
<1> QED
  BY <1>2, <1>4, <1>8

\* A step that handles a message, or sends some, or does neither
Handles(e) ==
  \E m \in Nat \ {Hello} : got' = [got EXCEPT ![e] = Append(@, m)] /\ UNCHANGED <<sent, faults>>

Sends(e) ==
  \E k \in Nat : sent' = [sent EXCEPT ![e] = @ + k] /\ UNCHANGED <<got, faults>>

Neither == UNCHANGED <<sent, got>> /\ faults' \in {faults, faults + 1}

LEMMA LinkSteps ==
  ASSUME Shaken, [Next]_vars
  PROVE  Neither \/ \E e \in End : Handles(e) \/ Sends(e)
<1>0. TypeInv /\ Carried
  BY DEF Shaken
<1>1. CASE Dialler
  BY <1>1 DEF Dialler, Dial, ReadAck, AckFails, Announce, Write, WriteFails, WriteError,
              ReadError, AckRejected, TimesOut, nodes, Neither
<1>2. ASSUME NEW c \in Conn, Acceptor(c) \/ AcceptedWriter(c) \/ Fail(c)
      PROVE  Neither
  BY <1>2 DEF Acceptor, Accept, AcceptFails, AnnounceAccepted, AcceptedWriter, AcceptedWrite,
       AcceptedWriteFails, AcceptedWriteEnds, Fail, WriteError, ReadError, TimesOut, nodes, Neither
<1>3. ASSUME NEW e \in End, RemovePeer(e) \/ \E c \in Conn : Reader(e, c)
      PROVE  Neither
  BY <1>3 DEF RemovePeer, Reader, Read, ReadFails, nodes, Neither
<1>4. ASSUME NEW e \in End, AddPeer(e) \/ Send(e)
      PROVE  Sends(e)
  BY <1>4, TransportAssumption DEF AddPeer, Send, Post, Sends
<1>5. ASSUME NEW e \in End, OnNet(e)
      PROVE  Handles(e)
  <2>1. /\ events[e] # << >> /\ Head(events[e]).type = "msg"
        /\ got' = [got EXCEPT ![e] = Append(@, Head(events[e]).msg)]
        /\ UNCHANGED <<sent, faults>>
    BY <1>5 DEF OnNet, NextEvent
  <2>2. events[e] \in Seq(Event) /\ Marked(events[e])
    BY <1>0, VarTypes DEF Carried
  <2>3. Head(events[e]) = events[e][1] /\ 1 \in DOMAIN events[e] /\ events[e][1] \in Event
    BY <2>1, <2>2
  <2>4. Head(events[e]).msg \in Nat \ {Hello}
    BY <2>1, <2>2, <2>3 DEF Marked, Event
  <2> QED
    BY <2>1, <2>4 DEF Handles
<1>6. CASE UNCHANGED vars
  BY <1>6 DEF vars, nodes, Neither
<1> QED
  BY <1>1, <1>2, <1>3, <1>4, <1>5, <1>6 DEF Next, Handle

\* As long as nothing fails, what a node has handled are the first messages.
InTurns == faults = 0 => \A e \in End : Numbered(got[e])

\* What the invariants say of the messages that e has handled
Sound(e) ==
  /\ got[e] \in Seq(Nat)
  /\ \A i \in DOMAIN got[e] : got[e][i] <= sent[Other(e)]
  /\ \A i, j \in DOMAIN got[e] : got[e][i] = got[e][j] => i = j
  /\ faults = 0 => \E w \in Seq(Nat) : InSequence(w, sent[Other(e)]) /\ Begins(got[e], w)

LEMMA SoundIs ==
  ASSUME NEW e \in End
  PROVE  Whole /\ AllOnce => Sound(e)
<1> SUFFICES ASSUME Whole, AllOnce PROVE Sound(e)
  OBVIOUS
<1>1. Shaken /\ TypeInv /\ Carried
  BY DEF Whole, Shaken
<1>2. BoxesTyped(e) /\ Once(e) /\ <<"got", 0>> \in Box(e)
  BY <1>1, BoxesType, BoxIs DEF AllOnce
<1>3. Boxes(e)[<<"got", 0>>] = got[e]
  BY <1>2, HeldIs DEF BoxesTyped
<1>4. \A i \in DOMAIN got[e] : got[e][i] <= sent[Other(e)]
  BY <1>2, <1>3 DEF Once, Sole
<1>5. ASSUME NEW i \in DOMAIN got[e], NEW j \in DOMAIN got[e], got[e][i] = got[e][j]
      PROVE  i = j
  <2>1. got[e][i] # Hello
    BY <1>1 DEF Carried, Plain
  <2>2. Single(Boxes(e), <<"got", 0>>, i, <<"got", 0>>, j)
    BY <1>2, <1>3 DEF Once, Sole
  <2> QED
    BY <1>3, <1>5, <2>1, <2>2 DEF Single
<1>6. ASSUME faults = 0
      PROVE  \E w \in Seq(Nat) : InSequence(w, sent[Other(e)]) /\ Begins(got[e], w)
  <2>1. PICK a, b, c, d : a = got[e] /\ b = Heard(e) /\ c = Unread(e, 1) /\ d = Posted(Other(e), 1)
    OBVIOUS
  <2>2. a \in Seq(Nat) /\ b \in Seq(Nat) /\ c \in Seq(Nat) /\ d \in Seq(Nat)
    BY <1>1, <2>1, LineType
  <2>3. InSequence(a \o b \o c \o d, sent[Other(e)])
    BY <1>6, <2>1 DEF Whole, Flows, InLine
  <2>4. Begins(a, a)
    BY <2>2 DEF Begins
  <2>5. a \o b \in Seq(Nat) /\ Begins(a, a \o b)
    BY <2>2, <2>4, BeginsConcat
  <2>6. a \o b \o c \in Seq(Nat) /\ Begins(a, a \o b \o c)
    BY <2>2, <2>5, BeginsConcat
  <2>7. a \o b \o c \o d \in Seq(Nat) /\ Begins(a, a \o b \o c \o d)
    BY <2>2, <2>6, BeginsConcat
  <2> QED
    BY <2>1, <2>3, <2>7
<1>7. got[e] \in Seq(Nat)
  BY <1>1, LineType
<1> QED
  BY <1>4, <1>5, <1>6, <1>7 DEF Sound

LEMMA SoundNext ==
  ASSUME NEW e \in End
  PROVE  Whole' /\ AllOnce' => Sound(e)'
<1>1. Whole /\ AllOnce => Sound(e)
  BY SoundIs
<1> QED
  BY <1>1, PTL

\* What is handled now
LEMMA Handled ==
  ASSUME TypeInv, Whole', AllOnce', InTurns, NEW e \in End, NEW m \in Nat \ {Hello},
         got' = [got EXCEPT ![e] = Append(@, m)], UNCHANGED <<sent, faults>>
  PROVE  /\ m \in 1 .. sent[Other(e)]
         /\ \A i \in DOMAIN got[e] : got[e][i] # m
         /\ faults = 0 => m = Len(got[e]) + 1
<1>1. PICK l, n, g, h : l = Len(got[e]) /\ n = sent[Other(e)] /\ g = got[e] /\ h = got'[e]
  OBVIOUS
<1>2. g \in Seq(Nat) /\ l \in Nat /\ n \in Nat /\ DOMAIN g = 1 .. l /\ l = Len(g)
  BY <1>1, VarTypes, Ends
<1>3. /\ h \in Seq(Nat) /\ DOMAIN h = 1 .. l + 1 /\ Len(h) = l + 1
      /\ h[l + 1] = m /\ \A i \in 1 .. l : h[i] = g[i]
  <2>1. h = Append(g, m)
    BY <1>1, VarTypes
  <2> QED
    BY <1>2, <2>1, AppendIs
<1>4. /\ \A i \in DOMAIN h : h[i] <= n
      /\ \A i, j \in DOMAIN h : h[i] = h[j] => i = j
      /\ faults = 0 => \E w \in Seq(Nat) : InSequence(w, n) /\ Begins(h, w)
  BY <1>1, SoundNext DEF Sound
<1>5. m \in 1 .. n
  <2>1. l + 1 \in DOMAIN h
    BY <1>2, <1>3
  <2> QED
    BY <1>2, <1>3, <1>4, <2>1 DEF Hello
<1>6. ASSUME NEW i \in DOMAIN g, g[i] = m PROVE FALSE
  <2>1. i \in DOMAIN h /\ l + 1 \in DOMAIN h /\ i # l + 1 /\ h[i] = h[l + 1]
    BY <1>2, <1>3, <1>6
  <2> QED
    BY <1>4, <2>1
<1>7. ASSUME faults = 0
      PROVE  m = l + 1
  <2>1. \A i \in 1 .. l : g[i] = i
    BY <1>1, <1>2, <1>7 DEF InTurns, Numbered
  <2>2. PICK w \in Seq(Nat) : InSequence(w, n) /\ Begins(h, w)
    BY <1>4, <1>7
  <2>3. \A i \in 1 .. l + 1 : i \in DOMAIN w /\ w[i] = h[i]
    BY <1>3, <2>2 DEF Begins
  <2>4. l + 1 \in DOMAIN w /\ w[l + 1] = m
    BY <1>2, <1>3, <2>3
  <2>5. \A i \in 1 .. l : i \in DOMAIN w /\ w[i] = i
    <3>1. \A i \in 1 .. l : i \in 1 .. l + 1
      BY <1>2
    <3> QED
      BY <1>3, <2>1, <2>3, <3>1
  <2>6. \A i \in DOMAIN w : i \in Nat /\ i # 0
    OBVIOUS
  <2> QED
    BY <1>2, <2>2, <2>4, <2>5, <2>6, NextInTurn
<1> QED
  BY <1>1, <1>5, <1>6, <1>7

LEMMA TurnsKept ==
  ASSUME Shaken, AllOnce', Whole', InTurns, [Next]_vars
  PROVE  InTurns'
<1> SUFFICES ASSUME faults' = 0 PROVE \A e \in End : Numbered(got'[e])
  BY DEF InTurns
<1>1. TypeInv /\ faults = 0
  BY FaultsStay DEF Shaken
<1>2. CASE UNCHANGED got
  BY <1>1, <1>2 DEF InTurns
<1>3. ASSUME NEW e \in End, Handles(e)
      PROVE  \A d \in End : Numbered(got'[d])
  <2>1. PICK m \in Nat \ {Hello} :
          got' = [got EXCEPT ![e] = Append(@, m)] /\ UNCHANGED <<sent, faults>>
    BY <1>3 DEF Handles
  <2>2. m = Len(got[e]) + 1
    BY <1>1, <2>1, Handled
  <2>3. got[e] \in Seq(Nat) /\ got \in [End -> Seq(Nat)] /\ Numbered(got[e])
    BY <1>1, VarTypes DEF InTurns
  <2>4. Numbered(Append(got[e], m))
    BY <2>2, <2>3, AppendIs DEF Numbered
  <2>5. ASSUME NEW d \in End PROVE Numbered(got'[d])
    <3>1. got'[d] = IF d = e THEN Append(got[e], m) ELSE got[d]
      BY <2>1, <2>3
    <3> QED
      BY <1>1, <2>4, <3>1 DEF InTurns
  <2> QED
    BY <2>5
<1> QED
  BY <1>2, <1>3, LinkSteps DEF Neither, Sends

Linked == Whole /\ AllOnce /\ InTurns

LEMMA LinkStep ==
  ASSUME Linked, Linked', [Next]_vars
  PROVE  [Promise!Next]_Promise!vars
<1>0. Shaken /\ TypeInv
  BY DEF Linked, Whole, Shaken
<1>1. CASE Neither
  <2>1. faults \in Nat
    BY <1>0 DEF TypeInv, TypeOK
  <2>2. CASE (faults' > 0) = (faults > 0)
    BY <1>1, <2>2 DEF Neither, Promise!vars
  <2>3. CASE (faults' > 0) # (faults > 0)
    <3>1. ~(faults > 0) /\ (faults' > 0) = TRUE
      BY <1>1, <2>1, <2>3 DEF Neither
    <3>2. Promise!Fail
      BY <1>1, <3>1 DEF Neither, Promise!Fail
    <3> QED
      BY <3>2 DEF Promise!Next
  <2> QED
    BY <2>2, <2>3
<1>2. ASSUME NEW e \in End, Sends(e)
      PROVE  [Promise!Next]_Promise!vars
  <2>1. PICK k \in Nat : sent' = [sent EXCEPT ![e] = @ + k] /\ UNCHANGED <<got, faults>>
    BY <1>2 DEF Sends
  <2>2. sent \in [End -> Nat]
    BY <1>0, VarTypes
  <2>3. CASE k = 0
    <3>1. sent' = sent
      BY <2>1, <2>2, <2>3
    <3> QED
      BY <2>1, <3>1 DEF Promise!vars
  <2>4. CASE k # 0
    <3>1. sent'[e] = sent[e] + k /\ sent'[e] > sent[e]
      BY <2>1, <2>2, <2>4
    <3>2. sent' = [sent EXCEPT ![e] = sent'[e]]
      BY <2>1, <3>1
    <3>3. Promise!Send(e)
      BY <2>1, <3>1, <3>2 DEF Promise!Send
    <3> QED
      BY <3>3 DEF Promise!Next
  <2> QED
    BY <2>3, <2>4
<1>3. ASSUME NEW e \in End, Handles(e)
      PROVE  Promise!Next
  <2>1. PICK m \in Nat \ {Hello} :
          got' = [got EXCEPT ![e] = Append(@, m)] /\ UNCHANGED <<sent, faults>>
    BY <1>3 DEF Handles
  <2>2. /\ m \in 1 .. sent[Other(e)]
        /\ \A i \in DOMAIN got[e] : got[e][i] # m
        /\ faults = 0 => m = Len(got[e]) + 1
    BY <1>0, <2>1, Handled DEF Linked
  <2>3. faults = 0 \/ faults > 0
    BY <1>0 DEF TypeInv, TypeOK
  <2>4. Promise!Handle(e, m)
    BY <2>1, <2>2, <2>3 DEF Promise!Handle
  <2> QED
    BY <2>2, <2>4 DEF Promise!Next
<1> QED
  BY <1>0, <1>1, <1>2, <1>3, LinkSteps

\* A pair of ends (connect_peer, spawn_tcp_listener, spawn_peer_io and the nodes above)
\* implements Link: every step of a thread is one of the link's, or none.
THEOREM TransportIsLink == Spec => LinkSpec
<1>1. Init => Promise!Init
  BY DEF Init, Promise!Init
<1>2. Init => Linked
  <2>1. Init => InTurns
    BY DEF Init, InTurns, Numbered
  <2> QED
    BY <2>1, WholeInit, OnceInit DEF Linked
<1>3. Linked /\ [Next]_vars => Linked'
  <2> SUFFICES ASSUME Linked, [Next]_vars PROVE Linked'
    OBVIOUS
  <2>1. Whole' /\ Shaken /\ TypeInv
    BY WholeStep DEF Linked, Whole, Shaken
  <2>2. AllOnce'
    BY <2>1, OnceStep DEF Linked
  <2> QED
    BY <2>1, <2>2, TurnsKept DEF Linked
<1>4. Linked /\ Linked' /\ [Next]_vars => [Promise!Next]_Promise!vars
  BY LinkStep
<1> QED
  BY <1>1, <1>2, <1>3, <1>4, PTL DEF Spec, LinkSpec, Promise!Spec

=============================================================================
