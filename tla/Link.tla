-------------------------------- MODULE Link ---------------------------------
(***************************************************************************)
(* What a pair of connected peers promises to the two nodes above it,      *)
(* without streams, handshakes, threads, channels or reports.  The         *)
(* messages of a node are their numbers.  A message is handled at most     *)
(* once and never before it is sent; until the first failure it is handled *)
(* in its turn, and none is left out.                                      *)
(***************************************************************************)
EXTENDS Integers, Sequences

CONSTANTS End,       \* the two nodes
          Other(_)   \* Other(e): the one that e is connected with

VARIABLES sent,    \* how many messages each node has sent
          got,     \* the messages that each node has handled, in order
          failed   \* whether a connection, a read or a write has failed

vars == <<sent, got, failed>>

Init ==
  /\ sent = [e \in End |-> 0]
  /\ got = [e \in End |-> << >>]
  /\ failed = FALSE

\* One message or several, such as the greetings of a new peer
Send(e) ==
  /\ sent'[e] > sent[e]
  /\ sent' = [sent EXCEPT ![e] = sent'[e]]
  /\ UNCHANGED <<got, failed>>

Handle(e, m) ==
  /\ \A i \in DOMAIN got[e] : got[e][i] # m
  /\ failed \/ m = Len(got[e]) + 1
  /\ got' = [got EXCEPT ![e] = Append(@, m)]
  /\ UNCHANGED <<sent, failed>>

Fail == ~failed /\ failed' = TRUE /\ UNCHANGED <<sent, got>>

Next ==
  \/ \E e \in End : Send(e) \/ \E m \in 1 .. sent[Other(e)] : Handle(e, m)
  \/ Fail

Spec == Init /\ [][Next]_vars

=============================================================================
