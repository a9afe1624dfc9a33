------------------------------- MODULE Ledger --------------------------------
(***************************************************************************)
(* What the network of nodes promises to whoever reads a chain, without    *)
(* messages, pools, orphans, rounds or connections.  A chain only grows at *)
(* its tip, by a block that is valid there and that a validator signed.    *)
(* While its process runs, a validator signs only above what it signed     *)
(* before, and has itself what it signs.  Nothing but the start of its     *)
(* process makes a node forget its chain.                                  *)
(***************************************************************************)
EXTENDS Integers, Sequences

CONSTANTS Node,          \* the processes
          Genesis,       \* the block every chain starts with
          Valid(_, _)    \* Valid(prev, b): b may follow prev on a chain

VARIABLES chain,   \* the chain of each node
          signed,  \* every block that was ever signed
          start    \* how often each node was started

vars == <<chain, signed, start>>

Init ==
  /\ chain = [n \in Node |-> <<Genesis>>]
  /\ signed = {}
  /\ start = [n \in Node |-> 1]

Grow(n, b) ==
  /\ Valid(chain[n][Len(chain[n])], b)
  /\ chain' = [chain EXCEPT ![n] = Append(@, b)]

\* n signs b in its present start, above all it signed since then, and takes it.
Sign(n, b) ==
  /\ b.signature = n /\ b.timestamp = start[n]
  /\ \A c \in signed :
       c.signature = n /\ c.timestamp = start[n] => c.index < b.index
  /\ signed' = signed \cup {b}
  /\ Grow(n, b)
  /\ UNCHANGED start

\* n takes a block that was signed.
Adopt(n, b) ==
  /\ Grow(n, b)
  /\ UNCHANGED <<signed, start>>

\* The process of n is started again.
Forget(n) ==
  /\ chain' = [chain EXCEPT ![n] = <<Genesis>>]
  /\ start' = [start EXCEPT ![n] = @ + 1]
  /\ UNCHANGED signed

Next ==
  \E n \in Node :
    \/ \E b \in signed' : Sign(n, b)
    \/ \E b \in signed : Adopt(n, b)
    \/ Forget(n)

Spec == Init /\ [][Next]_vars

=============================================================================
