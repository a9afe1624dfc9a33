------------------------------- MODULE MCB4n --------------------------------
(* Values of the constants of B4n for TLC. *)
EXTENDS B4n

CONSTANTS n1, n2, n3, t1, t2, t3

TwoValidators == <<n1, n2>>
OneValidator == <<n1>>
OneDials == {<<n1, n2>>}
SecondDials == {<<n2, n1>>}
Line == {<<n1, n2>>, <<n2, n3>>}
Mesh == {<<n1, n2>>, <<n2, n3>>, <<n3, n1>>}

NoRestart == [n \in Node |-> 1]
FirstRestarts == [n \in Node |-> IF n = n1 THEN 2 ELSE 1]

OriginFirst == [t \in Trx |-> n1]
OriginLate == [t \in Trx |-> IF t = t3 THEN n3 ELSE n1]
OriginSecond == [t \in Trx |-> n2]
OriginEach == [t \in Trx |-> IF t = t1 THEN n1 ELSE n2]

-----------------------------------------------------------------------------
(* A first transaction.  n2 has got t2, n1 has it from n2, and nothing else  *)
(* has happened since they were connected.                                   *)

PooledInit ==
  LET Each(x) == [n \in Node |-> x]
  IN  /\ pool = Each([queue |-> <<t2>>, seen |-> {t2}, seen_order |-> <<t2>>])
      /\ issued = [n \in Node |-> {t2} \cap {t \in Trx : Origin[t] = n}]
      /\ peers = [n \in Node |-> {p \in Node : <<n, p>> \in Dial \/ <<p, n>> \in Dial}]
      /\ conn = Dial /\ link = Each(Each(<< >>))
      /\ chain = Each(<<Genesis>>) /\ round = Each(0) /\ seen_blocks = Each(<< >>)
      /\ orphans = Each(<< >>) /\ orphans_total = Each(0)
      /\ sync = Each(NoSync) /\ task = Each(NoTask) /\ signed = {}
      /\ up = Each(Each(0)) /\ down = Each(Each(0))
      /\ breaks = 0 /\ boot = Each(1)

PooledSpec == PooledInit /\ [][Next]_vars

-----------------------------------------------------------------------------
(* A latecomer.  n1 has proposed its first block and n2 has it, t2 waits in  *)
(* both pools, and n3 has just joined the nodes it has a connection with:    *)
(* their statuses are on the way to n3.  Everything before this state is     *)
(* quiet, so that the two validators may fork the next height before n3      *)
(* knows the first block.                                                    *)

FirstBlock == BuildBlock(n1, Genesis, <<t1>>, 0, 1)

LateInit ==
  LET Others(x, late) == [n \in Node |-> IF n = n3 THEN late ELSE x]
      Each(x) == [n \in Node |-> x]
      Statuses == <<GetStatus, Status(1), Status(1)>>
  IN  /\ chain = Others(<<Genesis, FirstBlock>>, <<Genesis>>)
      /\ pool = Others([queue |-> <<t2>>, seen |-> {t1, t2}, seen_order |-> <<t1, t2>>],
                       EmptyPool)
      /\ seen_blocks = Others(<<Hash(FirstBlock)>>, << >>)
      /\ peers = [n \in Node |-> {p \in Node : <<n, p>> \in Dial \/ <<p, n>> \in Dial}]
      /\ link = [n \in Node |-> [p \in Node |->
                   IF p = n3 /\ n \in peers[n3] THEN Statuses ELSE << >>]]
      /\ issued = [n \in Node |-> {t1, t2} \cap {t \in Trx : Origin[t] = n}]
      /\ signed = {FirstBlock}
      /\ conn = Dial
      /\ round = Each(0) /\ sync = Each(NoSync) /\ task = Each(NoTask)
      /\ orphans = Each(<< >>) /\ orphans_total = Each(0)
      /\ up = Each(Each(0)) /\ down = Each(Each(0))
      /\ breaks = 0 /\ boot = Each(1)

LateSpec == LateInit /\ [][Next]_vars

FairLateSpec == LateSpec /\ Fairness

=============================================================================
