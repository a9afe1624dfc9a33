SPECIFICATION Spec
CONSTANTS
  t1 = t1  t2 = t2  t3 = t3  t4 = t4
  Trx = {t1, t2, t3, t4}
  MAX_MEMPOOL = 3
  MAX_SEEN = 3
  MaxAccepted = 8
INVARIANTS SeenIsWindow NoEarlyRepeat QueueInOrder RootIsTree RootCommits
CHECK_DEADLOCK FALSE
