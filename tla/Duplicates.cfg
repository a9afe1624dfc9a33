SPECIFICATION Spec
CONSTANTS
  n1 = n1  n2 = n2  n3 = n3  t1 = t1  t2 = t2  t3 = t3
  Node = {n1, n2}
  Trx = {t1, t2}
  None = None
  Validators <- TwoValidators
  Origin <- OriginEach
  Dial <- OneDials
  SYNC_LIMIT = 2
  MAX_TRX_PER_BLOCK = 1
  MAX_MEMPOOL = 3
  MAX_SEEN = 3
  MAX_ORPHANS_TOTAL = 3
  MAX_ORPHANS_PER_PREV = 2
  MAX_SEEN_BLOCKS = 9
  MaxHeight = 3
  MaxRound = 1
  MaxBreaks = 0
  MaxBoots <- NoRestart
INVARIANTS ConfirmedOnce
CHECK_DEADLOCK FALSE
