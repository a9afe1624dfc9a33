SPECIFICATION PooledSpec
CONSTANTS
  n1 = n1  n2 = n2  n3 = n3  t1 = t1  t2 = t2  t3 = t3
  Node = {n1, n2}
  Trx = {t1, t2}
  None = None
  Validators <- TwoValidators
  Origin <- OriginSecond
  Dial <- SecondDials
  SYNC_LIMIT = 2
  MAX_TRX_PER_BLOCK = 1
  MAX_MEMPOOL = 3
  MAX_SEEN = 3
  MAX_ORPHANS_TOTAL = 3
  MAX_ORPHANS_PER_PREV = 2
  MAX_SEEN_BLOCKS = 9
  MaxHeight = 2
  MaxRound = 1
  MaxBreaks = 0
  MaxBoots <- FirstRestarts
INVARIANTS NoEquivocation ForkNeedsRoundDrift
PROPERTIES LedgerSpec
CHECK_DEADLOCK FALSE
