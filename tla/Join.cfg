SPECIFICATION FairLateSpec
CONSTANTS
  n1 = n1  n2 = n2  n3 = n3  t1 = t1  t2 = t2  t3 = t3
  Node = {n1, n2, n3}
  Trx = {t1, t2, t3}
  None = None
  Validators <- TwoValidators
  Origin <- OriginLate
  Dial <- Line
  SYNC_LIMIT = 1
  MAX_TRX_PER_BLOCK = 1
  MAX_MEMPOOL = 3
  MAX_SEEN = 3
  MAX_ORPHANS_TOTAL = 3
  MAX_ORPHANS_PER_PREV = 2
  MAX_SEEN_BLOCKS = 9
  MaxHeight = 3
  MaxRound = 0
  MaxBreaks = 0
  MaxBoots <- NoRestart
INVARIANTS ConfirmedOnce
PROPERTIES EveryTrxConfirmed EveryoneCatchesUp SyncEnds
CHECK_DEADLOCK FALSE
