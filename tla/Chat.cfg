SPECIFICATION Spec
CONSTANTS
  MaxCalls = 2
  MaxNoise = 1
  MAX_MEMPOOL = 2
  MAX_SEEN = 2
INVARIANTS TypeOK IdsDistinct PairsMatch ConfirmedStays FreshReply
CHECK_DEADLOCK FALSE
