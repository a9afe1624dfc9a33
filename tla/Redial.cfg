SPECIFICATION FairSpec
CONSTANTS
  MaxFaults = 1
  GREETINGS = 1
  MaxSends = 2
PROPERTIES Redials
CHECK_DEADLOCK FALSE
