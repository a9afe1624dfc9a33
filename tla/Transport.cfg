SPECIFICATION FairSpec
CONSTANTS
  MaxFaults = 1
  GREETINGS = 1
  MaxSends = 2
INVARIANTS TypeOK DisconnectOnce DeliveredOnce LinkIntact
PROPERTIES DialledRemovesDead DialSucceeds Arrives LinkSpec
CHECK_DEADLOCK FALSE
