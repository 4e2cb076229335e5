SPECIFICATION FairSpec
CONSTANTS
  OrderLen = 3
  MaxOrders = 4
  MaxFaults = 4
  MaxFds = 3
INVARIANTS
  StreamHasNoGap
PROPERTY EverythingSent
