SPECIFICATION FairSpec
CONSTANTS
  p1 = p1
  p2 = p2
  Device <- MCDevices
  PerDevice = 1
INVARIANTS
  SleepsWithoutRequests
PROPERTIES
  RequestsAreServed
CHECK_DEADLOCK FALSE
