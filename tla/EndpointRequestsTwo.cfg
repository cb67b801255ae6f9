SPECIFICATION FairSpec
CONSTANTS
  p1 = p1
  p2 = p2
  Device <- MCOneDevice
  PerDevice = 2
PROPERTIES
  WatchIsServed
CHECK_DEADLOCK FALSE
