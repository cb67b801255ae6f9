SPECIFICATION FairSpec
CONSTANTS
  MaxBuffers = 3
  Sizes = {2, 3, 4}
  MaxPacket = 2
  MaxTransfers = 2
INVARIANTS
  ReturnsBytesRead
  QtdsAreFree
PROPERTIES
  EveryTransferReturns
CHECK_DEADLOCK FALSE
