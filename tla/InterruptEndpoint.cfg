SPECIFICATION FairSpec
CONSTANTS
  MaxQtds = 3
  Page = 4
  MaxPackets = 7
INVARIANTS
  HcStaysInRing
  RingHoldsUnread
  PresentsThePacket
PROPERTIES
  PacketIsPresented
CHECK_DEADLOCK FALSE
