SPECIFICATION PortFairSpec
CONSTANTS
  SameCore = TRUE
  Raised = {"usb_int", "port_change_detect"}
  Port = {p1}
  MaxChanges = 3
INVARIANTS
  NoEventDropped
  FlagsAreAttended
PROPERTIES
  EventReachesRunner
  ConnectIsNoticed
