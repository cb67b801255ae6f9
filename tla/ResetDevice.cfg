SPECIFICATION FairSpec
CONSTANTS
  NPorts = 2
  MaxAddr = 2
  MaxCalls = 3
  Faults = {"unplug", "unplug_late", "stall", "slow_switch", "cancel"}
  MaxFaults = 1
INVARIANTS
  UniqueAddresses
  DeviceHasItsAddress
  QhReturnedBeforeAnswer
  AddressHandedOutOnce
PROPERTIES
  AnswersOwnRequest
  ResetReturns
