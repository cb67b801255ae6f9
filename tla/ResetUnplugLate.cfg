SPECIFICATION FairSpec
CONSTANTS
  NPorts = 2
  MaxAddr = 2
  MaxCalls = 2
  Faults = {"unplug", "unplug_late"}
  MaxFaults = 1
PROPERTIES
  ResetAlwaysReturns
