SPECIFICATION BootFairSpec
CONSTANTS
  Offset = {104, 112}
  MaxCapabilities = 2
  Timeout = 3
  Interval = 2
  Late = 1
  MaxStarts = 2
INVARIANTS
  OsDrivesAlone
  SchedulesAreReady
  RunningIsOperational
PROPERTIES
  OwnershipIsTaken
  TimeoutIsOnTime
  StartAnswered
CHECK_DEADLOCK FALSE
