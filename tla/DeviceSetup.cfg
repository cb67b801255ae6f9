CONSTANTS
  Devices <- MCDevices
  MaxDescriptors = 8
  MaxWiped <- MCMaxWiped
  ResetTime = 3
SPECIFICATION FairSpec
INVARIANTS
  InfoMatchesDevice
  ConfiguresChosen
  PowerGoodFirst
PROPERTIES
  SetupEnds
CHECK_DEADLOCK FALSE
