SPECIFICATION FairSpec
CONSTANTS
  Configs <- OwnedConfigs
  MaxProcs = 4
  MaxTime = 0
PROPERTIES OwnerDeathTearsDown
CHECK_DEADLOCK FALSE
