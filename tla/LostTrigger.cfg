SPECIFICATION FairSpec
CONSTANTS
  Configs <- RestForOneConfigs
  MaxProcs = 9
  MaxTime = 0
PROPERTIES TriggerHandledNextLoop
CHECK_DEADLOCK FALSE
