SPECIFICATION FairSpec
CONSTANTS
  Configs <- TreeConfigs
  MaxProcs = 7
  MaxTime = 3
INVARIANTS RestartIsClean BudgetExact
PROPERTIES ChildIsReplaced NoOrphans OwnerExitHeeded
CHECK_DEADLOCK FALSE
