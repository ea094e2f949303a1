SPECIFICATION FairSpec
CONSTANTS
  MaxProcs = 4
  MaxTimers = 2
  Budgets <- LifeBudgets
PROPERTIES ShutdownDrains
CHECK_DEADLOCK FALSE
