SPECIFICATION FairSpec
CONSTANTS
  MaxProcs = 4
  MaxTimers = 2
  Budgets <- LifeBudgets
INVARIANTS TimersFireOnce LineIsTrue ShutdownMissesNone
PROPERTIES CensusSettles
CHECK_DEADLOCK FALSE
