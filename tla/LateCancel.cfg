SPECIFICATION Spec
CONSTANTS
  MaxProcs = 4
  MaxTimers = 2
  Budgets <- LifeBudgets
INVARIANTS CancelTold
CHECK_DEADLOCK FALSE
