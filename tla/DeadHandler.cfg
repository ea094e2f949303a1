SPECIFICATION FairSpec
CONSTANTS
  Conns = {"a"}
  Cap = 1
  OutCap = 1
  MaxSize = 2
  Scripts <- ClientScripts
  Budgets <- CrashBudgets
PROPERTIES WriterFollowsHandler
CHECK_DEADLOCK FALSE
