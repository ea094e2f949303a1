SPECIFICATION Spec
CONSTANTS
  Conns = {"a", "b"}
  Cap = 1
  OutCap = 1
  MaxSize = 2
  Scripts <- ClientScripts
  Budgets <- SocketBudgets
INVARIANTS CapBoundsConnections
CHECK_DEADLOCK FALSE
