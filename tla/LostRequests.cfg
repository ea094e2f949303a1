SPECIFICATION FairSpec
CONSTANTS
  Nodes = {"a", "b"}
  Names = {"x"}
  MaxConns = 2
  MaxRegs = 2
  MaxRequests = 2
  Budgets <- LossBudgets
PROPERTIES LostRequestsFail
CHECK_DEADLOCK FALSE
