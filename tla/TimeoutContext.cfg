SPECIFICATION Spec
CONSTANTS
  Clients = {"c", "d"}
  Services = {"s", "t"}
  Callees <- CalleesOf
  MaxCalls = 5
  Budgets <- TimeoutBudgets
INVARIANTS ContextOfHandled
CHECK_DEADLOCK FALSE
