SPECIFICATION FairSpec
CONSTANTS
  Clients = {"c", "d"}
  Services = {"s", "t"}
  Callees <- CalleesOf
  MaxCalls = 5
  Budgets <- RpcBudgets
INVARIANTS OwnAnswer ServedInOrder CallbacksBelongToCall ContextFollowsRequest
PROPERTIES CallsEnd
CHECK_DEADLOCK FALSE
