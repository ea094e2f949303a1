SPECIFICATION FairSpec
CONSTANTS
  Nodes = {"a", "b"}
  Names = {"x"}
  MaxConns = 2
  MaxRegs = 2
  MaxRequests = 2
  Budgets <- ClusterBudgets
INVARIANTS RoutesAreWatched AnswersMatch
PROPERTIES GossipReaches GivenUpByBoth
CHECK_DEADLOCK FALSE
