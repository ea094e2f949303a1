SPECIFICATION FairSpec
CONSTANTS
  Conns = {"a", "b"}
  Cap = 1
  OutCap = 1
  MaxSize = 2
  Scripts <- ClientScripts
  Budgets <- SocketBudgets
INVARIANTS CapBoundsHandlers MessagesAreWhole FramesInOrder
PROPERTIES DisconnectReleases CloseEndsHandler
CHECK_DEADLOCK FALSE
