SPECIFICATION FairSpec
CONSTANTS
  Conns = {"a", "b"}
  MaxStreams = 2
  Cap = 1
  BodyCap = 1
  RichCap = 1
  Budgets <- StreamBudgets
INVARIANTS CapBoundsHandlers RichEventsArrive
PROPERTIES DisconnectReleases StreamEndsWithHandler
CHECK_DEADLOCK FALSE
