SPECIFICATION ScenarioSpec
CONSTANTS
  c1 = c1
  c2 = c2
  Callers = {c1, c2}
  ExitArgs = {"Normal", "Crashed"}
  MaxProcs = 3
  Budget <- MostCalls
INVARIANTS MonitorAccounted DownTruthful LinkedSharedFate
PROPERTIES CascadeOnlyAlongLinks KilledIsReaped
CHECK_DEADLOCK FALSE
