SPECIFICATION Spec
CONSTANTS
  c1 = c1
  c2 = c2
  Callers = {c1}
  ExitArgs = {"Normal", "Crashed"}
  MaxProcs = 2
  Budget <- SpawnLinkBudget
INVARIANTS SpawnLinkedSharedFate
CHECK_DEADLOCK FALSE
