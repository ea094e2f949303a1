SPECIFICATION Spec
CONSTANTS
  c1 = c1
  c2 = c2
  n1 = n1
  t1 = t1
  Callers = {c1, c2}
  Names = {n1}
  Tags = {t1}
  MaxProcs = 2
  Budgets <- TagLeakBudgets
INVARIANTS TagReleasedOnExit
CHECK_DEADLOCK FALSE
