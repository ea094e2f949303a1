SPECIFICATION Spec
CONSTANTS
  s1 = s1
  s2 = s2
  Senders = {s1, s2}
  Capacity = 1
  DepthMod = 8
  MaxSends = 3
PROPERTIES ShedOnlyAtCapacity
CHECK_DEADLOCK FALSE
