SPECIFICATION Spec
CONSTANTS
  s1 = s1
  s2 = s2
  Senders = {s1, s2}
  Capacity = 1
  DepthMod = 8
  MaxSends = 4
INVARIANTS MetaStaysWithMessage DepthExact BoundedOvershoot
PROPERTIES ImplementsSelectiveReceive
CHECK_DEADLOCK FALSE
