CONSTANTS
  Proc = {p1, p2, p3}
  None = None
  MaxValue = 2
SPECIFICATION Spec
INVARIANT SleepsUnlocked
CHECK_DEADLOCK FALSE
