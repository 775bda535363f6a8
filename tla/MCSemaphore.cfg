CONSTANTS
  Proc = {p1, p2, p3, p4}
  None = None
  InitValue = 1
  MaxValue = 2
SPECIFICATION Spec
INVARIANTS TypeOK LockExclusion NoLostWakeup NeverNegative
PROPERTY ImplementsSemaphore
CHECK_DEADLOCK FALSE
