CONSTANTS
  Proc = {p1, p2, p3, p4}
  None = None
  MaxValue = 2
SPECIFICATION Spec
INVARIANTS TypeOK WriterAlone CountsKept
PROPERTY IncrementsKept
CHECK_DEADLOCK FALSE
