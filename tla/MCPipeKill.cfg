CONSTANTS
  Proc = {p1, p2}
  None = None
  NFILE = 2
  NOFILE = 2
  Data = {d0}
  PIPESIZE = 1
  Width = 2
  MaxCount = 2
  MaxKilled = 1
SPECIFICATION FairSpec
PROPERTY KilledComesOut
CHECK_DEADLOCK FALSE
