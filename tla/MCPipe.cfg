CONSTANTS
  Proc = {p1, p2}
  None = None
  NFILE = 3
  NOFILE = 2
  Data = {d0, d1}
  PIPESIZE = 2
  Width = 4
  MaxCount = 2
  MaxKilled = 1
SYMMETRY Symmetry
SPECIFICATION Spec
INVARIANTS TypeOK EndsCounted SleeperHasReason
PROPERTY ImplementsFifo
CHECK_DEADLOCK FALSE
