CONSTANTS
  Block = {b1, b2, b3}
  Zero = d0
  Data = {d0}
  Proc = {p1, p2, p3}
  None = None
  After = b1
  MAXOPBLOCKS = 1
  LOGSIZE = 2
  nlog = 2
SPECIFICATION Spec
INVARIANTS LogFits SleeperHasReason
PROPERTY SleeperWakes
