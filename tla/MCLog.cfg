CONSTANTS
  Block = {b1, b2, b3}
  Zero = d0
  Data = {d0, d1}
  Proc = {p1, p2}
  None = None
  After = b1
  MAXOPBLOCKS = 2
  LOGSIZE = 4
  nlog = 4
SPECIFICATION SafeSpec
SYMMETRY Symmetry
INVARIANTS TypeOK CommitAlone IdleIsDurable
PROPERTY ImplementsAtomicDisk
