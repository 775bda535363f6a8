CONSTANTS
  Proc = {p1, p2, p3}
  Block = {k1, k2, k3}
  Data = {d0, d1}
  Zero = d0
  None = None
  NBUF = 2
  MaxPinned = 1
SPECIFICATION Spec
SYMMETRY Symmetry
INVARIANTS TypeOK BufferStays SleeperHasWaker
PROPERTY ImplementsBlockStore
CHECK_DEADLOCK FALSE
