CONSTANTS
  Proc = {p1, p2, p3}
  Name = {n1, n2}
  None = None
  NINODE = 2
  ninodes = 2
  nblocks = 1
SPECIFICATION Spec
SYMMETRY Symmetry
INVARIANTS TypeOK ReferencesCounted WriteThrough DiskConsistent
