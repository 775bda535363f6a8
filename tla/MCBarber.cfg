CONSTANTS
  Customer = {c1, c2, c3, c4, c5}
  CHAIRS = 2
SPECIFICATION SafeSpec
SYMMETRY Symmetry
INVARIANTS TypeOK UnitsConserved
PROPERTY TurnedAwayWhenFull
CHECK_DEADLOCK FALSE
