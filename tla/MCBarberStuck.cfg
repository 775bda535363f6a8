CONSTANTS
  Customer = {c1, c2}
  CHAIRS = 2
SPECIFICATION Spec
PROPERTY CustomerComesOut
CHECK_DEADLOCK FALSE
