CONSTANTS
  NPROC = 4
  CPU = {c1}
  None = None
  Ticks = Ticks
  UserCalls = {"fork", "exit", "wait"}
  MaxPid = 4
SPECIFICATION Spec
INVARIANTS WaiterHasReason
PROPERTY OrphanReaped
CHECK_DEADLOCK FALSE
