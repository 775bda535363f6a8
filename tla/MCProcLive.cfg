CONSTANTS
  NPROC = 3
  CPU = {c1}
  None = None
  Ticks = Ticks
  UserCalls = {"fork", "wait", "kill", "sleep"}
  MaxPid = 3
SPECIFICATION Spec
PROPERTIES RunnableRuns KilledDies
CHECK_DEADLOCK FALSE
