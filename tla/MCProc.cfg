CONSTANTS
  NPROC = 3
  CPU = {c1, c2}
  None = None
  Ticks = Ticks
  UserCalls = {"fork", "exit", "wait", "kill", "sleep", "fault"}
  MaxPid = 4
SPECIFICATION SafeSpec
INVARIANTS TypeOK StackOwned LockHandedBack ParentAlive WaiterHasReason UniquePids EmbryoHasForker
CHECK_DEADLOCK FALSE
