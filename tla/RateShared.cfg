SPECIFICATION LiveSpec
CONSTANTS
  None = None
  Shared = Shared
  Callers = {"a", "b", "c", "d"}
  Procs = {"p", "q"}
  ProcOf <- MCProcOf
  Weight <- MCWeight
  Deadline <- MCDeadline
  Capacity = 2
  MaxWait = 1
  MinRemainder = 1
  Cooldown = 1
  MaxTime = 3
  StoreFails = TRUE
CHECK_DEADLOCK FALSE
INVARIANTS Conserved RateHeld
PROPERTIES ThrottleEnds
