SPECIFICATION FairSpec
CONSTANTS
  MaxTime = 1
  DayLength = 1
  WindowLength = 1
  Retention = 1
  None = None
  Procs = {"p", "q"}
  Plans = {"free", "pro"}
  Unpriced = Unpriced
  BadHeader = BadHeader
  Off = Off
  Derived = Derived
  Calls <- MCTwoCalls
  ProcOf <- MCOneProc
  Cost <- PlanCost
  SubCalls <- SingleSubCall
  Bills <- PlanBills
  Misreports = {}
  OpeningBalances = {600}
  DailyCreditCap = Derived
  VelocityCap = Derived
  MaxCallsPerWindow = 60
  Faults = {"account", "limiter", "lost", "crash"}
PROPERTIES CapPinned CallsFinish
