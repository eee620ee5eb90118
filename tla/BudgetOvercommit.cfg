SPECIFICATION Spec
CONSTANTS
  MaxTime = 1
  DayLength = 1
  WindowLength = 1
  Retention = 1
  None = None
  Procs = {"p", "q"}
  Plans = {"free"}
  Unpriced = Unpriced
  BadHeader = BadHeader
  Off = Off
  Derived = Derived
  Calls <- MCTwoCalls
  ProcOf <- MCOneProc
  Cost <- FlowsCost
  SubCalls <- FlowsSubCalls
  Bills <- FlowsBills
  Misreports = {}
  OpeningBalances = {15}
  DailyCreditCap = Off
  VelocityCap = Off
  MaxCallsPerWindow = 60
  Faults = {}
INVARIANT NoOvercommit
