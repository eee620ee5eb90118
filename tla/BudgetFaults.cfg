SPECIFICATION Spec
CONSTANTS
  MaxTime = 4
  DayLength = 4
  WindowLength = 2
  Retention = 1
  None = None
  Procs = {"p", "q"}
  Plans = {"free"}
  Unpriced = Unpriced
  BadHeader = BadHeader
  Off = Off
  Derived = Derived
  Calls <- MCTwoCalls
  ProcOf <- MCTwoProcs
  Cost <- SingleCost
  SubCalls <- SingleSubCall
  Bills <- DriftingBills
  Misreports = {900}
  OpeningBalances = {12}
  DailyCreditCap = 8
  VelocityCap = 9
  MaxCallsPerWindow = 1
  Faults = {"account", "limiter", "lost", "header", "store", "crash"}
INVARIANTS CountersConserve CapHeld VelocityHeld
