SPECIFICATION Spec
CONSTANTS
  None = None
  Procs = {"p", "q"}
  Calls = {"a", "b"}
  ProcOf <- MCProcOf
  Routes <- MCRoutes
  Registered = {"free", "paid", "other"}
  OnChain = {"free", "paid"}
  Unavailable = {"paid"}
  Says <- MCSays
  Series <- MCSeries
  Malformed = "bad"
  Budget = 1
  Requests = {None, 0}
  Overlapping = {"first"}
  Modes = {"first", "merge"}
  Ttl = 2
  NegativeTtl = 1
  MaxTime = 2
  Faults = {"store", "evict", "outsized"}
CHECK_DEADLOCK FALSE
INVARIANTS EmptyIsTruthful NotPaidAgain NoStaleHit MergeHonest
