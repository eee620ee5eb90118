SPECIFICATION OutboundSpec
CONSTANTS
  None = None
  Unparseable = Unparseable
  NonBinary = NonBinary
  MaxTime = 2
  DayLength = 2
  WindowLength = 1
  Retention = 1
  Requests = {"a", "b"}
  Procs = {"p", "q"}
  ProcOf <- MCProcOf
  DeclaredCeiling = 2
  Override <- MCOverride
  StoreFaults = {"refuses", "throws", "lost"}
  Start <- MCStart
  Secret = {"a"}
  Deadline <- MCDeadline
  Timeout = 2
  ConnectBound = 1
  MaxRedirects = 2
  MaxBytes = 1
  Allowlist = {"home", "other"}
  Locations <- MCLocations
  Lengths = {None, 1, 2}
  Chunks = {1, NonBinary}
  PaidCalls = {"a", "b", "c", "u"}
  Unshared = {"u"}
  PaidDeadline <- MCFlightDeadline
  Callers = {"a", "b", "c"}
  Asks <- MCAsks
  Vendors = {"v", "w"}
  Slugs <- MCSlugs
  DocDeadline <- MCDocDeadline
  TTL <- MCTTL
  MaxDocuments = 1
CHECK_DEADLOCK FALSE
INVARIANTS CallsCounted CauseNamed SecretStaysHome OnePayment AgeHonest
PROPERTIES DocumentsShared
