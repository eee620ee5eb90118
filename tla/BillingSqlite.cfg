SPECIFICATION Spec
CONSTANTS
  None = None
  Axis = "sqlite"
  Procs = {"p", "q"}
  Calls = {"a", "b", "d"}
  Keys = {"x", "z"}
  Profiles = {"A"}
  Tools = {"cheap", "dear"}
  ProcOf <- MCProcOf
  KeyOf <- MCKeyOf
  ProfileOf <- MCProfileOf
  ToolOf <- MCToolOf
  Price <- MCPrice
  Ttl <- MCTtl
  Ceiling = 2
  Readers = {"defaults"}
  OpeningBalances = {2}
  Edits = {}
  MaxTime = 4
  LastStamp = 1
  Faults = {"store", "throw", "crash"}
CHECK_DEADLOCK FALSE
INVARIANT ClosedAsServed
