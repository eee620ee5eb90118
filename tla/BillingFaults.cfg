SPECIFICATION LiveSpec
CONSTANTS
  None = None
  Axis = "postgres"
  Procs = {"p", "q"}
  Calls = {"a", "b", "c"}
  Keys = {"x", "y"}
  Profiles = {"A"}
  Tools = {"cheap", "dear"}
  ProcOf <- MCProcOf
  KeyOf <- MCKeyOf
  ProfileOf <- MCProfileOf
  ToolOf <- MCToolOf
  Price <- MCPrice
  Ttl <- MCTtl
  Ceiling = 2
  Readers = {"defaults", "table"}
  OpeningBalances = {2, None}
  Edits = {0}
  MaxTime = 3
  LastStamp = 0
  Faults = {"store", "lost", "throw", "crash"}
CHECK_DEADLOCK FALSE
INVARIANTS BalanceAccounts
PROPERTIES FirstCloseStands ExpiredNotReplayed ImplementsAccount ReserveCloses
