SPECIFICATION MCSpec
CONSTANTS
  None = None
  Broken = Broken
  MaxTime = 1
  Commands = {"boot1", "boot3", "add", "i1", "i2", "v1", "v2"}
  Argv <- MCArgv
  Emails = {"root", "ann"}
  Secrets = {"s1", "s2"}
  PrefixOf <- MCPrefixOf
  Migrated <- NoUsers
  Requests = {"o", "c", "d", "w"}
  Req <- MCReq
  AllowedHosts <- MCHosts
  AllowedOrigins = {}
  BoundPort = 80
  Faults = {"db", "process"}
  Absent = Absent
  Garbage = Garbage
  Throws = Throws
  Empty = Empty
  Infinite = Infinite
  DayLength = 2
  Earliest = 2
  Registry <- MCRegistry
  Legacy <- MCLegacy
  PageSize = 2
  VendorChains <- MCVendorChains
  DroppedKeys = {"url"}
  MaxDepth = 3
  HoldersPage = 2
  MaxLabelTags = 2
  MaxSafe = 7
  HalvingInterval = 3
  InitialSubsidy = 4
  Chains <- MCChains
  Validated = {"evm", "svm"}
  CoveredTokens <- MCCovered
  ExhaustiveTokens = {"ethereum"}
  CostTable <- MCCostTable
  PremiumLabelsCost = 150
  MaxRows = 2
  DexChains = {"Ethereum"}
  ExplorerIds = {1}
  Disabled = {}
  Inputs <- MCInputs
CHECK_DEADLOCK FALSE
INVARIANTS JournalKept RevokedIsRefused TracedOnce AnswersHonest ServedAsAsked ResolvesToOne
PROPERTIES CurationKept
