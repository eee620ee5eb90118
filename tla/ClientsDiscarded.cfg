SPECIFICATION Spec
CONSTANTS
  Unset = Unset
  Nil = Nil
  Boot = "boot"
  Callers <- MCCallers
  Kind <- MCKind
  Gated <- MCGated
  Refuses <- MCRefuses
  Binding <- MCBinding
  Slots = {"s1", "r1"}
  PoolOf <- MCPoolOf
  LiteCallers = {"import", "sync", "query", "reserve", "complete", "store"}
  Way <- MCWay
  Throws <- MCThrows
  OtherProcess = OtherProcess
  Faults = {"silent", "breaks", "rejects", "connect"}
  Tables <- EditedTables
  Settings <- GivenSettings
CHECK_DEADLOCK FALSE
INVARIANT DiscardedAnyway
