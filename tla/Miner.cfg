SPECIFICATION MCSpec
CONSTANTS
  User = {u1, u2}
  MaxCalls = 2
  MaxSyncs = 1
  MaxLoops = 2
  MaxHeads = 2
  MaxWorks = 1
  resultQueueSize = 1
INVARIANTS MiningRight ClosedOnce CanBeStopped EngineRight FlowRight
PROPERTIES StopTakesEffect SignersByMajority
CHECK_DEADLOCK FALSE
