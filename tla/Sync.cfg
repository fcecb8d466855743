SPECIFICATION MCSpec
CONSTANTS
  None = None
  Node = {"a", "b"}
  Tx = {1, 2}
  PackSize = 1
  MaxConns = 2
INVARIANTS EveryTxOnItsWay  StateConsistent
PROPERTY SyncEnds
CHECK_DEADLOCK FALSE
