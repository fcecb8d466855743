SPECIFICATION MCSpec
CONSTANTS
  Block <- Branches
  Importer = {insertChain}
  None = None
  Tx = {"s", "t"}
  Transactions <- BranchTxs
  MaxCrashes = 2
  MaxRewinds = 1
INVARIANTS FullBlocksRooted StoreRight  
PROPERTY StoreIsLongestChain
CHECK_DEADLOCK FALSE
