SPECIFICATION MCSpec
CONSTANTS
  Block <- Branches
  Importer = {insertChain}
  None = None
  Tx = {"s", "t"}
  Transactions <- BranchTxs
  MaxCrashes = 1
  MaxRewinds = 0
INVARIANT CanonicalLinks
CHECK_DEADLOCK FALSE
