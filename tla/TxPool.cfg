SPECIFICATION MCSpec
CONSTANTS
  Address = {1, 2}
  Transactions <- Txs
  Funds = 3
  PriceLimit = 1
  PriceBump = 10
  AccountSlots = 2
  GlobalSlots = 1
  AccountQueue = 1
  GlobalQueue = 2
  ReheapShare = 4
  MaxReorg = 1
  Prices = {2}
  MaxBlocks = 2
  MaxAdds = 4
  MaxEvents = 2
  
PROPERTY StepsRight
CHECK_DEADLOCK FALSE
