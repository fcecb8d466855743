CONSTANTS
  Address = {1, 2, 3, 4}
  Epoch <- MCEpoch
  blockInterval = 1
  epochInterval = 8
  maxValidatorSize = 2
  GenesisValidators <- MCGenesisValidators
  GenesisTime = 0
  GenesisBalance <- MCGenesisBalance
  blockReward = 1
  Transactions <- ElectionTransactions
  MaxTime = 20
  MaxBlocks = 4
  MaxTxs = 2
  Part = {"dpos"}
SPECIFICATION MCSpec
INVARIANTS
  MintCntIsTally
  FirstBlockTimeKnown
PROPERTIES
  ValidatorsServeEpoch
  ElectionByWeight
  KickoutRight
