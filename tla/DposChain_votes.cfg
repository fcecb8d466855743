CONSTANTS
  Address = {1, 2, 3}
  Epoch <- MCEpoch
  blockInterval = 2
  epochInterval = 4
  maxValidatorSize = 2
  GenesisValidators <- MCGenesisValidators
  GenesisTime = 0
  GenesisBalance <- MCGenesisBalance
  blockReward = 1
  Transactions <- VotingTransactions
  MaxTime = 10
  MaxBlocks = 3
  MaxTxs = 4
  Part = {"dpos", "trie", "rlp"}
SPECIFICATION MCFairSpec
INVARIANTS VoteAgreement DelegatesAreCandidates DataRight
 
CHECK_DEADLOCK FALSE
