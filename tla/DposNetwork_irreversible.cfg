CONSTANTS
  Address = {1, 2}
  Epoch <- MCEpoch
  blockInterval = 1
  epochInterval = 20
  maxValidatorSize = 2
  Orders <- TwoOrders
  MaxTime = 8
  MaxLag = 0
  MaxRecv = 1
  Part = {"network"}
SPECIFICATION MCSpec
INVARIANT ConfirmedIsIrreversible
