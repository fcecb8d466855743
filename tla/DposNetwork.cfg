CONSTANTS
  Address = {1, 2}
  Epoch <- MCEpoch
  blockInterval = 2
  epochInterval = 6
  maxValidatorSize = 2
  Orders <- TwoOrders
  MaxTime = 9
  MaxLag = 1
  MaxRecv = 1
  Part = {"network", "retrieve", "light"}
SPECIFICATION MCFairSpec
INVARIANTS
  ChainsConsistent
  UnverifiedStaysHome
  ConfirmedVerifies
  FastReturnSound
  LightRight
PROPERTIES
  ConfirmedNumberGrows
  NodesCatchUp
CHECK_DEADLOCK FALSE
