SPECIFICATION MCSpec
CONSTANTS
  None = None
  Id = {"a", "b"}
  maxPeers = 1
  MaxConns = 2
  MaxDrops = 1
INVARIANTS RegistriesAgree StoppedMeansStopped  DeliveryConsistent
PROPERTY ServicesRest
CHECK_DEADLOCK FALSE
