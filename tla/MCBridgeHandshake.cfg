SPECIFICATION HandshakeFairSpec
CONSTANTS
  Kinds <- SettledKinds
  MaxLost = 1
  MaxQueue = 2
INVARIANTS
  ShownIsReady
PROPERTIES
  StartSettles
  FailureEndsStream
CHECK_DEADLOCK FALSE
