SPECIFICATION FairSpec
CONSTANTS
  Addresses = {a1, a2}
  None = none
  v33 = v33
  v35 = v35
  Versions = {v33, v35}
  Default = v33
  Firmwares <- MCFirmwares
  HeartbeatInterval = 2
  DataTimeout = 2
  MaxPayloadErrors = 2
  Durations = {0, 1, 3}
  MaxPushes = 1
INVARIANTS
  DeadSessionNoticed
  Paced
PROPERTIES
  OddFramesForgiven
  ImplementsSession
  Reconnects
CHECK_DEADLOCK FALSE
