SPECIFICATION FairSpec
CONSTANTS
  s1 = s1
  s2 = s2
  Streams <- TwoStreams
  Cameras = {nursery}
  None = None
  MaxTries = 2
  MaxClients = 2
  MaxSessions <- OneEach
  MaxLosses = 1
  MaxCandidates = 1
INVARIANTS
  NoZombie
PROPERTIES
  SharedClientSpared
  OfferSettled
CHECK_DEADLOCK FALSE
