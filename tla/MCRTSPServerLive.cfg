SPECIFICATION TickingSpec
CONSTANTS
  Client = {c1, c2}
  Stream = {s1}
  Bridge = {b1, b2}
  StreamId = {hd}
  Path <- OnePath
  Admin = {"cleaner"}
  None = None
PROPERTIES
  SweepSparesViewers
  ServerResponds
  UnwatchedStreamStops
CHECK_DEADLOCK FALSE
