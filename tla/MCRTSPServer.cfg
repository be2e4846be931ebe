SPECIFICATION Spec
CONSTANTS
  Client = {c1, c2}
  Stream = {s1, s2}
  Bridge = {b1, b2}
  StreamId = {hd}
  Path <- OnePath
  Admin = {"stopper"}
  None = None
INVARIANTS
  WatchedBridge
  TimerOnlyWhenUnwatched
  NoGhostViewer
PROPERTIES
  ImplementsCamera
CHECK_DEADLOCK FALSE
