SPECIFICATION Spec
CONSTANTS
  None = none
  ClearAfter = 1
  MaxAge = 6
  PollFast = 1
  PollSlow = 4
  Lag = 1
  MaxNow = 7
  MaxPushes = 1
  MaxMoves = 3
INVARIANTS
  ShownForItsTime
  AlarmReachesSensor
PROPERTIES
  NoReplay
CHECK_DEADLOCK FALSE
