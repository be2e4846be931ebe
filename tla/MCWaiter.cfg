SPECIFICATION WaiterFairSpec
CONSTANTS
  Waiting = {w1, w2}
  Completing = {d1, d2, d3}
  Nil = nil
  Outcomes = {nil, timeout}
  Nobody = nobody
  MaxTasks = 2
INVARIANTS
  NoEarlyReturn
PROPERTIES
  FinishIsFinal
  WaitersGetOut
CHECK_DEADLOCK FALSE
