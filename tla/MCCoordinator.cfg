SPECIFICATION FairSpec
CONSTANTS
  playing = playing
  stopping = stopping
  once = once
  loop = loop
  Caller = {c1}
  Playback = {playing, stopping}
  Mode = {once, loop}
  Start <- SomeStart
  Settle = 2
  Fast = 2
  Slow = 3
  Chatty = FALSE
  MaxChanges = 1
  MaxCalls = 1
  MaxDrops = 1
  None = None
INVARIANTS
  HeldIsLatest
  UnloadedIsQuiet
PROPERTIES
  OnlySettledIsShown
  Converges
CHECK_DEADLOCK FALSE
