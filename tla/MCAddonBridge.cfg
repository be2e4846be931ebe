SPECIFICATION Spec
CONSTANTS
  e1 = e1
  e2 = e2
  Entries = {e1, e2}
  MaxVersion = 2
  Changing = {e1}
  MaxCrashes = 1
  Absent = absent
  Half = half
  Json <- MCJson
  Numerals <- MCNumerals
  Legacy = legacyFile
  HasOptions = TRUE
  MaxStarts = 1
INVARIANTS
  OneCameraPerPath
  SettledIsClean
  BehindIsNoticed
CHECK_DEADLOCK FALSE
