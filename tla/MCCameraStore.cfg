CONSTANTS
  p1 = p1
  p2 = p2
  d1 = d1
  d2 = d2
  d3 = d3
  h1 = h1
  Process = {p1, p2}
  Names <- MCNames
  AvailableRegions <- MCRegions
  Device = {d1, d2, d3}
  CameraDevice = {d1, d3}
  HomesOf <- MCHomesOf
  DevicesIn <- MCDevicesIn
  SharedWith <- MCSharedWith
  MaxRetries = 2
  MaxCommands = 3
SPECIFICATION StoreSpec
SYMMETRY MCSymmetry
CHECK_DEADLOCK FALSE
INVARIANTS
  WholeReports
  RewritesAddUp
