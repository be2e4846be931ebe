SPECIFICATION Spec
CONSTANTS
  None = None
  c1 = c1
  c2 = c2
  Clients <- MCClients
  Starters = {g1, g2}
  ClientPorts = {1}
  Channels = {2}
  ServerPorts = {4, 5}
  MaxBridges = 2
  MaxOthers = 1
  MaxSetups <- MCMaxSetups
  Talkback = TRUE
SYMMETRY Symmetry
INVARIANTS SentAsAsked NothingLeftBehind
PROPERTIES ImplementsCamera
CHECK_DEADLOCK FALSE
