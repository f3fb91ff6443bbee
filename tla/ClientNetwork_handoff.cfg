SPECIFICATION FairSpec
CONSTANTS
  NoServer = NoServer
  NoPacket = NoPacket
  MaxStates = 0
  MaxMoves = 0
  MaxFaults = 0
  CanQuit = FALSE
PROPERTIES
  HandoffCompletes
CHECK_DEADLOCK FALSE
