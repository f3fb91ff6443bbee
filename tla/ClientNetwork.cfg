SPECIFICATION FairSpec
CONSTANTS
  NoServer = NoServer
  NoPacket = NoPacket
  MaxStates = 2
  MaxMoves = 1
  MaxFaults = 2
  CanQuit = TRUE
INVARIANTS
  TypeOK
  ReadsSafe
  InboundFaithful
  OpensWithItsOwn
PROPERTIES
  EndedConnectionDropped
  PacketsArrive
CHECK_DEADLOCK FALSE
