SPECIFICATION FairSpec
CONSTANTS
  s1 = s1
  s2 = s2
  alice = alice
  bob = bob
  t1 = t1
  t2 = t2
  here = here
  there = there
  stand = stand
  walk = walk
  NoBody = NoBody
  Short = Short
  NoHeader = NoHeader
  NoRow = NoRow
  Spawn = here
  Idle = stand
  Moved <- MCMoved
  Hears <- MCHears
  Sessions = {s1}
  Accounts = {alice}
  Tokens = {t1}
  Owner <- OneOwner
  Positions = {here, there}
  Inputs = {stand, walk}
  Packets <- AllPackets
  Departures = {"fin", "reset"}
  AutosaveTicks = 2
  DbFaults = FALSE
  MaxBoots = 1
INVARIANTS
  TypeOK
  AutosaveBound
PROPERTIES
  DepartureSaved
  GoneLeadsToLeave
  ClosedSessionEnds
CHECK_DEADLOCK FALSE
