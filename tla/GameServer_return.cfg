SPECIFICATION Spec
CONSTANTS
  s1 = s1
  s2 = s2
  alice = alice
  bob = bob
  t1 = t1
  t2 = t2
  here = here
  there = there
  stand = stand
  walk = walk
  NoBody = NoBody
  Short = Short
  NoHeader = NoHeader
  NoRow = NoRow
  Spawn = here
  Idle = stand
  Moved <- MCMoved
  Hears <- MCHears
  Sessions = {s1, s2}
  Accounts = {alice}
  Tokens = {t1, t2}
  Owner <- OneOwner
  Positions = {here, there}
  Inputs = {stand, walk}
  Packets <- ReturnPackets
  Departures = {"fin"}
  AutosaveTicks = 3
  DbFaults = FALSE
  MaxBoots = 1
PROPERTIES
  ReturnsWhereLeft
CHECK_DEADLOCK FALSE
