SPECIFICATION FairSpec
CONSTANTS
  s1 = s1
  s2 = s2
  alice = alice
  bob = bob
  t1 = t1
  t2 = t2
  Sessions = {s1, s2}
  Accounts = {alice, bob}
  Tokens = {t1, t2}
  Requests <- MCRequests
  NoRequest = NoRequest
  NoToken = NoToken
  NoAccount = NoAccount
  NoSession = NoSession
  MaxFaults = 1
  MaxBoots = 2
INVARIANTS
  TypeOK
  
  OrphansExplained
PROPERTIES
  EndsForAReason
  SessionsEnd
  Served
CHECK_DEADLOCK FALSE
