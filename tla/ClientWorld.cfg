SPECIFICATION FairSpec
CONSTANTS
  alice = alice
  bob = bob
  A = A
  LEFT = LEFT
  Me = alice
  Others = {bob}
  Keys = {A, LEFT}
  Flag <- MCFlag
  Yaws = {0, 2}
  Width = 3
  Places <- MCPlaces
  MaxUp = 1
  MaxDown = 2
INVARIANTS
  TypeOK
  RegistryTrue
  KeysUpMeansStill
PROPERTIES
  Reconciles
  ViewConverges
CHECK_DEADLOCK FALSE
