SPECIFICATION FairSpec
CONSTANTS
  MAX_FRAMES_IN_FLIGHT = 2
  Surfaces <- MCSurfaces
  activeConfig_ = "TripleBuffer"
  MaxRecreations = 2
  MoreImages = 1
  Places = {"left", "right"}
INVARIANTS
  TypeOK
  LifetimesNest
  NothingLeaks
  EveryImageReady
  AskedIsSupported
  PlaceGivenBack
PROPERTIES
  CloseEnds
CHECK_DEADLOCK FALSE
