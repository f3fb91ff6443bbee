SPECIFICATION FairSpec
CONSTANTS
  MAX_FRAMES_IN_FLIGHT = 2
  ImageCounts = {2, 3}
  MaxChanges = 2
  MayFail = TRUE
INVARIANTS
  TypeOK
  ReusedWhenFree
  FencesReturn
PROPERTIES
  DrawFrameReturns
  ResizeSettles
CHECK_DEADLOCK FALSE
