SPECIFICATION FairSpec
CONSTANTS
  Ids = {1, 2}
  Shells = {}
  Asks <- MCAsks
  Kind <- MCKind
  Risky <- MCRisky
  MaxEvent = 2
  MaxLost = 1
CHECK_DEADLOCK FALSE
INVARIANT Bookkeeping
PROPERTIES FocusStays NativeSurfaces HintsEnd
