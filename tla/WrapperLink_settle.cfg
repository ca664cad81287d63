CONSTANTS
  w1 = w1  w2 = w2  i1 = i1  noW = noW  noI = noI
  Wrappers = {w1}
  NoWrapper = noW
  Inputs = {}
  NoInput = noI
  MaxConn = 2
  MaxEra = 2
  AutoShutdown = FALSE
  Grace = TRUE
  Faults <- Ends
SPECIFICATION FairSpec
PROPERTIES CutOffEnds RegistryForgets CardsSettle KillsOnlyCutOff
