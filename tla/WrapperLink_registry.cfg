CONSTANTS
  w1 = w1  w2 = w2  i1 = i1  noW = noW  noI = noI
  Wrappers = {w1, w2}
  NoWrapper = noW
  Inputs = {i1}
  NoInput = noI
  MaxConn = 3
  MaxEra = 2
  AutoShutdown = FALSE
  Grace = TRUE
  Faults <- Removals
SPECIFICATION Spec
SYMMETRY Symmetry
CHECK_DEADLOCK FALSE
INVARIANTS NoLostWakeup NumbersAgree
PROPERTIES EntryIsKept BacklogHasFlusher
