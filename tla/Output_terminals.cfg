SPECIFICATION FairSpec
CONSTANTS
  Sessions = {1, 2}
  Codex = {2}
  Panes = 2
  Redraws = {2}
  Cap = 1
  BatchCap = 1
  MaxChunk = 2
  MaxAct = 3
CHECK_DEADLOCK FALSE
INVARIANT WrittenOnce
PROPERTIES ReadersStay PageDrains
