SPECIFICATION FairSpec
CONSTANTS
  Ids = {1}
  MaxEvent = 2
CHECK_DEADLOCK FALSE
INVARIANTS NoForeignState NothingMissing
PROPERTY Reconnects
