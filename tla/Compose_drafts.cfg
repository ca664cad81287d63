SPECIFICATION ComposeSpec
CONSTANTS
  Ids = {1, 2}
  Shells <- MCShells
  MaxEvent = 5
CHECK_DEADLOCK FALSE
INVARIANTS DraftsStayHome OneEnterPerBody NoUnaskedSend
