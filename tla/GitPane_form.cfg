CONSTANTS
  Sessions = {1, 2}
  Length <- MCLength
  PageLimit = 1
  MaxReq = 2
  MaxForm = 2
  MaxEvent = 2
SPECIFICATION FairSpec
CHECK_DEADLOCK FALSE
INVARIANT DraftsWereAsked
PROPERTIES CommitReviewed FormFree
