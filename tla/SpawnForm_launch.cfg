SPECIFICATION Spec
CONSTANTS
  Clis = {"claude"}
  Real = {"a/"}
  Gone = {"b/", "pub:"}
  Prefixes = {"pub:"}
  Folder <- MCFolder
  Ends = {"a/", "b/"}
  Owner <- MCOwner
  Local = {"qwen"}
  MaxBorn = 2
  MaxAct = 4
CHECK_DEADLOCK FALSE
INVARIANTS LaunchNotStuck RiskIsConfirmed SubdirsMatch
