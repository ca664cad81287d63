CONSTANTS
  Dirs <- MCDirs
  Root = "src"
  Names <- MCNames
  Media = {"b"}
  Present <- MCPresent
  MaxEvent = 4
  MaxSecond = 2
SPECIFICATION FairSpec
CHECK_DEADLOCK FALSE
INVARIANT EditModeSound
PROPERTIES SavesAreInformed LoadingEnds
