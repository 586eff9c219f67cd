SPECIFICATION Spec
CONSTANTS
  Dirs <- BelowDirs
  Home <- BelowRoot
  Paths <- BelowPaths
  MaxCalls = 2
  MaxDenied = 1
  MaxMeddles = 1
INVARIANTS
  CacheCoherent
  WayBack
  Arrives
  Reported
  MkdirRight
CHECK_DEADLOCK FALSE
