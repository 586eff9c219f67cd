SPECIFICATION Spec
CONSTANTS
  Tree <- SmallTree
  Cwd <- SomeCwd
  Patterns <- SomePatterns
  DirLists <- SomeDirLists
  Servers <- SomeServers
  YearDays = 12
  SkewDays = 1
  MaxCalls = 2
INVARIANTS GlobRight EntriesRight
CHECK_DEADLOCK FALSE
