SPECIFICATION Spec
CONSTANTS
  Kinds = {"GET", "PUT", "GETMEM", "PUTMEM"}
  Types = {"A", "I"}
  Lines <- Grows
  Servers <- SomeServers
  Heuristic = {1, 2}
  Threshold = 3
  UtimeBlocks = FALSE
  MemStarts = {0, 1, 3}
  MemRooms = {2, 4}
  MaxCalls = 2
  MaxNow = 5
INVARIANT TypeOK
PROPERTIES Whole DeletedIsSaved NeverPartial
CHECK_DEADLOCK FALSE
