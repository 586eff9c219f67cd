SPECIFICATION Spec
CONSTANTS
  FileSize = 3
  StartPoints = {0, 1}
  BufSize = 2
  Room = 2
  MaxSignals = 1
  MaxChanges = 0
INVARIANT StartsAtOffset
CHECK_DEADLOCK FALSE
