SPECIFICATION FairSpec
CONSTANTS
  FileSize = 3
  StartPoints = {0}
  BufSize = 2
  Room = 2
  MaxSignals = 2
  MaxChanges = 1
INVARIANTS SentInOrder ResultTrue
PROPERTY Returns
CHECK_DEADLOCK FALSE
