SPECIFICATION Spec
CONSTANTS
  Nodes = {x1, x2, x3}
  NULL = NULL
  Files <- SmallFiles
INVARIANT Inv
PROPERTY IsSequence
CHECK_DEADLOCK FALSE
