SPECIFICATION Spec
CONSTANTS
  Trees <- SomeTrees
  Starts <- SomeStarts
  Modes = {"local", "MLSD", "LIST", "NLST"}
  Procs = {"user", "list"}
  Buffers <- GivenBuffers
  MinAlloc = 20
  Spare = 3
  LimitMaxDepth = 3
  MaxRemoved = 1
INVARIANTS NamesRight WalkRight ListRight
CHECK_DEADLOCK FALSE
