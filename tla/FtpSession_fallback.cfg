SPECIFICATION FairSpec
CONSTANTS
  Kinds = {"CMD", "RETR", "STOR"}
  Types = {"A"}
  Starts = {0, 1}
  FileBlocks = 1
  MaxOps = 2
  PortModes = {"PASV", "FALLBACK"}
  PASVTries = 2
  UseAPPE = TRUE
INVARIANT SessionInv
PROPERTY CallsReturn
CHECK_DEADLOCK FALSE
