SPECIFICATION Spec
CONSTANTS
  Kinds = {"CMD", "CHECK", "RETR", "STOR"}
  Types = {"A", "I"}
  Starts = {0, 1}
  FileBlocks = 2
  MaxOps = 2
  PortModes = {"PORT"}
  PASVTries = 1
  UseAPPE = TRUE
INVARIANTS TypeOK RepliesPaired QuietWhenIdle NoSocketLeft
           SuccessIsWhole EndsAgree CancelFlags
CHECK_DEADLOCK FALSE
