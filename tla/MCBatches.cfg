SPECIFICATION Spec
CONSTANTS
  Names <- SomeNames
  RemoteTrees <- SomeRemote
  LocalTrees <- SomeLocal
  Contents <- SomeContents
  Alike <- SomeAlike
  Requests <- SomeRequests
  LaterRequests <- OneMore
  MaxCalls = 2
INVARIANTS Delivered SourceSafe
PROPERTY CanceledStops
CHECK_DEADLOCK FALSE
