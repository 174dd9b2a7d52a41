CONSTANTS
  Models = {"a", "b"}
  MaxRequests = 3
  Loads <- MCLoads
  Operations = {"stream", "infer", "read"}
  PoolSize = 1
  MaxYields = 1
  Documents <- MCDocuments
  Directories <- MCDirectories
SPECIFICATION Spec
PROPERTIES
  RoutesServed
CHECK_DEADLOCK FALSE
