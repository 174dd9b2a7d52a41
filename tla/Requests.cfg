CONSTANTS
  Models = {"a", "b"}
  MaxRequests = 3
  Loads <- MCLoads
  Operations = {"infer", "stream", "redistribute", "submit", "read"}
  PoolSize = 3
  MaxYields = 1
  Documents <- MCDocuments
  Directories <- MCDirectories

SPECIFICATION Spec
INVARIANTS
  TypeOK
  LookupFailsOnlyToRivals
  SessionOfManifest
PROPERTIES
  EveryRequestAnswered
