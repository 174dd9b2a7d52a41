CONSTANTS
  Shards = 2
  MaxGenerations = 1
  MaxTokens = 2
  MaxSessions = 2
  Faults = {}
  MaxFaults = 0
  NoCache = NoCache
SPECIFICATION Spec
INVARIANT OwnCache
