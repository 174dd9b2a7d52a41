CONSTANTS
  Shards = 2
  MaxGenerations = 2
  MaxTokens = 2
  MaxSessions = 2
  Faults = {"link_breaks", "unload_fails"}
  MaxFaults = 1
  NoCache = NoCache
SPECIFICATION Spec
INVARIANT SlotsCollected
PROPERTY GenerationEnds
