CONSTANTS
  Shards = 2
  MaxGenerations = 3
  MaxTokens = 2
  MaxSessions = 1
  Faults = {"crash", "run_fails", "deliver_fails"}
  MaxFaults = 2
  NoCache = NoCache
SPECIFICATION Spec
INVARIANTS
  TypeOK
  OwnCache
  SlotsCollected
PROPERTIES
  KeepsPromise
  GenerationEnds
