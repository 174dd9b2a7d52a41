CONSTANTS
  Nodes = {n1}
  Interval = 2
  InitialInterval = 3
  Missed = 3
  ReaperInterval = 1
  MaxHold = 1
  MaxLate = 2
  MaxFaults = 2
SPECIFICATION Spec
INVARIANTS
  TypeOK
  AvailableIsRecent
PROPERTIES
  OnlySilentNodesReaped
  RunningNodeRejoins
  DeadNodeDropped
  RegistryIsUntimed
