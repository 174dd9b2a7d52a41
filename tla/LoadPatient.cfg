CONSTANTS
  Models = {m1, m2}
  LayersOf <- MCLayersOf
  NodeOrder <- MCTwoNodes
  n1 = n1
  n2 = n2
  MaxRequests = 3
  Client = "patient"
  Operations = {"load", "redistribute"}
  Faults = {}
  MaxFaults = 0
  MaxChurn = 1
  NoHandle = NoHandle
  NoSlot = NoSlot
  NoNext = NoNext
SPECIFICATION Spec
INVARIANTS
  OneModelReady
  OneModelInMemory
PROPERTIES
  LoadTerminates
