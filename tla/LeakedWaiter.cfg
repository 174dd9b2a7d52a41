CONSTANTS
  Models = {m1}
  LayersOf <- MCLayersOf
  NodeOrder <- MCTwoNodes
  n1 = n1
  n2 = n2
  MaxRequests = 2
  Client = "patient"
  Operations = {"load"}
  Faults = {"build_fails"}
  MaxFaults = 1
  MaxChurn = 0
  NoHandle = NoHandle
  NoSlot = NoSlot
  NoNext = NoNext
SPECIFICATION Spec
PROPERTIES
  LoadTerminates
CHECK_DEADLOCK FALSE
