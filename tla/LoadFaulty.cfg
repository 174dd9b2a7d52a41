CONSTANTS
  Models = {m1}
  LayersOf <- MCLayersOf
  NodeOrder <- MCTwoNodes
  n1 = n1
  n2 = n2
  MaxRequests = 2
  Client = "concurrent"
  Operations = {"load", "redistribute"}
  Faults = {"crash", "lost_report", "rpc_error", "build_fails", "store_fails", "tokenizer_fails"}
  MaxFaults = 1
  MaxChurn = 0
  NoHandle = NoHandle
  NoSlot = NoSlot
  NoNext = NoNext
SPECIFICATION Spec
INVARIANTS
  TypeOK
  ReadyHasEvidence
  EvidenceInv
PROPERTIES
  ImplementsModelStates
CHECK_DEADLOCK FALSE
