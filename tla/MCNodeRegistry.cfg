CONSTANTS
  Nodes = {n1, n2, n3}
  Planners = {p1}
  Layers = {1, 2, 3, 5, 7}
  NoNext = NoNext
  MaxLayers = 12
  Parts = {"mixer", "norm"}
  Tokens = 3
  Hidden = 2
  Vocab = 5
SPECIFICATION Spec
SYMMETRY NodeSymmetry
INVARIANTS
  TypeOK
  RegistryInv
  PlanIsPipeline
  PlansWhatWasAvailable
  PlanKeepsJoinOrder
  SplitMatchesLoop
  ShardsComputeModel
