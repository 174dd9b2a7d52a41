--------------------------- MODULE MCNodeRegistry ---------------------------
(* NodeRegistry for TLC, with the properties of PlannedShards.             *)
EXTENDS PlannedShards, TLC

NodeSymmetry == Permutations(Nodes)
=============================================================================
