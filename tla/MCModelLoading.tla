--------------------------- MODULE MCModelLoading ---------------------------
(* ModelLoading for TLC: the values of the structured constants.           *)
EXTENDS ModelLoading

CONSTANTS n1, n2

MCTwoNodes == <<n1, n2>>
MCOneNode == <<n1>>
MCLayersOf == [m \in Models |-> 3]
=============================================================================
