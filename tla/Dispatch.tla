------------------------------ MODULE Dispatch ------------------------------
(***************************************************************************)
(* orchestrator/dispatch.py: how a model's layers are divided among the    *)
(* nodes of a dispatch.  The module has no state.  A node's address        *)
(* (ip_address, inference_port) is identified with its node_id.            *)
(***************************************************************************)
EXTENDS Integers, Sequences

CONSTANT NoNext   \* the empty next_worker_address of the last shard

\* The layer range of node i (1-based) in closed form.  SplitLayersLoop is
\* the loop as the code writes it; a run compares the two.
RangeStart(L, n, i) == (i - 1) * (L \div n)
RangeEnd(L, n, i) == IF i = n THEN L ELSE i * (L \div n)

\* Mutant of SplitLayers: nobody takes the remainder.
SplitLayers_NoRemainder(L, n) ==
  [i \in 1..n |-> <<RangeStart(L, n, i), i * (L \div n)>>]

SplitLayers(L, n) ==
  [i \in 1..n |-> <<RangeStart(L, n, i), RangeEnd(L, n, i)>>]

\* for i in range(num_nodes): end = ...; append((start, end)); start = end
SplitLayersLoop(L, n) ==
  LET ranges[i \in 0..n] ==
        IF i = 0 THEN <<0, 0>>
        ELSE LET start == ranges[i - 1][2]
             IN  <<start, IF i = n THEN L ELSE start + (L \div n)>>
  IN  [i \in 1..n |-> ranges[i]]

ShardAssignment(L, nodes, i) ==
  LET n == Len(nodes)
      range == SplitLayers(L, n)[i]
  IN  [node        |-> nodes[i],
       layer_start |-> range[1],
       layer_end   |-> range[2],
       is_first    |-> i = 1,
       is_last     |-> i = n,
       next        |-> IF i = n THEN NoNext ELSE nodes[i + 1]]

\* plan_dispatch raises DispatchError.
DispatchError(L, nodes) == nodes = <<>> \/ Len(nodes) > L

\* The assignments of the plan; the empty sequence stands for DispatchError.
PlanDispatch(L, nodes) ==
  IF DispatchError(L, nodes) THEN <<>>
  ELSE [i \in 1..Len(nodes) |-> ShardAssignment(L, nodes, i)]

Assignments(S) ==
  [node : S, layer_start : Nat, layer_end : Nat,
   is_first : BOOLEAN, is_last : BOOLEAN, next : S \cup {NoNext}]

PlanNodes(plan) == {plan[i].node : i \in DOMAIN plan}

-----------------------------------------------------------------------------
(***************************************************************************)
(* What a plan must satisfy for the workers to execute it as one pipeline. *)
(***************************************************************************)
\* Every layer belongs to exactly one assignment and no range is empty.
CoversOnce(L, plan) ==
  /\ \A i \in DOMAIN plan : plan[i].layer_start < plan[i].layer_end
  /\ \A k \in 0..(L - 1) :
       \E i \in DOMAIN plan :
         /\ plan[i].layer_start <= k /\ k < plan[i].layer_end
         /\ \A j \in DOMAIN plan :
              plan[j].layer_start <= k /\ k < plan[j].layer_end => j = i

\* A shard hands its output to the shard that owns the following layer.
ChainFollowsLayers(plan) ==
  \A i \in DOMAIN plan :
    IF i = Len(plan) THEN plan[i].next = NoNext
    ELSE /\ plan[i].next = plan[i + 1].node
         /\ plan[i].layer_end = plan[i + 1].layer_start

\* The orchestrator's is_first / is_last (which choose the tensors it sends)
\* agree with the ones the worker computes from the layer range.
RolesAgree(L, plan) ==
  \A i \in DOMAIN plan :
    /\ plan[i].is_first <=> plan[i].layer_start = 0
    /\ plan[i].is_last <=> plan[i].layer_end = L

IsPipeline(L, plan) ==
  CoversOnce(L, plan) /\ ChainFollowsLayers(plan) /\ RolesAgree(L, plan)
=============================================================================
