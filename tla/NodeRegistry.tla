---------------------------- MODULE NodeRegistry ----------------------------
(***************************************************************************)
(* The orchestrator's node registry and the threads that plan a dispatch   *)
(* from it (orchestrator/node_registry.py, dispatch.py).                   *)
(*                                                                         *)
(* list_nodes copies references to the NodeInfo objects under the lock and *)
(* reads their statuses after releasing it: a concurrent reap_stale_nodes  *)
(* changes the very objects of the copy, while a concurrent update_node    *)
(* puts a fresh object in the registry and leaves the copy alone.  A copy  *)
(* therefore records, for each entry, whether its object is still the      *)
(* registry's.  Time is left out: a reap takes any set of available nodes. *)
(***************************************************************************)
EXTENDS Dispatch, FiniteSets

CONSTANTS Nodes,      \* node ids
          Planners,   \* request threads that call plan_dispatch
          Layers      \* the layer counts manifests may declare

ASSUME LayersAssumption == Layers \subseteq Nat \ {0}
ASSUME NodesAssumption == IsFiniteSet(Nodes)

VARIABLES order,     \* keys of _nodes, in insertion order
          status,    \* NodeInfo.status of every node of order
          planner    \* per thread: one call of plan_dispatch

vars == <<order, status, planner>>

Statuses == {"unknown", "available", "unavailable"}

Registered == {order[i] : i \in DOMAIN order}
AvailableNodes == {n \in Registered : status[n] = "available"}

Idle == [pc |-> "idle", layers |-> 0, copy |-> <<>>, nodes |-> <<>>,
         plan |-> <<>>, atCopy |-> {}, steady |-> {}]

Init ==
  /\ order = <<>>
  /\ status = [n \in Nodes |-> "unknown"]
  /\ planner = [p \in Planners |-> Idle]

-----------------------------------------------------------------------------
\* An entry of a copy once a fresh object has replaced node n's.
Detached(e, n) == IF e.node = n THEN [e EXCEPT !.current = FALSE] ELSE e

\* Mutants of UpdateNode: a rejoining node moves to the end; a new node is
\* not entered.
UpdateNode_Reinsert(n) ==
  /\ order' = Append(SelectSeq(order, LAMBDA x : x # n), n)
  /\ status' = [status EXCEPT ![n] = "available"]
  /\ UNCHANGED planner

UpdateNode_NoInsert(n) ==
  /\ status' = [status EXCEPT ![n] = "available"]
  /\ UNCHANGED <<order, planner>>

\* The heartbeat of node n: register it, or replace its NodeInfo.
UpdateNode(n) ==
  /\ order' = IF n \in Registered THEN order ELSE Append(order, n)
  /\ status' = [status EXCEPT ![n] = "available"]
  /\ planner' = [p \in Planners |->
       [planner[p] EXCEPT
          !.copy = [i \in DOMAIN @ |-> Detached(@[i], n)]]]

\* An entry of a copy after the objects of the nodes in S were reaped.
Reaped(e, S) ==
  IF e.node \in S /\ e.current THEN [e EXCEPT !.status = "unavailable"] ELSE e

\* One cycle of the reaper finds the nodes in S silent for too long.
ReapStaleNodes(S) ==
  /\ S # {} /\ S \subseteq AvailableNodes
  /\ status' = [n \in Nodes |-> IF n \in S THEN "unavailable" ELSE status[n]]
  /\ planner' = [p \in Planners |->
       [planner[p] EXCEPT
          !.copy = [i \in DOMAIN @ |-> Reaped(@[i], S)],
          !.steady = @ \ S]]
  /\ UNCHANGED order

\* list_nodes under the lock: copy the references.
CopyNodes(p, L) ==
  /\ planner[p].pc \in {"idle", "done"}
  /\ planner' = [planner EXCEPT ![p] =
       [pc |-> "filter", layers |-> L,
        copy |-> [i \in DOMAIN order |->
                    [node |-> order[i], status |-> status[order[i]],
                     current |-> TRUE]],
        nodes |-> <<>>, plan |-> <<>>,
        atCopy |-> AvailableNodes, steady |-> AvailableNodes]]
  /\ UNCHANGED <<order, status>>

\* Mutant of FilterNode: status_filter is ignored.
FilterNode_NoStatus(p) ==
  /\ planner[p].pc = "filter" /\ planner[p].copy # <<>>
  /\ planner' = [planner EXCEPT
       ![p].copy = Tail(@),
       ![p].nodes = Append(@, Head(planner[p].copy).node)]
  /\ UNCHANGED <<order, status>>

\* list_nodes after the lock: keep the entry if its status matches.
FilterNode(p) ==
  LET e == Head(planner[p].copy)
  IN  /\ planner[p].pc = "filter" /\ planner[p].copy # <<>>
      /\ planner' = [planner EXCEPT
           ![p].copy = Tail(@),
           ![p].nodes = IF e.status = "available"
                        THEN Append(@, e.node) ELSE @]
      /\ UNCHANGED <<order, status>>

\* The rest of plan_dispatch works on the thread's own list.
MakePlan(p) ==
  /\ planner[p].pc = "filter" /\ planner[p].copy = <<>>
  /\ planner' = [planner EXCEPT
       ![p].pc = "done",
       ![p].plan = PlanDispatch(planner[p].layers, planner[p].nodes)]
  /\ UNCHANGED <<order, status>>

Next ==
  \/ \E n \in Nodes : UpdateNode(n)
  \/ \E S \in SUBSET Nodes : ReapStaleNodes(S)
  \/ \E p \in Planners :
       \/ \E L \in Layers : CopyNodes(p, L)
       \/ FilterNode(p)
       \/ MakePlan(p)

Spec == Init /\ [][Next]_vars

-----------------------------------------------------------------------------
Entry == [node : Nodes, status : Statuses, current : BOOLEAN]

PlannerCall ==
  [pc : {"idle", "filter", "done"}, layers : Layers \cup {0},
   copy : Seq(Entry), nodes : Seq(Nodes), plan : Seq(Assignments(Nodes)),
   atCopy : SUBSET Nodes, steady : SUBSET Nodes]

\* The types, and that exactly the nodes heard from have a status.
TypeOK ==
  /\ order \in Seq(Nodes)
  /\ status \in [Nodes -> Statuses]
  /\ planner \in [Planners -> PlannerCall]
  /\ \A n \in Nodes : n \in Registered <=> status[n] # "unknown"

\* A finished call that did not raise DispatchError.
Planned(p) == planner[p].pc = "done" /\ planner[p].plan # <<>>

\* Every plan made covers each layer of the model exactly once, chains the
\* shards in layer order and gives a node at most one shard (a worker keys
\* its shards by model name, so a second one would never be built), however
\* heartbeats and the reaper interleave with list_nodes.
PlanIsPipeline ==
  \A p \in Planners : Planned(p) =>
    /\ IsPipeline(planner[p].layers, planner[p].plan)
    /\ \A i, j \in DOMAIN planner[p].plan :
         planner[p].plan[i].node = planner[p].plan[j].node => i = j

\* list_nodes reads statuses without the lock, yet what it returns is
\* bracketed: every node that stayed available since the copy was taken is
\* planned, and nothing that was not available then is.
PlansWhatWasAvailable ==
  \A p \in Planners : planner[p].pc = "done" =>
    LET nodes == planner[p].nodes
        picked == {nodes[i] : i \in DOMAIN nodes}
    IN  planner[p].steady \subseteq picked /\ picked \subseteq planner[p].atCopy

\* Shards are laid out in the order in which the nodes first registered: a
\* node that drops out and rejoins keeps its place in the pipeline.
PlanKeepsJoinOrder ==
  \A p \in Planners : Planned(p) =>
    \A i, j \in DOMAIN planner[p].plan : i < j =>
      \E a, b \in DOMAIN order :
        a < b /\ order[a] = planner[p].plan[i].node
              /\ order[b] = planner[p].plan[j].node

-----------------------------------------------------------------------------
(***************************************************************************)
(* The inductive invariant behind PlanIsPipeline and                       *)
(* PlansWhatWasAvailable: what a call still has to look at (copy) and what *)
(* it has accepted (nodes) never overlap, and together they hold every     *)
(* node that stayed available.                                             *)
(***************************************************************************)
OrderDistinct == \A i, j \in DOMAIN order : order[i] = order[j] => i = j

CallShape(q) ==
  /\ q.pc # "idle" => q.layers \in Layers
  /\ q.pc # "filter" => q.copy = <<>>
  /\ q.pc = "done" => q.plan = PlanDispatch(q.layers, q.nodes)

CallDistinct(q) ==
  /\ \A i, j \in DOMAIN q.copy : q.copy[i].node = q.copy[j].node => i = j
  /\ \A i, j \in DOMAIN q.nodes : q.nodes[i] = q.nodes[j] => i = j
  /\ \A i \in DOMAIN q.copy, j \in DOMAIN q.nodes : q.copy[i].node # q.nodes[j]

CallWithin(q) ==
  /\ \A i \in DOMAIN q.copy :
       q.copy[i].status = "available" => q.copy[i].node \in q.atCopy
  /\ \A j \in DOMAIN q.nodes : q.nodes[j] \in q.atCopy

CallKeeps(q) ==
  \A n \in q.steady :
    \/ \E j \in DOMAIN q.nodes : q.nodes[j] = n
    \/ \E i \in DOMAIN q.copy :
         q.copy[i].node = n /\ q.copy[i].status = "available"

CallInv(q) == CallShape(q) /\ CallDistinct(q) /\ CallWithin(q) /\ CallKeeps(q)

RegistryInv == TypeOK /\ OrderDistinct /\ \A p \in Planners : CallInv(planner[p])

(***************************************************************************)
(* The inductive invariant behind PlanKeepsJoinOrder: what a call has      *)
(* accepted, followed by what it still has to look at, is in the order o   *)
(* of the registry, which only ever grows at its end.                      *)
(***************************************************************************)
Precedes(o, m, n) ==
  \E a, b \in DOMAIN o : a < b /\ o[a] = m /\ o[b] = n

CallInOrder(o, q) ==
  /\ \A i, j \in DOMAIN q.copy :
       i < j => Precedes(o, q.copy[i].node, q.copy[j].node)
  /\ \A i, j \in DOMAIN q.nodes : i < j => Precedes(o, q.nodes[i], q.nodes[j])
  /\ \A i \in DOMAIN q.nodes, j \in DOMAIN q.copy :
       Precedes(o, q.nodes[i], q.copy[j].node)

JoinOrderInv == \A p \in Planners : CallInOrder(order, planner[p])
=============================================================================
