------------------------- MODULE NodeRegistryProofs -------------------------
(***************************************************************************)
(* The plans made under any interleaving with the registry, and what they  *)
(* become on the workers for every checkpoint.                             *)
(***************************************************************************)
EXTENDS PlannedShards, DispatchProofs, SequenceTheorems

LEMMA InitEstablishes == Init => RegistryInv
<1> SUFFICES ASSUME Init PROVE RegistryInv
  OBVIOUS
<1>1. order = <<>> /\ status = [n \in Nodes |-> "unknown"]
  BY DEF Init
<1>2. \A p \in Planners : planner[p] = Idle
  BY DEF Init
<1>3. Idle \in PlannerCall
  BY DEF Idle, PlannerCall
<1>4. TypeOK
  BY <1>1, <1>3 DEF Init, TypeOK, Registered, Statuses
<1>5. CallInv(Idle)
  BY DEF CallInv, CallShape, CallDistinct, CallWithin, CallKeeps, Idle
<1> QED  BY <1>1, <1>2, <1>4, <1>5 DEF RegistryInv, OrderDistinct

\* What a heartbeat and a reap do to an entry of a copy.
LEMMA HeartbeatOnEntry ==
  ASSUME NEW e \in Entry, NEW n \in Nodes
  PROVE  /\ Detached(e, n) \in Entry
         /\ Detached(e, n).node = e.node
         /\ Detached(e, n).status = e.status
BY DEF Detached, Entry

LEMMA ReapOnEntry ==
  ASSUME NEW e \in Entry, NEW S \in SUBSET Nodes
  PROVE  /\ Reaped(e, S) \in Entry
         /\ Reaped(e, S).node = e.node
         /\ Reaped(e, S).status = "available" => e.status = "available"
         /\ e.status = "available" /\ Reaped(e, S).status # "available"
              => e.node \in S
BY DEF Reaped, Entry, Statuses

\* A change of the objects behind a copy keeps a call's invariant as long as
\* entries keep their nodes, statuses only degrade, and a node whose entry
\* degrades is no longer counted as steady.
LEMMA CopyDegrades ==
  ASSUME NEW q \in PlannerCall, NEW r \in PlannerCall, CallInv(q),
         r.pc = q.pc, r.layers = q.layers, r.plan = q.plan,
         r.nodes = q.nodes, r.atCopy = q.atCopy,
         r.steady \subseteq q.steady,
         DOMAIN r.copy = DOMAIN q.copy, q.copy = <<>> => r.copy = <<>>,
         \A i \in DOMAIN q.copy :
           /\ r.copy[i].node = q.copy[i].node
           /\ r.copy[i].status = "available" => q.copy[i].status = "available"
           /\ /\ q.copy[i].status = "available"
              /\ r.copy[i].status # "available"
              => q.copy[i].node \notin r.steady
  PROVE  CallInv(r)
<1>1. CallShape(r)
  BY DEF CallInv, CallShape
<1>2. CallDistinct(r)
  BY DEF CallInv, CallDistinct
<1>3. CallWithin(r)
  BY DEF CallInv, CallWithin
<1>4. CallKeeps(r)
  BY DEF CallInv, CallKeeps
<1> QED  BY <1>1, <1>2, <1>3, <1>4 DEF CallInv

LEMMA UpdateNodePreserves ==
  ASSUME RegistryInv, NEW n \in Nodes, UpdateNode(n)
  PROVE  RegistryInv'
<1>1. /\ order \in Seq(Nodes) /\ status \in [Nodes -> Statuses]
      /\ planner \in [Planners -> PlannerCall]
      /\ \A m \in Nodes : m \in Registered <=> status[m] # "unknown"
  BY DEF RegistryInv, TypeOK
<1>2. order' \in Seq(Nodes) /\ status' \in [Nodes -> Statuses]
  BY <1>1 DEF UpdateNode, Statuses
<1>3. OrderDistinct'
  BY <1>1 DEF UpdateNode, RegistryInv, OrderDistinct, Registered
<1>4. \A m \in Nodes : (m \in Registered)' <=> status'[m] # "unknown"
  <2>1. Registered' = Registered \cup {n}
    BY <1>1 DEF UpdateNode, Registered
  <2> QED  BY <1>1, <2>1 DEF UpdateNode
<1>5. ASSUME NEW p \in Planners
      PROVE  planner'[p] \in PlannerCall /\ CallInv(planner'[p])
  <2> DEFINE q == planner[p]
             c == [i \in DOMAIN q.copy |-> Detached(q.copy[i], n)]
             r == [q EXCEPT !.copy = c]
  <2>1. planner'[p] = r
    BY <1>1 DEF UpdateNode
  <2>2. q \in PlannerCall /\ CallInv(q)
    BY <1>1 DEF RegistryInv
  <2> HIDE DEF q
  <2>3. q.copy \in Seq(Entry)
    BY <2>2 DEF PlannerCall
  <2>0. DOMAIN q.copy = 1..Len(q.copy) /\ Len(q.copy) \in Nat
        /\ \A i \in DOMAIN q.copy : q.copy[i] \in Entry
    BY <2>3
  <2>4. \A i \in DOMAIN q.copy :
          /\ c[i] \in Entry
          /\ c[i].node = q.copy[i].node
          /\ c[i].status = q.copy[i].status
    BY <2>0, HeartbeatOnEntry
  <2>5. c \in Seq(Entry) /\ DOMAIN c = DOMAIN q.copy /\ (q.copy = <<>> => c = <<>>)
    <3>1. c \in [1..Len(q.copy) -> Entry]
      BY <2>0, <2>4
    <3> QED  BY <2>0, <3>1
  <2> HIDE DEF c
  <2>6. r \in PlannerCall
    BY <2>2, <2>5 DEF PlannerCall
  <2>7. /\ r.pc = q.pc /\ r.layers = q.layers /\ r.plan = q.plan
        /\ r.nodes = q.nodes /\ r.atCopy = q.atCopy /\ r.steady = q.steady
        /\ r.copy = c
    BY <2>2 DEF PlannerCall
  <2> HIDE DEF r
  <2>8. CallInv(r)
    BY <2>2, <2>4, <2>5, <2>6, <2>7, CopyDegrades
  <2> QED  BY <2>1, <2>6, <2>8
<1>6. planner' \in [Planners -> PlannerCall]
  <2>1. planner' = [p \in Planners |-> planner'[p]]
    BY DEF UpdateNode
  <2> QED  BY <1>5, <2>1
<1> QED  BY <1>2, <1>3, <1>4, <1>5, <1>6 DEF RegistryInv, TypeOK

LEMMA ReapPreserves ==
  ASSUME RegistryInv, NEW S \in SUBSET Nodes, ReapStaleNodes(S)
  PROVE  RegistryInv'
<1>1. /\ order \in Seq(Nodes) /\ status \in [Nodes -> Statuses]
      /\ planner \in [Planners -> PlannerCall]
      /\ \A m \in Nodes : m \in Registered <=> status[m] # "unknown"
  BY DEF RegistryInv, TypeOK
<1>2. order' \in Seq(Nodes) /\ status' \in [Nodes -> Statuses]
  BY <1>1 DEF ReapStaleNodes, Statuses
<1>3. OrderDistinct'
  BY DEF ReapStaleNodes, RegistryInv, OrderDistinct
<1>4. \A m \in Nodes : (m \in Registered)' <=> status'[m] # "unknown"
  BY <1>1 DEF ReapStaleNodes, Registered, AvailableNodes
<1>5. ASSUME NEW p \in Planners
      PROVE  planner'[p] \in PlannerCall /\ CallInv(planner'[p])
  <2> DEFINE q == planner[p]
             c == [i \in DOMAIN q.copy |-> Reaped(q.copy[i], S)]
             r == [q EXCEPT !.copy = c, !.steady = q.steady \ S]
  <2>1. planner'[p] = r
    BY <1>1 DEF ReapStaleNodes
  <2>2. q \in PlannerCall /\ CallInv(q)
    BY <1>1 DEF RegistryInv
  <2> HIDE DEF q
  <2>3. q.copy \in Seq(Entry) /\ q.steady \subseteq Nodes
    BY <2>2 DEF PlannerCall
  <2>0. DOMAIN q.copy = 1..Len(q.copy) /\ Len(q.copy) \in Nat
        /\ \A i \in DOMAIN q.copy : q.copy[i] \in Entry
    BY <2>3
  <2>4. \A i \in DOMAIN q.copy :
          /\ c[i] \in Entry
          /\ c[i].node = q.copy[i].node
          /\ c[i].status = "available" => q.copy[i].status = "available"
          /\ q.copy[i].status = "available" /\ c[i].status # "available"
               => q.copy[i].node \in S
    BY <2>0, ReapOnEntry
  <2>5. c \in Seq(Entry) /\ DOMAIN c = DOMAIN q.copy /\ (q.copy = <<>> => c = <<>>)
    <3>1. c \in [1..Len(q.copy) -> Entry]
      BY <2>0, <2>4
    <3> QED  BY <2>0, <3>1
  <2> HIDE DEF c
  <2>6. r \in PlannerCall
    BY <2>2, <2>3, <2>5 DEF PlannerCall
  <2>7. /\ r.pc = q.pc /\ r.layers = q.layers /\ r.plan = q.plan
        /\ r.nodes = q.nodes /\ r.atCopy = q.atCopy /\ r.steady = q.steady \ S
        /\ r.copy = c
    BY <2>2 DEF PlannerCall
  <2> HIDE DEF r
  <2>8. CallInv(r)
    BY <2>2, <2>4, <2>5, <2>6, <2>7, CopyDegrades
  <2> QED  BY <2>1, <2>6, <2>8
<1>6. planner' \in [Planners -> PlannerCall]
  <2>1. planner' = [p \in Planners |-> planner'[p]]
    BY DEF ReapStaleNodes
  <2> QED  BY <1>5, <2>1
<1> QED  BY <1>2, <1>3, <1>4, <1>5, <1>6 DEF RegistryInv, TypeOK

LEMMA CopyPreserves ==
  ASSUME RegistryInv, NEW p \in Planners, NEW L \in Layers, CopyNodes(p, L)
  PROVE  RegistryInv'
<1>1. /\ order \in Seq(Nodes) /\ status \in [Nodes -> Statuses]
      /\ planner \in [Planners -> PlannerCall]
      /\ UNCHANGED <<order, status>>
  BY DEF RegistryInv, TypeOK, CopyNodes
<1> DEFINE c == [i \in DOMAIN order |->
                   [node |-> order[i], status |-> status[order[i]],
                    current |-> TRUE]]
           r == [pc |-> "filter", layers |-> L, copy |-> c,
                 nodes |-> <<>>, plan |-> <<>>,
                 atCopy |-> AvailableNodes, steady |-> AvailableNodes]
<1>2. planner' = [planner EXCEPT ![p] = r]
  BY DEF CopyNodes
<1>3. \A i \in DOMAIN order : order[i] \in Nodes /\ c[i] \in Entry
  BY <1>1 DEF Entry, Statuses
<1>4. c \in Seq(Entry) /\ DOMAIN c = DOMAIN order
  BY <1>1, <1>3
<1>5. \A i \in DOMAIN c : c[i].node = order[i] /\ c[i].status = status[order[i]]
  BY <1>4
<1> HIDE DEF c
<1>6. AvailableNodes \subseteq Nodes
  BY <1>1 DEF AvailableNodes, Registered
<1>7. r \in PlannerCall
  <2>1. <<>> \in Seq(Nodes) /\ <<>> \in Seq(Assignments(Nodes))
    OBVIOUS
  <2> QED  BY <1>4, <1>6, <2>1 DEF PlannerCall
<1>8. /\ r.pc = "filter" /\ r.layers = L /\ r.copy = c /\ r.nodes = <<>>
      /\ r.atCopy = AvailableNodes /\ r.steady = AvailableNodes
  OBVIOUS
<1> HIDE DEF r
<1>9. CallInv(r)
  <2>1. CallShape(r)
    BY <1>8 DEF CallShape
  <2>2. CallDistinct(r)
    BY <1>4, <1>5, <1>8 DEF CallDistinct, RegistryInv, OrderDistinct
  <2>3. CallWithin(r)
    BY <1>4, <1>5, <1>8 DEF CallWithin, AvailableNodes, Registered
  <2>4. CallKeeps(r)
    BY <1>4, <1>5, <1>8 DEF CallKeeps, AvailableNodes, Registered
  <2> QED  BY <2>1, <2>2, <2>3, <2>4 DEF CallInv
<1>10. TypeOK' /\ OrderDistinct'
  BY <1>1, <1>2, <1>7 DEF RegistryInv, TypeOK, OrderDistinct, Registered
<1> QED  BY <1>1, <1>2, <1>9, <1>10 DEF RegistryInv

LEMMA FilterPreserves ==
  ASSUME RegistryInv, NEW p \in Planners, FilterNode(p)
  PROVE  RegistryInv'
<1> DEFINE q == planner[p]
           e == Head(q.copy)
           ns == IF e.status = "available" THEN Append(q.nodes, e.node) ELSE q.nodes
           r == [q EXCEPT !.copy = Tail(q.copy), !.nodes = ns]
<1>1. /\ planner \in [Planners -> PlannerCall]
      /\ q.pc = "filter" /\ q.copy # <<>>
      /\ UNCHANGED <<order, status>>
  BY DEF RegistryInv, TypeOK, FilterNode
<1>2. planner' = [planner EXCEPT ![p] = r]
  BY <1>1 DEF FilterNode, PlannerCall
<1>3. q \in PlannerCall /\ CallInv(q)
  BY <1>1 DEF RegistryInv
<1> HIDE DEF q
<1>4. q.copy \in Seq(Entry) /\ q.nodes \in Seq(Nodes)
  BY <1>3 DEF PlannerCall
<1>5. e = q.copy[1] /\ e \in Entry /\ Tail(q.copy) \in Seq(Entry)
      /\ 1 \in DOMAIN q.copy
  BY <1>1, <1>4
<1>6. /\ \A i \in DOMAIN Tail(q.copy) :
           i + 1 \in DOMAIN q.copy /\ Tail(q.copy)[i] = q.copy[i + 1] /\ i + 1 # 1
      /\ \A i \in DOMAIN q.copy :
           i # 1 => i - 1 \in DOMAIN Tail(q.copy)
                    /\ Tail(q.copy)[i - 1] = q.copy[i]
      /\ \A i, j \in DOMAIN Tail(q.copy) : i + 1 = j + 1 => i = j
  BY <1>1, <1>4
<1>7. ns \in Seq(Nodes)
  BY <1>4, <1>5 DEF Entry
<1>8. r \in PlannerCall
  BY <1>3, <1>5, <1>7 DEF PlannerCall
<1>9. /\ r.pc = "filter" /\ r.layers = q.layers /\ r.copy = Tail(q.copy)
      /\ r.nodes = ns /\ r.atCopy = q.atCopy /\ r.steady = q.steady
  BY <1>1, <1>3 DEF PlannerCall
<1> HIDE DEF r
<1>10. CallInv(r)
  <2>1. CallShape(r)
    BY <1>1, <1>3, <1>9 DEF CallInv, CallShape
  <2>2. CASE e.status # "available"
    <3>1. ns = q.nodes
      BY <2>2
    <3> HIDE DEF ns, e
    <3>2. CallDistinct(r)
      BY <1>3, <1>6, <1>9, <3>1 DEF CallInv, CallDistinct
    <3>3. CallWithin(r)
      BY <1>3, <1>6, <1>9, <3>1 DEF CallInv, CallWithin
    <3>4. CallKeeps(r)
      <4>1. \A i \in DOMAIN q.copy : q.copy[i].status = "available" =>
              i # 1 /\ i - 1 \in DOMAIN r.copy /\ r.copy[i - 1] = q.copy[i]
        BY <1>5, <1>6, <1>9, <2>2
      <4>2. ASSUME NEW n \in q.steady
            PROVE  \/ \E j \in DOMAIN q.nodes : q.nodes[j] = n
                   \/ \E i \in DOMAIN r.copy :
                        r.copy[i].node = n /\ r.copy[i].status = "available"
        <5>1. CASE \E j \in DOMAIN q.nodes : q.nodes[j] = n
          BY <5>1
        <5>2. CASE \E i \in DOMAIN q.copy :
                     q.copy[i].node = n /\ q.copy[i].status = "available"
          BY <4>1, <5>2
        <5> QED  BY <1>3, <5>1, <5>2 DEF CallInv, CallKeeps
      <4> QED  BY <1>9, <3>1, <4>2 DEF CallKeeps
    <3> QED  BY <2>1, <3>2, <3>3, <3>4 DEF CallInv
  <2>3. CASE e.status = "available"
    <3>1. ns = Append(q.nodes, e.node)
      BY <2>3
    <3>2. \A j \in DOMAIN ns : IF j \in DOMAIN q.nodes THEN ns[j] = q.nodes[j]
                               ELSE j = Len(q.nodes) + 1 /\ ns[j] = e.node
      BY <1>4, <3>1
    <3>3. \A j \in DOMAIN q.nodes : j \in DOMAIN ns /\ ns[j] = q.nodes[j]
      BY <1>4, <3>1
    <3>4. Len(q.nodes) + 1 \in DOMAIN ns /\ ns[Len(q.nodes) + 1] = e.node
      BY <1>4, <3>1
    <3> HIDE DEF ns, e
    <3>5. CallDistinct(r)
      <4>1. \A i, j \in DOMAIN r.copy : r.copy[i].node = r.copy[j].node => i = j
        BY <1>3, <1>6, <1>9 DEF CallInv, CallDistinct
      <4>2. \A i, j \in DOMAIN ns : ns[i] = ns[j] => i = j
        BY <1>3, <1>5, <3>2 DEF CallInv, CallDistinct
      <4>3. \A i \in DOMAIN r.copy, j \in DOMAIN ns : r.copy[i].node # ns[j]
        BY <1>3, <1>5, <1>6, <1>9, <3>2 DEF CallInv, CallDistinct
      <4> QED  BY <1>9, <4>1, <4>2, <4>3 DEF CallDistinct
    <3>6. CallWithin(r)
      BY <1>3, <1>5, <1>6, <1>9, <2>3, <3>2 DEF CallInv, CallWithin
    <3>7. CallKeeps(r)
      <4> SUFFICES ASSUME NEW n \in q.steady
                   PROVE  \/ \E j \in DOMAIN ns : ns[j] = n
                          \/ \E i \in DOMAIN r.copy :
                               r.copy[i].node = n /\ r.copy[i].status = "available"
        BY <1>9 DEF CallKeeps
      <4>1. CASE \E j \in DOMAIN q.nodes : q.nodes[j] = n
        BY <4>1, <3>3
      <4>2. CASE \E i \in DOMAIN q.copy :
                   q.copy[i].node = n /\ q.copy[i].status = "available"
        <5>1. PICK i \in DOMAIN q.copy :
                q.copy[i].node = n /\ q.copy[i].status = "available"
          BY <4>2
        <5>2. CASE i = 1
          BY <1>5, <3>4, <5>1, <5>2
        <5>3. CASE i # 1
          BY <1>6, <1>9, <5>1, <5>3
        <5> QED  BY <5>2, <5>3
      <4> QED  BY <1>3, <4>1, <4>2 DEF CallInv, CallKeeps
    <3> QED  BY <2>1, <3>5, <3>6, <3>7 DEF CallInv
  <2> QED  BY <2>2, <2>3
<1>11. TypeOK' /\ OrderDistinct'
  BY <1>1, <1>2, <1>8 DEF RegistryInv, TypeOK, OrderDistinct, Registered
<1> QED  BY <1>1, <1>2, <1>10, <1>11 DEF RegistryInv

LEMMA MakePlanPreserves ==
  ASSUME RegistryInv, NEW p \in Planners, MakePlan(p)
  PROVE  RegistryInv'
<1> DEFINE q == planner[p]
           plan == PlanDispatch(q.layers, q.nodes)
           r == [q EXCEPT !.pc = "done", !.plan = plan]
<1>1. /\ planner \in [Planners -> PlannerCall]
      /\ q.pc = "filter" /\ q.copy = <<>>
      /\ UNCHANGED <<order, status>>
  BY DEF RegistryInv, TypeOK, MakePlan
<1>2. planner' = [planner EXCEPT ![p] = r]
  BY <1>1 DEF MakePlan, PlannerCall
<1>3. q \in PlannerCall /\ CallInv(q)
  BY <1>1 DEF RegistryInv
<1> HIDE DEF q
<1>4. q.layers \in Nat /\ q.nodes \in Seq(Nodes)
  BY <1>1, <1>3, LayersAssumption DEF CallInv, CallShape, PlannerCall
<1>5. plan \in Seq(Assignments(Nodes))
  BY <1>4, PlanType
<1> HIDE DEF plan
<1>6. r \in PlannerCall
  BY <1>3, <1>5 DEF PlannerCall
<1>7. /\ r.pc = "done" /\ r.layers = q.layers /\ r.copy = q.copy
      /\ r.nodes = q.nodes /\ r.atCopy = q.atCopy /\ r.steady = q.steady
      /\ r.plan = plan
  BY <1>3 DEF PlannerCall
<1> HIDE DEF r
<1>8. CallInv(r)
  BY <1>1, <1>3, <1>7
  DEF CallInv, CallShape, CallDistinct, CallWithin, CallKeeps, plan
<1>9. TypeOK' /\ OrderDistinct'
  BY <1>1, <1>2, <1>6 DEF RegistryInv, TypeOK, OrderDistinct, Registered
<1> QED  BY <1>1, <1>2, <1>8, <1>9 DEF RegistryInv

\* The inductive invariant holds in every reachable state.
THEOREM RegistryInvariant == Spec => []RegistryInv
<1>1. ASSUME RegistryInv, [Next]_vars PROVE RegistryInv'
  <2>1. CASE UNCHANGED vars
    BY <1>1, <2>1
    DEF vars, RegistryInv, TypeOK, OrderDistinct, Registered
  <2>2. CASE Next
    BY <1>1, <2>2, UpdateNodePreserves, ReapPreserves, CopyPreserves,
       FilterPreserves, MakePlanPreserves
    DEF Next
  <2> QED  BY <1>1, <2>1, <2>2
<1> QED  BY InitEstablishes, <1>1, PTL DEF Spec

\* Whatever the registry does while a request plans, the plan is a pipeline:
\* each layer on exactly one node, each node with one shard.
THEOREM PlansArePipelines == Spec => []PlanIsPipeline
<1>1. RegistryInv => PlanIsPipeline
  <2> SUFFICES ASSUME RegistryInv, NEW p \in Planners, Planned(p)
               PROVE  /\ IsPipeline(planner[p].layers, planner[p].plan)
                      /\ \A i, j \in DOMAIN planner[p].plan :
                           planner[p].plan[i].node = planner[p].plan[j].node
                             => i = j
    BY DEF PlanIsPipeline
  <2> DEFINE L == planner[p].layers
             nodes == planner[p].nodes
  <2>1. planner[p] \in PlannerCall /\ CallInv(planner[p])
    BY DEF RegistryInv, TypeOK
  <2>2. L \in Nat /\ nodes \in Seq(Nodes) /\ planner[p].plan = PlanDispatch(L, nodes)
    BY <2>1, LayersAssumption DEF CallInv, CallShape, PlannerCall, Planned
  <2>3. ~DispatchError(L, nodes)
    BY <2>2 DEF Planned, PlanDispatch
  <2>4. \A i, j \in DOMAIN nodes : nodes[i] = nodes[j] => i = j
    BY <2>1 DEF CallInv, CallDistinct
  <2> HIDE DEF L, nodes
  <2>5. /\ DOMAIN PlanDispatch(L, nodes) = DOMAIN nodes
        /\ \A i \in DOMAIN nodes : PlanDispatch(L, nodes)[i].node = nodes[i]
    BY <2>2, <2>3, PlanShape
  <2>6. IsPipeline(L, PlanDispatch(L, nodes))
    BY <2>2, <2>3, DispatchCorrect
  <2> QED  BY <2>2, <2>4, <2>5, <2>6 DEF L
<1> QED  BY RegistryInvariant, <1>1, PTL

\* The lock-free status filter of list_nodes is bracketed by what was
\* available when the copy was taken and what stayed available.
THEOREM PlansBracketAvailability == Spec => []PlansWhatWasAvailable
<1>1. RegistryInv => PlansWhatWasAvailable
  <2> SUFFICES ASSUME RegistryInv, NEW p \in Planners, planner[p].pc = "done"
               PROVE  LET nodes == planner[p].nodes
                          picked == {nodes[i] : i \in DOMAIN nodes}
                      IN  /\ planner[p].steady \subseteq picked
                          /\ picked \subseteq planner[p].atCopy
    BY DEF PlansWhatWasAvailable
  <2>1. CallInv(planner[p])
    BY DEF RegistryInv
  <2>2. planner[p].copy = <<>>
    BY <2>1 DEF CallInv, CallShape
  <2> QED  BY <2>1, <2>2 DEF CallInv, CallWithin, CallKeeps
<1> QED  BY RegistryInvariant, <1>1, PTL

\* Between requests as well as within one, the registry and its planning
\* threads keep their types, and a node has a status once it was heard from.
THEOREM RegistryTypes == Spec => []TypeOK
BY RegistryInvariant, PTL DEF RegistryInv

-----------------------------------------------------------------------------
\* A registry that only grows at its end keeps who came before whom.
LEMMA PrecedesPersists ==
  ASSUME NEW o \in Seq(Nodes), NEW n \in Nodes,
         NEW o2, o2 = o \/ o2 = Append(o, n)
  PROVE  \A k, l : Precedes(o, k, l) => Precedes(o2, k, l)
<1>1. \A i \in DOMAIN o : i \in DOMAIN o2 /\ o2[i] = o[i]
  OBVIOUS
<1> QED  BY <1>1 DEF Precedes

\* A call whose copy keeps its nodes stays in order.
LEMMA SameNodesInOrder ==
  ASSUME NEW q, NEW r, NEW o, NEW o2, CallInOrder(o, q),
         \A k, l : Precedes(o, k, l) => Precedes(o2, k, l),
         r.nodes = q.nodes, DOMAIN r.copy = DOMAIN q.copy,
         \A i \in DOMAIN q.copy : r.copy[i].node = q.copy[i].node
  PROVE  CallInOrder(o2, r)
BY DEF CallInOrder

LEMMA UpdateNodeKeepsOrder ==
  ASSUME RegistryInv, JoinOrderInv, NEW n \in Nodes, UpdateNode(n)
  PROVE  JoinOrderInv'
<1>1. order \in Seq(Nodes) /\ planner \in [Planners -> PlannerCall]
  BY DEF RegistryInv, TypeOK
<1>2. \A k, l : Precedes(order, k, l) => Precedes(order', k, l)
  <2>1. order' = order \/ order' = Append(order, n)
    BY DEF UpdateNode
  <2> QED  BY <1>1, <2>1, PrecedesPersists
<1>3. ASSUME NEW p \in Planners PROVE CallInOrder(order', planner'[p])
  <2> DEFINE q == planner[p]
             c == [i \in DOMAIN q.copy |-> Detached(q.copy[i], n)]
  <2>1. q \in PlannerCall /\ CallInOrder(order, q)
    BY <1>1 DEF JoinOrderInv
  <2>2. planner'[p].nodes = q.nodes /\ planner'[p].copy = c
    BY <1>1, <2>1 DEF UpdateNode, PlannerCall
  <2>3. \A i \in DOMAIN q.copy : q.copy[i] \in Entry
    BY <2>1 DEF PlannerCall
  <2>4. DOMAIN c = DOMAIN q.copy
        /\ \A i \in DOMAIN q.copy : c[i].node = q.copy[i].node
    BY <2>3, HeartbeatOnEntry
  <2> HIDE DEF q, c
  <2> QED  BY <1>2, <2>1, <2>2, <2>4, SameNodesInOrder
<1> QED  BY <1>3 DEF JoinOrderInv

LEMMA ReapKeepsOrder ==
  ASSUME RegistryInv, JoinOrderInv, NEW S \in SUBSET Nodes, ReapStaleNodes(S)
  PROVE  JoinOrderInv'
<1>1. order' = order /\ planner \in [Planners -> PlannerCall]
  BY DEF RegistryInv, TypeOK, ReapStaleNodes
<1>2. ASSUME NEW p \in Planners PROVE CallInOrder(order, planner'[p])
  <2> DEFINE q == planner[p]
             c == [i \in DOMAIN q.copy |-> Reaped(q.copy[i], S)]
  <2>1. q \in PlannerCall /\ CallInOrder(order, q)
    BY <1>1 DEF JoinOrderInv
  <2>2. planner'[p].nodes = q.nodes /\ planner'[p].copy = c
    BY <1>1, <2>1 DEF ReapStaleNodes, PlannerCall
  <2>3. \A i \in DOMAIN q.copy : q.copy[i] \in Entry
    BY <2>1 DEF PlannerCall
  <2>4. DOMAIN c = DOMAIN q.copy
        /\ \A i \in DOMAIN q.copy : c[i].node = q.copy[i].node
    BY <2>3, ReapOnEntry
  <2> HIDE DEF q, c
  <2> QED  BY <2>1, <2>2, <2>4, SameNodesInOrder
<1> QED  BY <1>1, <1>2 DEF JoinOrderInv

LEMMA CopyKeepsOrder ==
  ASSUME RegistryInv, JoinOrderInv, NEW p \in Planners, NEW L \in Layers,
         CopyNodes(p, L)
  PROVE  JoinOrderInv'
<1>1. order \in Seq(Nodes) /\ planner \in [Planners -> PlannerCall]
      /\ order' = order
  BY DEF RegistryInv, TypeOK, CopyNodes
<1> DEFINE c == [i \in DOMAIN order |->
                   [node |-> order[i], status |-> status[order[i]],
                    current |-> TRUE]]
<1>2. planner'[p].copy = c /\ planner'[p].nodes = <<>>
      /\ \A o \in Planners : o # p => planner'[o] = planner[o]
  BY <1>1 DEF CopyNodes
<1>3. DOMAIN c = DOMAIN order /\ \A i \in DOMAIN order : c[i].node = order[i]
  OBVIOUS
<1> HIDE DEF c
<1>4. CallInOrder(order, planner'[p])
  BY <1>2, <1>3 DEF CallInOrder, Precedes
<1> QED  BY <1>1, <1>2, <1>4 DEF JoinOrderInv

LEMMA FilterKeepsOrder ==
  ASSUME RegistryInv, JoinOrderInv, NEW p \in Planners, FilterNode(p)
  PROVE  JoinOrderInv'
<1> DEFINE q == planner[p]
           e == Head(q.copy)
           ns == IF e.status = "available" THEN Append(q.nodes, e.node) ELSE q.nodes
           c == Tail(q.copy)
<1>1. /\ planner \in [Planners -> PlannerCall]
      /\ q \in PlannerCall /\ q.copy # <<>> /\ order' = order
      /\ CallInOrder(order, q)
  BY DEF RegistryInv, JoinOrderInv, TypeOK, FilterNode
<1>2. planner'[p].copy = c /\ planner'[p].nodes = ns
      /\ \A o \in Planners : o # p => planner'[o] = planner[o]
  BY <1>1 DEF FilterNode, PlannerCall
<1>3. q.copy \in Seq(Entry) /\ q.nodes \in Seq(Nodes)
  BY <1>1 DEF PlannerCall
<1> HIDE DEF q
<1>4. /\ e = q.copy[1] /\ 1 \in DOMAIN q.copy
      /\ \A i \in DOMAIN c : /\ i \in Nat /\ i + 1 \in DOMAIN q.copy
                             /\ c[i] = q.copy[i + 1] /\ 1 < i + 1
      /\ \A i, j \in DOMAIN c : i < j => i + 1 < j + 1
  BY <1>1, <1>3
<1>5. \A j \in DOMAIN ns :
        \/ j \in DOMAIN q.nodes /\ ns[j] = q.nodes[j]
        \/ /\ j = Len(q.nodes) + 1 /\ ns[j] = e.node
           /\ \A i \in DOMAIN ns : i < j =>
                i \in DOMAIN q.nodes /\ ns[i] = q.nodes[i]
           /\ \A i \in DOMAIN ns : ~(j < i)
  BY <1>3
<1> HIDE DEF e, ns, c
<1>6. \A i, j \in DOMAIN c : i < j => Precedes(order, c[i].node, c[j].node)
  BY <1>1, <1>4 DEF CallInOrder
<1>7. \A i, j \in DOMAIN ns : i < j => Precedes(order, ns[i], ns[j])
  BY <1>1, <1>4, <1>5 DEF CallInOrder
<1>8. \A i \in DOMAIN ns, j \in DOMAIN c : Precedes(order, ns[i], c[j].node)
  BY <1>1, <1>4, <1>5 DEF CallInOrder
<1>9. CallInOrder(order, planner'[p])
  BY <1>2, <1>6, <1>7, <1>8 DEF CallInOrder
<1> QED  BY <1>1, <1>2, <1>9 DEF JoinOrderInv

LEMMA MakePlanKeepsOrder ==
  ASSUME RegistryInv, JoinOrderInv, NEW p \in Planners, MakePlan(p)
  PROVE  JoinOrderInv'
<1>1. planner \in [Planners -> PlannerCall] /\ order' = order
  BY DEF RegistryInv, TypeOK, MakePlan
<1>2. \A o \in Planners : planner'[o].copy = planner[o].copy
                          /\ planner'[o].nodes = planner[o].nodes
  BY <1>1 DEF MakePlan, PlannerCall
<1> QED  BY <1>1, <1>2 DEF JoinOrderInv, CallInOrder

\* However often nodes drop out and rejoin while a request plans, its shards
\* are laid out in the order in which the nodes first registered.
THEOREM PlansKeepJoinOrder == Spec => []PlanKeepsJoinOrder
<1>1. Init => JoinOrderInv
  BY DEF Init, Idle, JoinOrderInv, CallInOrder
<1>2. ASSUME RegistryInv, JoinOrderInv, [Next]_vars PROVE JoinOrderInv'
  <2>1. CASE UNCHANGED vars
    BY <1>2, <2>1 DEF vars, JoinOrderInv
  <2>2. CASE Next
    BY <1>2, <2>2, UpdateNodeKeepsOrder, ReapKeepsOrder, CopyKeepsOrder,
       FilterKeepsOrder, MakePlanKeepsOrder
    DEF Next
  <2> QED  BY <1>2, <2>1, <2>2
<1>3. RegistryInv /\ JoinOrderInv => PlanKeepsJoinOrder
  <2> SUFFICES ASSUME RegistryInv, JoinOrderInv, NEW p \in Planners, Planned(p),
                      NEW i \in DOMAIN planner[p].plan,
                      NEW j \in DOMAIN planner[p].plan, i < j
               PROVE  Precedes(order, planner[p].plan[i].node,
                                      planner[p].plan[j].node)
    BY DEF PlanKeepsJoinOrder, Precedes
  <2> DEFINE L == planner[p].layers
             nodes == planner[p].nodes
  <2>1. /\ planner[p] \in PlannerCall /\ CallInv(planner[p])
        /\ CallInOrder(order, planner[p])
    BY DEF RegistryInv, TypeOK, JoinOrderInv
  <2>2. L \in Nat /\ nodes \in Seq(Nodes) /\ planner[p].plan = PlanDispatch(L, nodes)
    BY <2>1, LayersAssumption DEF CallInv, CallShape, PlannerCall, Planned
  <2>3. ~DispatchError(L, nodes)
    BY <2>2 DEF Planned, PlanDispatch
  <2> HIDE DEF L, nodes
  <2>4. /\ DOMAIN PlanDispatch(L, nodes) = DOMAIN nodes
        /\ \A k \in DOMAIN nodes : PlanDispatch(L, nodes)[k].node = nodes[k]
    BY <2>2, <2>3, PlanShape
  <2> QED  BY <2>1, <2>2, <2>4 DEF CallInOrder, nodes
<1> QED  BY RegistryInvariant, <1>1, <1>2, <1>3, PTL DEF Spec

-----------------------------------------------------------------------------
(***************************************************************************)
(* What a plan becomes on the workers (ShardTensors).                      *)
(***************************************************************************)
\* Kind, index and part tell the names of parameters apart.
LEMMA NamesDiffer ==
  /\ \A k, p : LayerName(k, p).kind = "layers" /\ LayerName(k, p).idx = k
               /\ LayerName(k, p).part = p
  /\ EmbeddingsName.kind # "layers" /\ NormName.kind # "layers"
  /\ LmHeadName.kind # "layers"
  /\ EmbeddingsName # NormName /\ EmbeddingsName # LmHeadName /\ NormName # LmHeadName
BY DEF LayerName, EmbeddingsName, NormName, LmHeadName, Name

\* The fields of a TensorLocationSpec.
LEMMA LocationFields ==
  ASSUME NEW wm, NEW d, NEW s
  PROVE  /\ TensorLocation(wm, d, s).dest_name = d
         /\ TensorLocation(wm, d, s).source_name = s
         /\ TensorLocation(wm, d, s).source_file = wm[s]
BY DEF TensorLocation

\* A layer tensor's name is that of a parameter of some block.
CheckpointNames(wm) ==
  \A m \in DOMAIN wm :
    m.kind = "layers" => \E k \in Nat, p \in Parts : m = LayerName(k, p)

\* Layers start..end-1 are all stored.
LayersStored(wm, start, end) ==
  \A k \in start..(end - 1), p \in Parts : LayerName(k, p) \in DOMAIN wm

\* The location sent for parameter p of local layer k - start.
LayerLocation(wm, start, k, p) ==
  TensorLocation(wm, LayerName(k - start, p), LayerName(k, p))

\* What tensor_locations_for_range returns, location by location.
LEMMA LocationsOfRange ==
  ASSUME NEW wm, CheckpointNames(wm), NEW start \in Nat, NEW end \in Nat,
         NEW first, NEW last, NEW l
  PROVE  l \in TensorLocationsForRange(wm, start, end, first, last) <=>
           \/ first /\ l = TensorLocation(wm, EmbeddingsName, EmbeddingsName)
           \/ \E k \in start..(end - 1), p \in Parts :
                LayerName(k, p) \in DOMAIN wm /\ l = LayerLocation(wm, start, k, p)
           \/ last /\ l \in {TensorLocation(wm, NormName, NormName),
                             TensorLocation(wm, LmHeadName, LmHeadSource(wm))}
<1> DEFINE M == {TensorLocation(wm, LayerName(n.idx - start, n.part), n) :
                   n \in {m \in DOMAIN wm :
                            m.kind = "layers" /\ start <= m.idx /\ m.idx < end}}
           A == {TensorLocation(wm, EmbeddingsName, EmbeddingsName)}
           B == {TensorLocation(wm, NormName, NormName),
                 TensorLocation(wm, LmHeadName, LmHeadSource(wm))}
<1>1. l \in M <=> \E k \in start..(end - 1), p \in Parts :
                    LayerName(k, p) \in DOMAIN wm /\ l = LayerLocation(wm, start, k, p)
  <2>1. ASSUME NEW n \in DOMAIN wm, n.kind = "layers", start <= n.idx, n.idx < end,
               l = TensorLocation(wm, LayerName(n.idx - start, n.part), n)
        PROVE  \E k \in start..(end - 1), p \in Parts :
                 LayerName(k, p) \in DOMAIN wm /\ l = LayerLocation(wm, start, k, p)
    <3>1. PICK k \in Nat, p \in Parts : n = LayerName(k, p)
      BY <2>1 DEF CheckpointNames
    <3>2. n.idx = k /\ n.part = p
      BY <3>1, NamesDiffer
    <3>3. k \in start..(end - 1)
      BY <2>1, <3>2
    <3>4. LayerName(k, p) \in DOMAIN wm /\ l = LayerLocation(wm, start, k, p)
      BY <2>1, <3>1, <3>2 DEF LayerLocation
    <3> QED  BY <3>3, <3>4
  <2>2. ASSUME NEW k \in start..(end - 1), NEW p \in Parts,
               LayerName(k, p) \in DOMAIN wm, l = LayerLocation(wm, start, k, p)
        PROVE  l \in M
    <3> DEFINE n == LayerName(k, p)
    <3>1. n \in DOMAIN wm /\ n.kind = "layers" /\ n.idx = k /\ n.part = p
      BY <2>2, NamesDiffer
    <3>2. start <= n.idx /\ n.idx < end
      BY <3>1
    <3>3. l = TensorLocation(wm, LayerName(n.idx - start, n.part), n)
      BY <2>2, <3>1 DEF LayerLocation
    <3> HIDE DEF n
    <3> QED  BY <3>1, <3>2, <3>3
  <2> QED  BY <2>1, <2>2
<1>2. TensorLocationsForRange(wm, start, end, first, last) =
        (IF first THEN A ELSE {}) \cup M \cup (IF last THEN B ELSE {})
  BY Zenon DEF TensorLocationsForRange
<1> HIDE DEF M
<1> QED  BY <1>1, <1>2, Zenon

\* The names under which tensors are sent.
Dests(locs) == {l.dest_name : l \in locs}

\* d is the local name of a parameter of the range.
LocalName(start, end, d) ==
  \E k \in start..(end - 1), p \in Parts : d = LayerName(k - start, p)

\* The names a shard is sent ...
LEMMA DestNames ==
  ASSUME NEW wm, CheckpointNames(wm), NEW start \in Nat, NEW end \in Nat,
         NEW first, NEW last, NEW d
  PROVE  d \in Dests(TensorLocationsForRange(wm, start, end, first, last)) <=>
           \/ first /\ d = EmbeddingsName
           \/ \E k \in start..(end - 1), p \in Parts :
                LayerName(k, p) \in DOMAIN wm /\ d = LayerName(k - start, p)
           \/ last /\ d \in {NormName, LmHeadName}
<1> DEFINE locs == TensorLocationsForRange(wm, start, end, first, last)
           InLayers == \E k \in start..(end - 1), p \in Parts :
                         LayerName(k, p) \in DOMAIN wm /\ d = LayerName(k - start, p)
<1>1. ASSUME NEW l \in locs, d = l.dest_name
      PROVE  \/ first /\ d = EmbeddingsName
             \/ InLayers
             \/ last /\ d \in {NormName, LmHeadName}
  <2>1. CASE first /\ l = TensorLocation(wm, EmbeddingsName, EmbeddingsName)
    BY <1>1, <2>1, LocationFields
  <2>2. CASE last /\ l \in {TensorLocation(wm, NormName, NormName),
                            TensorLocation(wm, LmHeadName, LmHeadSource(wm))}
    BY <1>1, <2>2, LocationFields
  <2>3. CASE \E k \in start..(end - 1), p \in Parts :
               LayerName(k, p) \in DOMAIN wm /\ l = LayerLocation(wm, start, k, p)
    BY <1>1, <2>3, LocationFields DEF LayerLocation
  <2> HIDE DEF InLayers
  <2> QED  BY <1>1, <2>1, <2>2, <2>3, LocationsOfRange
<1>2. ASSUME first, d = EmbeddingsName
      PROVE  \E l \in locs : d = l.dest_name
  <2>1. TensorLocation(wm, EmbeddingsName, EmbeddingsName) \in locs
    BY <1>2, LocationsOfRange
  <2> HIDE DEF locs
  <2> QED  BY <1>2, <2>1, LocationFields
<1>3. ASSUME last, d \in {NormName, LmHeadName}
      PROVE  \E l \in locs : d = l.dest_name
  <2>1. /\ TensorLocation(wm, NormName, NormName) \in locs
        /\ TensorLocation(wm, LmHeadName, LmHeadSource(wm)) \in locs
    BY <1>3, LocationsOfRange
  <2> HIDE DEF locs
  <2> QED  BY <1>3, <2>1, LocationFields
<1>4. ASSUME InLayers
      PROVE  \E l \in locs : d = l.dest_name
  <2>1. PICK k \in start..(end - 1), p \in Parts :
          LayerName(k, p) \in DOMAIN wm /\ d = LayerName(k - start, p)
    BY <1>4
  <2>2. LayerLocation(wm, start, k, p) \in locs
    BY <2>1, LocationsOfRange
  <2>3. LayerLocation(wm, start, k, p).dest_name = d
    BY <2>1, LocationFields DEF LayerLocation
  <2> QED  BY <2>2, <2>3
<1>5. d \in Dests(locs) <=> \E l \in locs : d = l.dest_name
  BY DEF Dests
<1> HIDE DEF locs, InLayers
<1>6. d \in Dests(locs) <=>
        \/ first /\ d = EmbeddingsName
        \/ InLayers
        \/ last /\ d \in {NormName, LmHeadName}
  BY <1>1, <1>2, <1>3, <1>4, <1>5
<1> QED  BY <1>6 DEF locs, InLayers

\* ... and the names of its own parameters.
LEMMA OwnNames ==
  ASSUME NEW start \in Nat, NEW end \in Nat, NEW first, NEW last, NEW d
  PROVE  d \in OwnParameters(start, end, first, last) <=>
           \/ first /\ d = EmbeddingsName
           \/ LocalName(start, end, d)
           \/ last /\ d \in {NormName, LmHeadName}
<1> DEFINE M == LayerNames(0..(end - start - 1))
<1>1. d \in M <=> LocalName(start, end, d)
  <2>1. ASSUME NEW i \in 0..(end - start - 1), NEW p \in Parts, d = LayerName(i, p)
        PROVE  LocalName(start, end, d)
    <3>1. start + i \in start..(end - 1) /\ (start + i) - start = i
      OBVIOUS
    <3> QED  BY <2>1, <3>1 DEF LocalName
  <2>2. ASSUME NEW k \in start..(end - 1), NEW p \in Parts, d = LayerName(k - start, p)
        PROVE  d \in M
    <3>1. k - start \in 0..(end - start - 1)
      OBVIOUS
    <3> QED  BY <2>2, <3>1 DEF LayerNames
  <2>3. d \in M <=> \E i \in 0..(end - start - 1), p \in Parts : d = LayerName(i, p)
    BY DEF LayerNames
  <2> HIDE DEF M
  <2> QED  BY <2>1, <2>2, <2>3 DEF LocalName
<1>2. OwnParameters(start, end, first, last) =
        (IF first THEN {EmbeddingsName} ELSE {}) \cup M
        \cup (IF last THEN {NormName, LmHeadName} ELSE {})
  BY DEF OwnParameters
<1> HIDE DEF M
<1> QED  BY <1>1, <1>2

\* load_state_dict succeeds exactly if every layer of the range is stored.
LEMMA LoadsIffStored ==
  ASSUME NEW wm, CheckpointNames(wm), NEW start \in Nat, NEW end \in Nat,
         NEW first, NEW last
  PROVE  LoadsStrictly(TensorLocationsForRange(wm, start, end, first, last),
                       start, end, first, last)
           <=> LayersStored(wm, start, end)
<1> DEFINE D == Dests(TensorLocationsForRange(wm, start, end, first, last))
           O == OwnParameters(start, end, first, last)
<1>1. ASSUME LayersStored(wm, start, end)
      PROVE  D = O
  <2>1. ASSUME NEW d PROVE d \in D <=> d \in O
    <3>1. (\E k \in start..(end - 1), p \in Parts :
             LayerName(k, p) \in DOMAIN wm /\ d = LayerName(k - start, p))
          <=> LocalName(start, end, d)
      BY <1>1 DEF LayersStored, LocalName
    <3>2. d \in D <=>
            \/ first /\ d = EmbeddingsName
            \/ \E k \in start..(end - 1), p \in Parts :
                 LayerName(k, p) \in DOMAIN wm /\ d = LayerName(k - start, p)
            \/ last /\ d \in {NormName, LmHeadName}
      BY DestNames
    <3>3. d \in O <=>
            \/ first /\ d = EmbeddingsName
            \/ LocalName(start, end, d)
            \/ last /\ d \in {NormName, LmHeadName}
      BY OwnNames
    <3> QED  BY <3>1, <3>2, <3>3, Zenon
  <2> HIDE DEF D, O
  <2> QED  BY <2>1
<1>2. ASSUME D = O, NEW k \in start..(end - 1), NEW p \in Parts
      PROVE  LayerName(k, p) \in DOMAIN wm
  <2> DEFINE d == LayerName(k - start, p)
  <2>1. d \in O
    BY OwnNames DEF LocalName
  <2>2. d \in D
    BY <1>2, <2>1
  <2>3. d # EmbeddingsName /\ d # NormName /\ d # LmHeadName
    BY NamesDiffer
  <2> HIDE DEF d
  <2>4. PICK j \in start..(end - 1), q \in Parts :
          LayerName(j, q) \in DOMAIN wm /\ d = LayerName(j - start, q)
    <3>1. d \in D <=>
            \/ first /\ d = EmbeddingsName
            \/ \E j \in start..(end - 1), q \in Parts :
                 LayerName(j, q) \in DOMAIN wm /\ d = LayerName(j - start, q)
            \/ last /\ d \in {NormName, LmHeadName}
      BY DestNames
    <3> QED  BY <2>2, <2>3, <3>1, Zenon
  <2>5. j - start = k - start /\ q = p
    BY <2>4, NamesDiffer DEF d
  <2>6. j = k
    BY <2>5
  <2> QED  BY <2>4, <2>5, <2>6
<1> HIDE DEF D, O
<1>3. (D = O) <=> LayersStored(wm, start, end)
  BY <1>1, <1>2 DEF LayersStored
<1> QED  BY <1>3 DEF LoadsStrictly, Dests, D, O

\* A name sent once is loaded from its one location.
LEMMA StateDictAt ==
  ASSUME NEW locs, NEW l \in locs,
         \A k \in locs : k.dest_name = l.dest_name => k = l
  PROVE  StateDict(locs)[l.dest_name] = <<l.source_file, l.source_name>>
<1> DEFINE c == CHOOSE k \in locs : k.dest_name = l.dest_name
<1>1. c \in locs /\ c.dest_name = l.dest_name
  OBVIOUS
<1>2. c = l
  BY <1>1
<1>3. l.dest_name \in {k.dest_name : k \in locs}
  OBVIOUS
<1>4. StateDict(locs)[l.dest_name] = <<c.source_file, c.source_name>>
  BY <1>3 DEF StateDict
<1> QED  BY <1>2, <1>4

\* No two locations of a shard have the same name.
LEMMA LocationUnique ==
  ASSUME NEW wm, CheckpointNames(wm), NEW start \in Nat, NEW end \in Nat,
         NEW first, NEW last,
         NEW l \in TensorLocationsForRange(wm, start, end, first, last),
         NEW j \in TensorLocationsForRange(wm, start, end, first, last),
         j.dest_name = l.dest_name
  PROVE  j = l
<1> DEFINE E(x) == x = TensorLocation(wm, EmbeddingsName, EmbeddingsName)
           N(x) == x = TensorLocation(wm, NormName, NormName)
           H(x) == x = TensorLocation(wm, LmHeadName, LmHeadSource(wm))
           Y(x) == \E k \in start..(end - 1), p \in Parts :
                     x = LayerLocation(wm, start, k, p)
<1>1. (E(l) \/ N(l) \/ H(l) \/ Y(l)) /\ (E(j) \/ N(j) \/ H(j) \/ Y(j))
  BY LocationsOfRange
<1>2. ASSUME NEW x PROVE /\ E(x) => x.dest_name = EmbeddingsName
                         /\ N(x) => x.dest_name = NormName
                         /\ H(x) => x.dest_name = LmHeadName
                         /\ Y(x) => x.dest_name.kind = "layers"
  <2>1. Y(x) => x.dest_name.kind = "layers"
    BY LocationFields, NamesDiffer DEF LayerLocation
  <2> QED  BY <2>1, LocationFields
<1>3. ASSUME Y(l), Y(j) PROVE j = l
  <2>1. PICK k \in start..(end - 1), p \in Parts : l = LayerLocation(wm, start, k, p)
    BY <1>3
  <2>2. PICK m \in start..(end - 1), q \in Parts : j = LayerLocation(wm, start, m, q)
    BY <1>3
  <2>3. LayerName(k - start, p) = LayerName(m - start, q)
    BY <2>1, <2>2, LocationFields DEF LayerLocation
  <2>4. k - start = m - start /\ p = q
    BY <2>3, NamesDiffer
  <2>5. k = m
    BY <2>4
  <2> QED  BY <2>1, <2>2, <2>4, <2>5
<1>4. ASSUME E(l) \/ N(l) \/ H(l), E(j) \/ N(j) \/ H(j) PROVE j = l
  BY <1>2, <1>4, NamesDiffer
<1>5. ~((E(l) \/ N(l) \/ H(l)) /\ Y(j)) /\ ~(Y(l) /\ (E(j) \/ N(j) \/ H(j)))
  <2> HIDE DEF E, N, H, Y
  <2> QED  BY <1>2, NamesDiffer
<1> HIDE DEF E, N, H, Y
<1> QED  BY <1>1, <1>3, <1>4, <1>5

\* The weights of the shard of a range, in a model of L layers.
ShardWeights(wm, L, start, end) ==
  StateDict(TensorLocationsForRange(wm, start, end, start = 0, end = L))

\* Every parameter is read from where the checkpoint stores it: the local
\* layer k - start is layer k, and a tied head is the embedding.
LEMMA WeightsOfRange ==
  ASSUME NEW wm, CheckpointNames(wm), NEW start \in Nat, NEW end \in Nat,
         NEW L, LayersStored(wm, start, end)
  PROVE  /\ start = 0 => ShardWeights(wm, L, start, end)[EmbeddingsName] =
                           <<wm[EmbeddingsName], EmbeddingsName>>
         /\ end = L => ShardWeights(wm, L, start, end)[NormName] =
                         <<wm[NormName], NormName>>
         /\ end = L => ShardWeights(wm, L, start, end)[LmHeadName] =
                         <<wm[LmHeadSource(wm)], LmHeadSource(wm)>>
         /\ \A k \in start..(end - 1), p \in Parts :
              ShardWeights(wm, L, start, end)[LayerName(k - start, p)] =
                <<wm[LayerName(k, p)], LayerName(k, p)>>
<1> DEFINE locs == TensorLocationsForRange(wm, start, end, start = 0, end = L)
<1>1. ASSUME NEW d, NEW s, TensorLocation(wm, d, s) \in locs
      PROVE  StateDict(locs)[d] = <<wm[s], s>>
  <2> DEFINE l == TensorLocation(wm, d, s)
  <2>1. \A k \in locs : k.dest_name = l.dest_name => k = l
    BY <1>1, LocationUnique
  <2>2. l.dest_name = d /\ l.source_name = s /\ l.source_file = wm[s]
    BY LocationFields
  <2> HIDE DEF l, locs
  <2>3. l \in locs
    BY <1>1 DEF l
  <2>4. StateDict(locs)[l.dest_name] = <<l.source_file, l.source_name>>
    BY <2>1, <2>3, StateDictAt
  <2> QED  BY <2>2, <2>4
<1>2. start = 0 => TensorLocation(wm, EmbeddingsName, EmbeddingsName) \in locs
  BY LocationsOfRange
<1>3. end = L => /\ TensorLocation(wm, NormName, NormName) \in locs
              /\ TensorLocation(wm, LmHeadName, LmHeadSource(wm)) \in locs
  BY LocationsOfRange
<1>4. ASSUME NEW k \in start..(end - 1), NEW p \in Parts
      PROVE  TensorLocation(wm, LayerName(k - start, p), LayerName(k, p)) \in locs
  <2>1. LayerName(k, p) \in DOMAIN wm
    BY DEF LayersStored
  <2> QED  BY <2>1, LocationsOfRange DEF LayerLocation
<1> HIDE DEF locs
<1>5. /\ start = 0 => StateDict(locs)[EmbeddingsName] =
                        <<wm[EmbeddingsName], EmbeddingsName>>
      /\ end = L => StateDict(locs)[NormName] = <<wm[NormName], NormName>>
      /\ end = L => StateDict(locs)[LmHeadName] =
                      <<wm[LmHeadSource(wm)], LmHeadSource(wm)>>
      /\ \A k \in start..(end - 1), p \in Parts :
           StateDict(locs)[LayerName(k - start, p)] =
             <<wm[LayerName(k, p)], LayerName(k, p)>>
  BY <1>1, <1>2, <1>3, <1>4
<1>6. ShardWeights(wm, L, start, end) = StateDict(locs)
  BY DEF locs, ShardWeights
<1> HIDE DEF locs
<1> QED  BY <1>5, <1>6

\* What the worker keeps of a load request.
LEMMA ShardFields ==
  ASSUME NEW L, NEW a, NEW locs
  PROVE  /\ BuildShard(L, a, locs).ok <=>
              LoadsStrictly(locs, a.layer_start, a.layer_end,
                            a.layer_start = 0, a.layer_end = L)
         /\ BuildShard(L, a, locs).is_first <=> a.layer_start = 0
         /\ BuildShard(L, a, locs).is_last <=> a.layer_end = L
         /\ BuildShard(L, a, locs).layer_start = a.layer_start
         /\ BuildShard(L, a, locs).layer_end = a.layer_end
         /\ BuildShard(L, a, locs).weights = StateDict(locs)
BY Zenon DEF BuildShard

\* Nothing sent: a shard with a head or an embedding does not load.
LEMMA NothingSent ==
  ASSUME NEW start \in Nat, NEW end \in Nat, NEW first, NEW last, first \/ last
  PROVE  ~LoadsStrictly({}, start, end, first, last)
<1>1. EmbeddingsName \in OwnParameters(start, end, first, last)
      \/ NormName \in OwnParameters(start, end, first, last)
  BY OwnNames, Zenon
<1> QED  BY <1>1, Zenon DEF LoadsStrictly

\* The roles of the orchestrator's assignment are those of the worker.
LEMMA ExtractByRange ==
  ASSUME NEW wm, NEW L, NEW a,
         a.is_first <=> a.layer_start = 0, a.is_last <=> a.layer_end = L
  PROVE  ExtractShard(wm, a) =
           IF NamesFound(wm, a.layer_start = 0, a.layer_end = L)
           THEN TensorLocationsForRange(wm, a.layer_start, a.layer_end,
                                        a.layer_start = 0, a.layer_end = L)
           ELSE {}
<1>1. NamesFound(wm, a.is_first, a.is_last) <=>
        NamesFound(wm, a.layer_start = 0, a.layer_end = L)
  BY Zenon DEF NamesFound
<1>2. TensorLocationsForRange(wm, a.layer_start, a.layer_end, a.is_first, a.is_last) =
        TensorLocationsForRange(wm, a.layer_start, a.layer_end,
                                a.layer_start = 0, a.layer_end = L)
  BY Zenon DEF TensorLocationsForRange
<1> QED  BY <1>1, <1>2, Zenon DEF ExtractShard

\* A shard builds exactly if the checkpoint has what its range and role need.
LEMMA BuildsIffStored ==
  ASSUME NEW wm, CheckpointNames(wm), NEW L \in Nat, NEW a,
         a.layer_start \in Nat, a.layer_end \in Nat,
         a.is_first <=> a.layer_start = 0, a.is_last <=> a.layer_end = L
  PROVE  BuildShard(L, a, ExtractShard(wm, a)).ok <=>
           /\ NamesFound(wm, a.layer_start = 0, a.layer_end = L)
           /\ LayersStored(wm, a.layer_start, a.layer_end)
<1> DEFINE first == a.layer_start = 0
           last == a.layer_end = L
           locs == TensorLocationsForRange(wm, a.layer_start, a.layer_end, first, last)
<1>1. BuildShard(L, a, ExtractShard(wm, a)).ok <=>
        LoadsStrictly(ExtractShard(wm, a), a.layer_start, a.layer_end, first, last)
  BY ShardFields, Zenon
<1>2. CASE NamesFound(wm, first, last)
  <2>1. ExtractShard(wm, a) = locs
    BY <1>2, ExtractByRange, Zenon
  <2>2. LoadsStrictly(locs, a.layer_start, a.layer_end, first, last) <=>
          LayersStored(wm, a.layer_start, a.layer_end)
    BY LoadsIffStored, Zenon
  <2> HIDE DEF locs, first, last
  <2>3. NamesFound(wm, first, last)
    BY <1>2
  <2>4. BuildShard(L, a, ExtractShard(wm, a)).ok <=>
           NamesFound(wm, first, last) /\ LayersStored(wm, a.layer_start, a.layer_end)
    BY <1>1, <2>1, <2>2, <2>3, Zenon
  <2> QED  BY <2>4 DEF first, last
<1>3. CASE ~NamesFound(wm, first, last)
  <2>1. ExtractShard(wm, a) = {}
    BY <1>3, ExtractByRange, Zenon
  <2>2. first \/ last
    BY <1>3, Zenon DEF NamesFound
  <2>3. ~LoadsStrictly({}, a.layer_start, a.layer_end, first, last)
    BY <2>2, NothingSent, Zenon
  <2> QED  BY <1>1, <1>3, <2>1, <2>3, Zenon
<1> QED  BY <1>2, <1>3, Zenon

-----------------------------------------------------------------------------
\* What plan_dispatch's plan for n nodes is to the workers (PlanShape).
Divides(L, n, plan) ==
  /\ n \in Nat /\ n >= 1 /\ n <= L
  /\ DOMAIN plan = 1..n /\ Len(plan) = n
  /\ \A i \in 1..n : /\ plan[i].layer_start = RangeStart(L, n, i)
                     /\ plan[i].layer_end = RangeEnd(L, n, i)
                     /\ plan[i].is_first <=> i = 1
                     /\ plan[i].is_last <=> i = n

\* The ranges of a plan (RangesAdjacent), by assignment.
LEMMA RangeFacts ==
  ASSUME NEW L \in Nat, NEW n, NEW plan, Divides(L, n, plan), NEW i \in 1..n
  PROVE  /\ n \in Nat /\ n >= 1 /\ i \in Nat /\ i \in DOMAIN plan
         /\ plan[i].layer_start \in Nat /\ plan[i].layer_end \in Nat
         /\ plan[i].layer_start < plan[i].layer_end
         /\ plan[i].layer_end <= L
         /\ plan[i].layer_start = 0 <=> i = 1
         /\ plan[i].layer_end = L <=> i = n
         /\ i < n => plan[i + 1].layer_start = plan[i].layer_end
<1>1. n \in Nat /\ n >= 1 /\ n <= L /\ DOMAIN plan = 1..n
  BY Zenon DEF Divides
<1>2. plan[i].layer_start = RangeStart(L, n, i) /\ plan[i].layer_end = RangeEnd(L, n, i)
  BY Zenon DEF Divides
<1>3. i < n => plan[i + 1].layer_start = RangeStart(L, n, i + 1)
  <2> HAVE i < n
  <2>1. i + 1 \in 1..n
    BY <1>1
  <2> QED  BY <2>1, Zenon DEF Divides
<1>4. /\ RangeStart(L, n, i) \in Nat /\ RangeEnd(L, n, i) \in Nat
      /\ RangeStart(L, n, i) < RangeEnd(L, n, i)
      /\ RangeEnd(L, n, i) <= L
  BY <1>1, RangesAdjacent
<1>5. i = 1 <=> RangeStart(L, n, i) = 0
  BY <1>1, RangesAdjacent
<1>6. i = n <=> RangeEnd(L, n, i) = L
  BY <1>1, RangesAdjacent
<1>7. i < n => RangeStart(L, n, i + 1) = RangeEnd(L, n, i)
  BY <1>1, RangesAdjacent
<1> QED  BY <1>1, <1>2, <1>3, <1>4, <1>5, <1>6, <1>7

\* Orchestrator and workers agree on who is first and last.
LEMMA RolesOfPlan ==
  ASSUME NEW L \in Nat, NEW n, NEW plan, Divides(L, n, plan), NEW i \in 1..n
  PROVE  /\ plan[i].is_first <=> plan[i].layer_start = 0
         /\ plan[i].is_last <=> plan[i].layer_end = L
<1>1. (plan[i].is_first <=> i = 1) /\ (plan[i].is_last <=> i = n)
  BY Zenon DEF Divides
<1>2. (plan[i].layer_start = 0 <=> i = 1) /\ (plan[i].layer_end = L <=> i = n)
  BY RangeFacts
<1> QED  BY <1>1, <1>2, Zenon

\* What a model of L layers cannot do without, part by part.
LEMMA NeededParts ==
  ASSUME NEW wm, NEW L \in Nat
  PROVE  Needed(L) \subseteq DOMAIN wm <=>
           EmbeddingsName \in DOMAIN wm /\ NormName \in DOMAIN wm /\ LayersStored(wm, 0, L)
<1>1. \A d : d \in LayerNames(0..(L - 1)) <=>
               \E k \in 0..(L - 1), p \in Parts : d = LayerName(k, p)
  BY DEF LayerNames
<1>2. LayerNames(0..(L - 1)) \subseteq DOMAIN wm <=> LayersStored(wm, 0, L)
  <2>1. ASSUME LayersStored(wm, 0, L), NEW d \in LayerNames(0..(L - 1))
        PROVE  d \in DOMAIN wm
    BY <1>1, <2>1 DEF LayersStored
  <2>2. ASSUME LayerNames(0..(L - 1)) \subseteq DOMAIN wm,
               NEW k \in 0..(L - 1), NEW p \in Parts
        PROVE  LayerName(k, p) \in DOMAIN wm
    BY <1>1, <2>2
  <2> QED  BY <2>1, <2>2, Zenon DEF LayersStored
<1> QED  BY <1>2, Zenon DEF Needed

\* When shard i of a plan builds.
LEMMA ShardOk ==
  ASSUME NEW wm, CheckpointNames(wm), NEW L \in Nat, NEW n, NEW plan,
         Divides(L, n, plan), NEW i \in 1..n
  PROVE  Shards(wm, L, plan)[i].ok <=>
           /\ i = 1 => EmbeddingsName \in DOMAIN wm
           /\ i = n => NormName \in DOMAIN wm /\ LmHeadSource(wm) \in DOMAIN wm
           /\ LayersStored(wm, plan[i].layer_start, plan[i].layer_end)
<1> DEFINE a == plan[i]
           s == BuildShard(L, a, ExtractShard(wm, a))
<1>1. i \in DOMAIN plan
  BY RangeFacts
<1>2. Shards(wm, L, plan)[i] = s
  BY <1>1, Zenon DEF Shards
<1>3. /\ a.layer_start \in Nat /\ a.layer_end \in Nat
      /\ a.layer_start = 0 <=> i = 1
      /\ a.layer_end = L <=> i = n
  BY RangeFacts
<1>4. a.is_first <=> a.layer_start = 0
  BY RolesOfPlan
<1>5. a.is_last <=> a.layer_end = L
  BY RolesOfPlan
<1> HIDE DEF a
<1>6. s.ok <=> /\ NamesFound(wm, a.layer_start = 0, a.layer_end = L)
               /\ LayersStored(wm, a.layer_start, a.layer_end)
  BY <1>3, <1>4, <1>5, BuildsIffStored, Zenon
<1> HIDE DEF s
<1>7. NamesFound(wm, a.layer_start = 0, a.layer_end = L) <=>
        /\ i = 1 => EmbeddingsName \in DOMAIN wm
        /\ i = n => NormName \in DOMAIN wm /\ LmHeadSource(wm) \in DOMAIN wm
  BY <1>3, Zenon DEF NamesFound
<1>8. s.ok <=>
           /\ i = 1 => EmbeddingsName \in DOMAIN wm
           /\ i = n => NormName \in DOMAIN wm /\ LmHeadSource(wm) \in DOMAIN wm
           /\ LayersStored(wm, a.layer_start, a.layer_end)
  BY <1>6, <1>7, Zenon
<1> QED  BY <1>2, <1>8, Zenon DEF a

\* The shards of a plan build on all workers exactly if the checkpoint has
\* every tensor a model of L layers needs.
LEMMA AllBuildIffNeeded ==
  ASSUME NEW wm, CheckpointNames(wm), NEW L \in Nat, NEW n, NEW plan,
         Divides(L, n, plan)
  PROVE  (\A i \in DOMAIN plan : Shards(wm, L, plan)[i].ok)
           <=> Needed(L) \subseteq DOMAIN wm
<1>1. n \in Nat /\ n >= 1 /\ n <= L /\ DOMAIN plan = 1..n
  BY Zenon DEF Divides
<1>2. ASSUME Needed(L) \subseteq DOMAIN wm, NEW i \in 1..n
      PROVE  Shards(wm, L, plan)[i].ok
  <2>1. EmbeddingsName \in DOMAIN wm /\ NormName \in DOMAIN wm /\ LayersStored(wm, 0, L)
    BY <1>2, NeededParts, Zenon
  <2>2. LmHeadSource(wm) \in DOMAIN wm
    BY <2>1, Zenon DEF LmHeadSource
  <2>3. LayersStored(wm, plan[i].layer_start, plan[i].layer_end)
    <3>1. \A k \in plan[i].layer_start..(plan[i].layer_end - 1) : k \in 0..(L - 1)
      BY RangeFacts
    <3> QED  BY <2>1, <3>1, Zenon DEF LayersStored
  <2> QED  BY <2>1, <2>2, <2>3, ShardOk, Zenon
<1>3. ASSUME \A i \in 1..n : Shards(wm, L, plan)[i].ok
      PROVE  Needed(L) \subseteq DOMAIN wm
  <2>1. 1 \in 1..n /\ n \in 1..n
    BY <1>1
  <2>2. EmbeddingsName \in DOMAIN wm
    BY <1>3, <2>1, ShardOk, Zenon
  <2>3. NormName \in DOMAIN wm
    BY <1>3, <2>1, ShardOk, Zenon
  <2>4. ASSUME NEW k \in 0..(L - 1), NEW p \in Parts
        PROVE  LayerName(k, p) \in DOMAIN wm
    <3>1. PICK i \in 1..n : RangeStart(L, n, i) <= k /\ k < RangeEnd(L, n, i)
      BY <1>1, RangesCover
    <3>2. plan[i].layer_start = RangeStart(L, n, i) /\ plan[i].layer_end = RangeEnd(L, n, i)
      BY Zenon DEF Divides
    <3>3. plan[i].layer_start \in Nat /\ plan[i].layer_end \in Nat
      BY RangeFacts
    <3>4. k \in plan[i].layer_start..(plan[i].layer_end - 1)
      BY <3>1, <3>2, <3>3
    <3>5. LayersStored(wm, plan[i].layer_start, plan[i].layer_end)
      BY <1>3, ShardOk, Zenon
    <3> QED  BY <3>4, <3>5, Zenon DEF LayersStored
  <2>5. LayersStored(wm, 0, L)
    BY <2>4, Zenon DEF LayersStored
  <2> QED  BY <2>2, <2>3, <2>5, NeededParts, Zenon
<1> QED  BY <1>1, <1>2, <1>3, Zenon

\* The operations of the whole model, one by one.
EmbedOf(wm) == EmbedOp(<<wm[EmbeddingsName], EmbeddingsName>>)
NormOf(wm) == NormOp(<<wm[NormName], NormName>>)
HeadOf(wm) == HeadOp(<<wm[LmHeadSource(wm)], LmHeadSource(wm)>>)
LayerOf(wm, k) ==
  BlockOp({<<p, <<wm[LayerName(k, p)], LayerName(k, p)>> >> : p \in Parts}, k)

\* All of them.
OpsOf(wm, L) ==
  {EmbedOf(wm), NormOf(wm), HeadOf(wm)} \cup {LayerOf(wm, k) : k \in 0..(L - 1)}

\* Where the elements of a concatenation are.
LEMMA Glue ==
  ASSUME NEW S, NEW s \in Seq(S), NEW t \in Seq(S)
  PROVE  /\ s \o t \in Seq(S) /\ Len(s \o t) = Len(s) + Len(t)
         /\ \A i \in 1..Len(s) : (s \o t)[i] = s[i]
         /\ \A i \in 1..Len(t) : (s \o t)[Len(s) + i] = t[i]
<1> DEFINE r == s \o t
           m == Len(s)
           k == Len(t)
<1>1. /\ r \in Seq(S)
      /\ Len(r) = m + k
      /\ \A i \in 1..(m + k) : r[i] = IF i <= m THEN s[i] ELSE t[i - m]
  BY ConcatProperties, Zenon
<1>2. m \in Nat /\ k \in Nat
  BY LenProperties
<1> HIDE DEF r, m, k
<1>3. \A i \in 1..m : r[i] = s[i]
  BY <1>1, <1>2
<1>4. ASSUME NEW i \in 1..k PROVE r[m + i] = t[i]
  <2>1. m + i \in 1..(m + k) /\ ~(m + i <= m) /\ (m + i) - m = i
    BY <1>2
  <2> QED  BY <1>1, <2>1
<1> QED  BY <1>1, <1>3, <1>4 DEF r, m, k

\* Embedding, L blocks, norm and head, at their places.
LEMMA WholeModelPoints ==
  ASSUME NEW wm, NEW L \in Nat
  PROVE  /\ WholeModel(wm, L) \in Seq(OpsOf(wm, L))
         /\ Len(WholeModel(wm, L)) = L + 3
         /\ WholeModel(wm, L)[1] = EmbedOf(wm)
         /\ \A k \in 0..(L - 1) : WholeModel(wm, L)[k + 2] = LayerOf(wm, k)
         /\ WholeModel(wm, L)[L + 2] = NormOf(wm)
         /\ WholeModel(wm, L)[L + 3] = HeadOf(wm)
<1> DEFINE W == WholeModel(wm, L)
           S == OpsOf(wm, L)
           e == <<EmbedOf(wm)>>
           b == [i \in 1..L |-> LayerOf(wm, i - 1)]
           c == <<NormOf(wm), HeadOf(wm)>>
<1>1. W = (e \o b) \o c
  <2>1. b = [i \in 1..L |->
             BlockOp({<<p, <<wm[LayerName(i - 1, p)], LayerName(i - 1, p)>> >> : p \in Parts},
                     i - 1)]
    BY DEF LayerOf
  <2> HIDE DEF b
  <2> QED  BY <2>1, Zenon DEF WholeModel, EmbedOf, NormOf, HeadOf
<1>2. EmbedOf(wm) \in S /\ NormOf(wm) \in S /\ HeadOf(wm) \in S
      /\ \A i \in 1..L : LayerOf(wm, i - 1) \in S
  <2>1. \A i \in 1..L : i - 1 \in 0..(L - 1)
    OBVIOUS
  <2> QED  BY <2>1, Zenon DEF OpsOf
<1> HIDE DEF S, W
<1>3. e \in Seq(S) /\ Len(e) = 1 /\ e[1] = EmbedOf(wm)
  BY <1>2
<1>4. b \in Seq(S) /\ Len(b) = L /\ \A i \in 1..L : b[i] = LayerOf(wm, i - 1)
  BY <1>2
<1>5. c \in Seq(S) /\ Len(c) = 2 /\ c[1] = NormOf(wm) /\ c[2] = HeadOf(wm)
  BY <1>2
<1> HIDE DEF e, b, c
<1> DEFINE eb == e \o b
<1>6. /\ eb \in Seq(S) /\ Len(eb) = 1 + L
      /\ \A i \in 1..1 : eb[i] = e[i]
      /\ \A i \in 1..L : eb[1 + i] = b[i]
  <2>1. /\ eb \in Seq(S) /\ Len(eb) = Len(e) + Len(b)
        /\ \A i \in 1..Len(e) : eb[i] = e[i]
        /\ \A i \in 1..Len(b) : eb[Len(e) + i] = b[i]
    <3>1. e \in Seq(S) /\ b \in Seq(S)
      BY <1>3, <1>4
    <3> QED  BY <3>1, Glue
  <2> HIDE DEF eb
  <2> QED  BY <1>3, <1>4, <2>1
<1> HIDE DEF eb
<1>7. /\ eb \o c \in Seq(S) /\ Len(eb \o c) = (1 + L) + 2
      /\ \A i \in 1..(1 + L) : (eb \o c)[i] = eb[i]
      /\ \A i \in 1..2 : (eb \o c)[(1 + L) + i] = c[i]
  <2> DEFINE v == eb \o c
  <2>1. /\ v \in Seq(S) /\ Len(v) = Len(eb) + Len(c)
        /\ \A i \in 1..Len(eb) : v[i] = eb[i]
        /\ \A i \in 1..Len(c) : v[Len(eb) + i] = c[i]
    <3>1. eb \in Seq(S) /\ c \in Seq(S)
      BY <1>5, <1>6
    <3> QED  BY <3>1, Glue
  <2> HIDE DEF v
  <2>2. /\ v \in Seq(S) /\ Len(v) = (1 + L) + 2
        /\ \A i \in 1..(1 + L) : v[i] = eb[i]
        /\ \A i \in 1..2 : v[(1 + L) + i] = c[i]
    BY <1>5, <1>6, <2>1
  <2> QED  BY <2>2 DEF v
<1>8. W = eb \o c
  BY <1>1 DEF eb
<1> DEFINE w == eb \o c
<1> HIDE DEF w
<1>9. w[1] = EmbedOf(wm) /\ w[L + 2] = NormOf(wm) /\ w[L + 3] = HeadOf(wm)
  <2>1. w[1] = eb[1] /\ eb[1] = e[1]
    BY <1>6, <1>7 DEF w
  <2>2. w[(1 + L) + 1] = c[1] /\ w[(1 + L) + 2] = c[2]
    BY <1>7 DEF w
  <2>3. (1 + L) + 1 = L + 2 /\ (1 + L) + 2 = L + 3
    OBVIOUS
  <2> QED  BY <1>3, <1>5, <2>1, <2>2, <2>3
<1>10. ASSUME NEW k \in 0..(L - 1) PROVE w[k + 2] = LayerOf(wm, k)
  <2>1. k + 1 \in 1..L /\ 1 + (k + 1) = k + 2 /\ (k + 1) - 1 = k /\ k + 2 \in 1..(1 + L)
    OBVIOUS
  <2>2. w[k + 2] = eb[k + 2]
    BY <1>7, <2>1 DEF w
  <2>3. eb[1 + (k + 1)] = b[k + 1]
    BY <1>6, <2>1
  <2>4. b[k + 1] = LayerOf(wm, k)
    BY <1>4, <2>1
  <2> QED  BY <2>1, <2>2, <2>3, <2>4
<1>11. w \in Seq(S) /\ Len(w) = L + 3
  BY <1>7 DEF w
<1>12. W = w
  BY <1>8 DEF w
<1> QED  BY <1>9, <1>10, <1>11, <1>12 DEF W, S

\* Subsequences of one and of two elements.
LEMMA OneAndTwo ==
  ASSUME NEW S, NEW w \in Seq(S), NEW m \in 1..Len(w)
  PROVE  /\ SubSeq(w, m, m) = <<w[m]>>
         /\ m < Len(w) => SubSeq(w, m, m + 1) = <<w[m], w[m + 1]>>
<1>1. Len(w) \in Nat /\ \A i \in 1..Len(w) : w[i] \in S
  BY LenProperties, ElementOfSeq
<1>2. SubSeq(w, m, m) = <<w[m]>>
  <2> DEFINE t == <<w[m]>>
             u == SubSeq(w, m, m)
  <2>1. u \in Seq(S) /\ Len(u) = 1 /\ u[1] = w[m]
    BY <1>1, SubSeqProperties
  <2>2. t \in Seq(S) /\ Len(t) = 1 /\ t[1] = w[m]
    BY <1>1
  <2> HIDE DEF t, u
  <2>3. \A i \in 1..1 : u[i] = t[i]
    BY <2>1, <2>2
  <2>4. u = t
    BY <2>1, <2>2, <2>3, SeqEqual
  <2> QED  BY <2>4 DEF t, u
<1>3. ASSUME m < Len(w) PROVE SubSeq(w, m, m + 1) = <<w[m], w[m + 1]>>
  <2> DEFINE t == <<w[m], w[m + 1]>>
             u == SubSeq(w, m, m + 1)
  <2>0. \A i \in m..(m + 1) : w[i] \in S
    BY <1>1, <1>3
  <2>1. u \in Seq(S) /\ Len(u) = 2 /\ \A i \in 1..2 : u[i] = w[m + i - 1]
    BY <2>0, SubSeqProperties
  <2>2. t \in Seq(S) /\ Len(t) = 2 /\ t[1] = w[m] /\ t[2] = w[m + 1]
    BY <1>1, <1>3
  <2> HIDE DEF t, u
  <2>3. \A i \in 1..2 : u[i] = t[i]
    BY <2>1, <2>2
  <2>4. u = t
    BY <2>1, <2>2, <2>3, SeqEqual
  <2> QED  BY <2>4 DEF t, u
<1> QED  BY <1>2, <1>3

\* A shard of a plan, once the checkpoint has what the model needs.
LEMMA ShardOfPlan ==
  ASSUME NEW wm, CheckpointNames(wm), NEW L \in Nat, NEW n, NEW plan,
         Divides(L, n, plan), Needed(L) \subseteq DOMAIN wm, NEW i \in 1..n
  PROVE  /\ Shards(wm, L, plan)[i].is_first <=> i = 1
         /\ Shards(wm, L, plan)[i].is_last <=> i = n
         /\ Shards(wm, L, plan)[i].layer_start = plan[i].layer_start
         /\ Shards(wm, L, plan)[i].layer_end = plan[i].layer_end
         /\ Shards(wm, L, plan)[i].weights =
              ShardWeights(wm, L, plan[i].layer_start, plan[i].layer_end)
         /\ LayersStored(wm, plan[i].layer_start, plan[i].layer_end)
<1> DEFINE a == plan[i]
           s == BuildShard(L, a, ExtractShard(wm, a))
<1>1. DOMAIN plan = 1..n
  BY Zenon DEF Divides
<1>2. Shards(wm, L, plan)[i] = s
  BY <1>1, Zenon DEF Shards
<1>3. Shards(wm, L, plan)[i].ok
  BY <1>1, AllBuildIffNeeded
<1>4. /\ a.layer_start \in Nat /\ a.layer_end \in Nat
      /\ a.layer_start = 0 <=> i = 1
      /\ a.layer_end = L <=> i = n
  BY RangeFacts
<1>5. a.is_first <=> a.layer_start = 0
  BY RolesOfPlan
<1>6. a.is_last <=> a.layer_end = L
  BY RolesOfPlan
<1> HIDE DEF a
<1>7. NamesFound(wm, a.layer_start = 0, a.layer_end = L)
      /\ LayersStored(wm, a.layer_start, a.layer_end)
  BY <1>2, <1>3, <1>4, <1>5, <1>6, BuildsIffStored, Zenon
<1>8. ExtractShard(wm, a) =
        TensorLocationsForRange(wm, a.layer_start, a.layer_end,
                                a.layer_start = 0, a.layer_end = L)
  BY <1>5, <1>6, <1>7, ExtractByRange, Zenon
<1>9. /\ s.is_first <=> a.layer_start = 0
      /\ s.is_last <=> a.layer_end = L
      /\ s.layer_start = a.layer_start
      /\ s.layer_end = a.layer_end
      /\ s.weights = StateDict(ExtractShard(wm, a))
  BY ShardFields
<1> HIDE DEF s
<1>10. /\ s.is_first <=> i = 1
       /\ s.is_last <=> i = n
  BY <1>4, <1>9, Zenon
<1>11. /\ s.layer_start = a.layer_start /\ s.layer_end = a.layer_end
       /\ s.weights = ShardWeights(wm, L, a.layer_start, a.layer_end)
  BY <1>8, <1>9, Zenon DEF ShardWeights
<1> QED  BY <1>2, <1>7, <1>10, <1>11, Zenon DEF a

\* Its blocks are those of its range in the whole model: the renumbering of
\* the parameters and the global layer_idx undo each other.
LEMMA BlocksOfShard ==
  ASSUME NEW wm, CheckpointNames(wm), NEW L \in Nat, NEW n, NEW plan,
         Divides(L, n, plan), Needed(L) \subseteq DOMAIN wm, NEW i \in 1..n
  PROVE  Blocks(Shards(wm, L, plan)[i]) =
           SubSeq(WholeModel(wm, L), plan[i].layer_start + 2, plan[i].layer_end + 1)
<1> DEFINE s == Shards(wm, L, plan)[i]
           start == plan[i].layer_start
           end == plan[i].layer_end
           W == WholeModel(wm, L)
           sd == ShardWeights(wm, L, start, end)
<1>1. s.layer_start = start /\ s.layer_end = end /\ s.weights = sd
  BY ShardOfPlan
<1>2. start \in Nat /\ end \in Nat /\ start < end /\ end <= L
  BY RangeFacts
<1>3. LayersStored(wm, start, end)
  BY ShardOfPlan
<1> HIDE DEF s, start, end
<1>4. \A k \in start..(end - 1), p \in Parts :
        sd[LayerName(k - start, p)] = <<wm[LayerName(k, p)], LayerName(k, p)>>
  BY <1>2, <1>3, WeightsOfRange
<1> HIDE DEF sd
<1> DEFINE b == [k \in 1..(end - start) |->
                   BlockOp({<<p, sd[LayerName(k - 1, p)]>> : p \in Parts}, start + k - 1)]
<1>5. Blocks(s) = b
  BY <1>1 DEF Blocks
<1>6. ASSUME NEW k \in 1..(end - start)
      PROVE  b[k] = LayerOf(wm, start + k - 1)
  <2> DEFINE g == start + k - 1
  <2>1. g \in start..(end - 1) /\ g - start = k - 1
    BY <1>2
  <2> HIDE DEF g
  <2>2. \A p \in Parts : sd[LayerName(k - 1, p)] = <<wm[LayerName(g, p)], LayerName(g, p)>>
    BY <1>4, <2>1
  <2>3. {<<p, sd[LayerName(k - 1, p)]>> : p \in Parts} =
          {<<p, <<wm[LayerName(g, p)], LayerName(g, p)>> >> : p \in Parts}
    BY <2>2
  <2>4. b[k] = BlockOp({<<p, sd[LayerName(k - 1, p)]>> : p \in Parts}, g)
    BY DEF g
  <2> HIDE DEF b
  <2>5. b[k] = LayerOf(wm, g)
    BY <2>3, <2>4, Zenon DEF LayerOf
  <2> QED  BY <2>5 DEF g
<1> DEFINE S == OpsOf(wm, L)
<1>7. /\ W \in Seq(S) /\ Len(W) = L + 3
      /\ \A k \in 0..(L - 1) : W[k + 2] = LayerOf(wm, k)
  BY WholeModelPoints
<1> HIDE DEF W, S
<1>8. \A k \in 0..(L - 1) : LayerOf(wm, k) \in S
  BY DEF S, OpsOf
<1>9. b \in Seq(S) /\ Len(b) = end - start
  <2>1. \A k \in 1..(end - start) : b[k] \in S
    <3> TAKE k \in 1..(end - start)
    <3>1. start + k - 1 \in 0..(L - 1)
      BY <1>2
    <3> QED  BY <1>6, <1>8, <3>1
  <2>2. b = [k \in 1..(end - start) |-> b[k]]
    OBVIOUS
  <2> HIDE DEF b
  <2>3. end - start \in Nat
    BY <1>2
  <2> QED  BY <2>1, <2>2, <2>3
<1> DEFINE u == SubSeq(W, start + 2, end + 1)
<1>10. /\ u \in Seq(S) /\ Len(u) = end - start
       /\ \A k \in 1..(end - start) : u[k] = W[start + k + 1]
  <2>1. \A j \in (start + 2)..(end + 1) : W[j] \in S
    BY <1>2, <1>7
  <2>2. /\ u \in Seq(S)
        /\ Len(u) = IF start + 2 <= end + 1 THEN (end + 1) - (start + 2) + 1 ELSE 0
        /\ \A k \in 1..((end + 1) - (start + 2) + 1) : u[k] = W[(start + 2) + k - 1]
    BY <1>2, <2>1, SubSeqProperties
  <2> HIDE DEF u
  <2> QED  BY <1>2, <2>2
<1> HIDE DEF u, b
<1>11. ASSUME NEW k \in 1..(end - start) PROVE b[k] = u[k]
  <2>1. start + k - 1 \in 0..(L - 1) /\ (start + k - 1) + 2 = start + k + 1
    BY <1>2
  <2>2. W[(start + k - 1) + 2] = LayerOf(wm, start + k - 1)
    BY <1>7, <2>1
  <2> QED  BY <1>6, <1>10, <2>1, <2>2
<1>12. b = u
  BY <1>9, <1>10, <1>11, SeqEqual
<1> QED  BY <1>5, <1>12 DEF s, u, W, start, end

\* How many operations of the whole model are done when shard i is reached.
Done(L, n, plan, i) ==
  IF i = 1 THEN 0 ELSE IF i = n + 1 THEN L + 3 ELSE plan[i].layer_start + 1

\* The last dimension of what shard i, or in the end the caller, is sent.
Width(n, i) == IF i = n + 1 THEN Vocab ELSE Hidden

\* Shard i, given the operations before its own, adds its own: with the
\* embedding if it is the first and norm and head if it is the last.
LEMMA ForwardStep ==
  ASSUME NEW wm, CheckpointNames(wm), NEW L \in Nat, NEW n, NEW plan,
         Divides(L, n, plan), Needed(L) \subseteq DOMAIN wm, NEW i \in 1..n, NEW x,
         x.ops = SubSeq(WholeModel(wm, L), 1, Done(L, n, plan, i))
  PROVE  Forward(Shards(wm, L, plan)[i], x) =
           Tensor(SubSeq(WholeModel(wm, L), 1, Done(L, n, plan, i + 1)),
                  <<1, Tokens, Width(n, i + 1)>>, "float32")
<1> DEFINE s == Shards(wm, L, plan)[i]
           start == plan[i].layer_start
           end == plan[i].layer_end
           W == WholeModel(wm, L)
           S == OpsOf(wm, L)
           sd == ShardWeights(wm, L, start, end)
           d == Done(L, n, plan, i)
           e == Done(L, n, plan, i + 1)
<1>1. (s.is_first <=> i = 1) /\ (s.is_last <=> i = n)
  BY ShardOfPlan
<1>2. s.weights = sd /\ LayersStored(wm, start, end)
  BY ShardOfPlan
<1>3. /\ n \in Nat /\ n >= 1 /\ i \in Nat
      /\ start \in Nat /\ end \in Nat /\ start < end /\ end <= L
      /\ start = 0 <=> i = 1
      /\ end = L <=> i = n
      /\ i < n => plan[i + 1].layer_start = end
  BY RangeFacts
<1>4. /\ W \in Seq(S) /\ Len(W) = L + 3
      /\ W[1] = EmbedOf(wm) /\ W[L + 2] = NormOf(wm) /\ W[L + 3] = HeadOf(wm)
  BY WholeModelPoints
<1>5. Blocks(s) = SubSeq(W, start + 2, end + 1)
  BY BlocksOfShard
<1>6. d = IF i = 1 THEN 0 ELSE start + 1
  BY <1>3 DEF Done
<1>7. e = IF i = n THEN L + 3 ELSE end + 1
  BY <1>3 DEF Done
<1> HIDE DEF s, start, end, W, S, d, e
<1>8. /\ i = 1 => sd[EmbeddingsName] = <<wm[EmbeddingsName], EmbeddingsName>>
      /\ i = n => sd[NormName] = <<wm[NormName], NormName>>
      /\ i = n => sd[LmHeadName] = <<wm[LmHeadSource(wm)], LmHeadSource(wm)>>
  <2>1. start \in Nat /\ end \in Nat /\ LayersStored(wm, start, end)
    BY <1>2, <1>3
  <2>2. start = 0 => sd[EmbeddingsName] = <<wm[EmbeddingsName], EmbeddingsName>>
    <3> SUFFICES ASSUME start = 0
                 PROVE  sd[EmbeddingsName] = <<wm[EmbeddingsName], EmbeddingsName>>
      OBVIOUS
    <3> QED  BY <2>1, WeightsOfRange, SMTT(30)
  <2>3. end = L => sd[NormName] = <<wm[NormName], NormName>>
    BY <2>1, WeightsOfRange
  <2>4. end = L => sd[LmHeadName] = <<wm[LmHeadSource(wm)], LmHeadSource(wm)>>
    BY <2>1, WeightsOfRange
  <2> HIDE DEF sd
  <2> QED  BY <1>3, <2>2, <2>3, <2>4
<1> HIDE DEF sd
<1> DEFINE emb == IF s.is_first THEN <<EmbedOp(s.weights[EmbeddingsName])>> ELSE <<>>
           clo == IF s.is_last
                  THEN <<NormOp(s.weights[NormName]), HeadOp(s.weights[LmHeadName])>>
                  ELSE <<>>
<1>9. emb = SubSeq(W, d + 1, start + 1)
  <2>1. CASE i = 1
    <3>1. emb = <<EmbedOf(wm)>>
      <4>1. emb = <<EmbedOp(s.weights[EmbeddingsName])>>
        BY <1>1, <2>1, Zenon
      <4> HIDE DEF emb
      <4> QED  BY <1>2, <1>8, <2>1, <4>1 DEF EmbedOf
    <3>2. SubSeq(W, 1, 1) = <<W[1]>>
      BY <1>4, OneAndTwo
    <3>3. d + 1 = 1 /\ start + 1 = 1
      BY <1>3, <1>6, <2>1
    <3> HIDE DEF emb
    <3> QED  BY <1>4, <3>1, <3>2, <3>3
  <2>2. CASE i # 1
    <3>1. emb = <<>>
      BY <1>1, <2>2, Zenon
    <3>2. d + 1 \in Int /\ start + 1 \in Int /\ start + 1 < d + 1
      BY <1>3, <1>6, <2>2
    <3>3. SubSeq(W, d + 1, start + 1) = <<>>
      BY <3>2, SubSeqEmpty
    <3> QED  BY <3>1, <3>3, Zenon
  <2> QED  BY <2>1, <2>2
<1>10. clo = SubSeq(W, end + 2, e)
  <2>1. CASE i = n
    <3>1. clo = <<NormOf(wm), HeadOf(wm)>>
      <4>1. clo = <<NormOp(s.weights[NormName]), HeadOp(s.weights[LmHeadName])>>
        BY <1>1, <2>1, Zenon
      <4> HIDE DEF clo
      <4> QED  BY <1>2, <1>8, <2>1, <4>1 DEF NormOf, HeadOf
    <3>2. SubSeq(W, L + 2, (L + 2) + 1) = <<W[L + 2], W[(L + 2) + 1]>>
      <4>1. L + 2 \in 1..Len(W) /\ L + 2 < Len(W)
        BY <1>4
      <4> QED  BY <1>4, <4>1, OneAndTwo
    <3>3. end + 2 = L + 2 /\ e = (L + 2) + 1 /\ (L + 2) + 1 = L + 3
      BY <1>3, <1>7, <2>1
    <3> HIDE DEF clo
    <3> QED  BY <1>4, <3>1, <3>2, <3>3
  <2>2. CASE i # n
    <3>1. clo = <<>>
      BY <1>1, <2>2, Zenon
    <3>2. end + 2 \in Int /\ e \in Int /\ e < end + 2
      BY <1>3, <1>7, <2>2
    <3>3. SubSeq(W, end + 2, e) = <<>>
      BY <3>2, SubSeqEmpty
    <3> QED  BY <3>1, <3>3, Zenon
  <2> QED  BY <2>1, <2>2
<1>11. x.ops = SubSeq(W, 1, d)
  BY DEF W, d
<1>12. Forward(s, x) = Tensor(((x.ops \o emb) \o Blocks(s)) \o clo,
                              <<1, Tokens, Width(n, i + 1)>>, "float32")
  <2>1. (IF s.is_last THEN Vocab ELSE Hidden) = Width(n, i + 1)
    <3>1. i = n <=> i + 1 = n + 1
      BY <1>3
    <3> QED  BY <1>1, <3>1, Zenon DEF Width
  <2>2. Forward(s, x) = Tensor(((x.ops \o emb) \o Blocks(s)) \o clo,
                          <<1, Tokens, IF s.is_last THEN Vocab ELSE Hidden>>, "float32")
    BY Zenon DEF Forward
  <2> HIDE DEF emb, clo
  <2> QED  BY <2>1, <2>2, Zenon
<1> HIDE DEF emb, clo
<1>13. x.ops \o emb = SubSeq(W, 1, start + 1)
  <2>1. 1 \in 1..(Len(W) + 1) /\ d \in (1 - 1)..Len(W) /\ start + 1 \in d..Len(W)
    BY <1>3, <1>4, <1>6
  <2>2. SubSeq(W, 1, d) \o SubSeq(W, d + 1, start + 1) = SubSeq(W, 1, start + 1)
    BY <1>4, <2>1, ConcatAdjacentSubSeq
  <2> QED  BY <1>9, <1>11, <2>2
<1>14. SubSeq(W, 1, start + 1) \o Blocks(s) = SubSeq(W, 1, end + 1)
  <2>1. /\ 1 \in 1..(Len(W) + 1) /\ start + 1 \in (1 - 1)..Len(W)
        /\ end + 1 \in (start + 1)..Len(W) /\ (start + 1) + 1 = start + 2
    BY <1>3, <1>4
  <2>2. SubSeq(W, 1, start + 1) \o SubSeq(W, (start + 1) + 1, end + 1)
          = SubSeq(W, 1, end + 1)
    BY <1>4, <2>1, ConcatAdjacentSubSeq
  <2> QED  BY <1>5, <2>1, <2>2
<1>15. SubSeq(W, 1, end + 1) \o clo = SubSeq(W, 1, e)
  <2>1. /\ 1 \in 1..(Len(W) + 1) /\ end + 1 \in (1 - 1)..Len(W)
        /\ e \in (end + 1)..Len(W) /\ (end + 1) + 1 = end + 2
    BY <1>3, <1>4, <1>7
  <2>2. SubSeq(W, 1, end + 1) \o SubSeq(W, (end + 1) + 1, e) = SubSeq(W, 1, e)
    BY <1>4, <2>1, ConcatAdjacentSubSeq
  <2> QED  BY <1>10, <2>1, <2>2
<1>16. ((x.ops \o emb) \o Blocks(s)) \o clo = SubSeq(W, 1, e)
  BY <1>13, <1>14, <1>15
<1>17. Forward(s, x) = Tensor(SubSeq(W, 1, e), <<1, Tokens, Width(n, i + 1)>>, "float32")
  BY <1>12, <1>16, Zenon
<1> QED  BY <1>17 DEF s, W, e

\* The message shard i is sent, in closed form.
HopAt(wm, L, n, plan, i) ==
  IF i = 1 THEN Prompt
  ELSE Serialize(Tensor(SubSeq(WholeModel(wm, L), 1, Done(L, n, plan, i)),
                        <<1, Tokens, Width(n, i)>>, "float32"))

\* The equation of the recursive function of Hops.
HopsBody(shards, g) ==
  [i \in 1..(Len(shards) + 1) |->
     IF i = 1 THEN Prompt
     ELSE Serialize(Forward(shards[i - 1], Deserialize(g[i - 1])))]

\* Serialising loses nothing of an activation.
LEMMA RoundTrip ==
  ASSUME NEW ops, NEW shape, NEW dtype
  PROVE  Deserialize(Serialize(Tensor(ops, shape, dtype))).ops = ops
BY DEF Deserialize, Serialize, Tensor

\* The closed form follows the chain.
LEMMA HopStep ==
  ASSUME NEW wm, CheckpointNames(wm), NEW L \in Nat, NEW n, NEW plan,
         Divides(L, n, plan), Needed(L) \subseteq DOMAIN wm, NEW i \in 1..n
  PROVE  HopAt(wm, L, n, plan, i + 1) =
           Serialize(Forward(Shards(wm, L, plan)[i], Deserialize(HopAt(wm, L, n, plan, i))))
<1> DEFINE x == Deserialize(HopAt(wm, L, n, plan, i))
           W == WholeModel(wm, L)
<1>1. x.ops = SubSeq(W, 1, Done(L, n, plan, i))
  <2>1. CASE i = 1
    <3>1. x.ops = <<>>
      <4>1. HopAt(wm, L, n, plan, i) = Serialize(Tensor(<<>>, <<1, Tokens>>, "int64"))
        BY <2>1, Zenon DEF HopAt, Prompt
      <4> QED  BY <4>1, RoundTrip
    <3>2. Done(L, n, plan, i) = 0
      BY <2>1 DEF Done
    <3>3. SubSeq(W, 1, 0) = <<>>
      BY SubSeqEmpty
    <3> HIDE DEF x, W
    <3> QED  BY <3>1, <3>2, <3>3
  <2>2. CASE i # 1
    <3>1. HopAt(wm, L, n, plan, i) =
            Serialize(Tensor(SubSeq(W, 1, Done(L, n, plan, i)),
                             <<1, Tokens, Width(n, i)>>, "float32"))
      BY <2>2, Zenon DEF HopAt
    <3> QED  BY <3>1, RoundTrip
  <2> QED  BY <2>1, <2>2
<1>2. n \in Nat /\ i + 1 # 1
  BY DEF Divides
<1>3. HopAt(wm, L, n, plan, i + 1) =
        Serialize(Tensor(SubSeq(W, 1, Done(L, n, plan, i + 1)),
                         <<1, Tokens, Width(n, i + 1)>>, "float32"))
  BY <1>2, Zenon DEF HopAt
<1> HIDE DEF x
<1>4. Forward(Shards(wm, L, plan)[i], x) =
        Tensor(SubSeq(W, 1, Done(L, n, plan, i + 1)),
               <<1, Tokens, Width(n, i + 1)>>, "float32")
  BY <1>1, ForwardStep
<1> QED  BY <1>3, <1>4 DEF x

\* One shard per assignment.
LEMMA ShardCount ==
  ASSUME NEW wm, NEW L, NEW n, NEW plan, Divides(L, n, plan)
  PROVE  Len(Shards(wm, L, plan)) = n /\ DOMAIN Shards(wm, L, plan) = 1..n
<1>1. n \in Nat /\ DOMAIN plan = 1..n
  BY Zenon DEF Divides
<1>2. Shards(wm, L, plan) = [i \in 1..n |-> Shards(wm, L, plan)[i]]
  BY <1>1 DEF Shards
<1> DEFINE sh == Shards(wm, L, plan)
<1> HIDE DEF sh
<1>3. sh = [i \in 1..n |-> sh[i]]
  BY <1>2 DEF sh
<1>4. DOMAIN sh = 1..n
  BY <1>3
<1>5. Len(sh) = n
  BY <1>1, <1>3
<1> QED  BY <1>4, <1>5 DEF sh

\* Hops computes them: the closed form satisfies the equation, so CHOOSE
\* finds a solution, and every solution is the closed form, hop by hop.
LEMMA HopsComputed ==
  ASSUME NEW wm, CheckpointNames(wm), NEW L \in Nat, NEW n, NEW plan,
         Divides(L, n, plan), Needed(L) \subseteq DOMAIN wm
  PROVE  \A i \in 1..(n + 1) : Hops(Shards(wm, L, plan))[i] = HopAt(wm, L, n, plan, i)
<1> DEFINE sh == Shards(wm, L, plan)
           c == [i \in 1..(n + 1) |-> HopAt(wm, L, n, plan, i)]
           f == CHOOSE g : g = HopsBody(sh, g)
<1>1. n \in Nat /\ n >= 1
  BY DEF Divides
<1>2. Len(sh) = n
  BY ShardCount
<1>3. ASSUME NEW g
      PROVE  HopsBody(sh, g) =
               [i \in 1..(n + 1) |->
                 IF i = 1 THEN Prompt
                 ELSE Serialize(Forward(sh[i - 1], Deserialize(g[i - 1])))]
  <2> HIDE DEF sh
  <2> QED  BY <1>2, Zenon DEF HopsBody
<1>4. ASSUME NEW i \in 2..(n + 1)
      PROVE  c[i] = Serialize(Forward(sh[i - 1], Deserialize(c[i - 1])))
  <2>1. i - 1 \in 1..n /\ (i - 1) + 1 = i /\ i \in 1..(n + 1) /\ i - 1 \in 1..(n + 1)
    BY <1>1
  <2>2. HopAt(wm, L, n, plan, (i - 1) + 1) =
          Serialize(Forward(sh[i - 1], Deserialize(HopAt(wm, L, n, plan, i - 1))))
    BY <2>1, HopStep
  <2> HIDE DEF sh
  <2> QED  BY <2>1, <2>2
<1>5. c[1] = Prompt
  <2>1. 1 \in 1..(n + 1)
    BY <1>1
  <2> QED  BY <2>1, Zenon DEF HopAt
<1>6. c = HopsBody(sh, c)
  <2> DEFINE r == HopsBody(sh, c)
  <2>1. ASSUME NEW i \in 1..(n + 1) PROVE c[i] = r[i]
    <3>1. r[i] = IF i = 1 THEN Prompt
                 ELSE Serialize(Forward(sh[i - 1], Deserialize(c[i - 1])))
      <4> HIDE DEF sh, c
      <4> QED  BY <1>3
    <3>2. CASE i = 1
      <4> HIDE DEF c, r, sh
      <4> QED  BY <1>5, <3>1, <3>2
    <3>3. CASE i # 1
      <4>1. i \in 2..(n + 1)
        BY <1>1, <3>3
      <4> HIDE DEF c, r, sh
      <4> QED  BY <1>4, <3>1, <3>3, <4>1
    <3> QED  BY <3>2, <3>3
  <2>2. c = [i \in 1..(n + 1) |-> c[i]]
    OBVIOUS
  <2>3. r = [i \in 1..(n + 1) |-> r[i]]
    <3> HIDE DEF sh, c
    <3> QED  BY <1>3
  <2> HIDE DEF c, r
  <2>4. c = r
    BY <2>1, <2>2, <2>3
  <2> QED  BY <2>4 DEF r
<1> HIDE DEF c
<1>7. f = HopsBody(sh, f)
  BY <1>6, Zenon
<1> HIDE DEF f, sh
<1> DEFINE q == HopsBody(sh, f)
<1>Q. /\ f = q
      /\ q = [i \in 1..(n + 1) |->
               IF i = 1 THEN Prompt
               ELSE Serialize(Forward(sh[i - 1], Deserialize(f[i - 1])))]
  BY <1>3, <1>7, Zenon
<1> HIDE DEF q
<1>8. f[1] = Prompt
  <2>1. 1 \in 1..(n + 1)
    BY <1>1
  <2> QED  BY <1>Q, <2>1, Zenon
<1>9. ASSUME NEW i \in 2..(n + 1)
      PROVE  f[i] = Serialize(Forward(sh[i - 1], Deserialize(f[i - 1])))
  <2>1. i \in 1..(n + 1) /\ i # 1
    OBVIOUS
  <2> QED  BY <1>Q, <2>1, Zenon
<1> DEFINE S == {i \in 1..(n + 1) : f[i] = c[i]}
<1>10. 1..(n + 1) \subseteq S
  <2>1. 1 \in S
    BY <1>1, <1>5, <1>8
  <2>2. ASSUME NEW i \in (1 + 1)..(n + 1), i - 1 \in S PROVE i \in S
    <3>1. i \in 2..(n + 1) /\ i \in 1..(n + 1) /\ f[i - 1] = c[i - 1]
      BY <2>2
    <3>2. f[i] = c[i]
      BY <1>4, <1>9, <3>1
    <3> QED  BY <3>1, <3>2
  <2> HIDE DEF S
  <2>3. 1 \in Nat /\ n + 1 \in Nat
    BY <1>1
  <2> QED  BY <2>1, <2>2, <2>3, Climb
<1>11. Hops(sh) = f
  BY Zenon DEF Hops, f, HopsBody
<1>12. \A i \in 1..(n + 1) : f[i] = HopAt(wm, L, n, plan, i)
  BY <1>10 DEF c
<1> QED  BY <1>11, <1>12 DEF sh

\* What serialize_tensor writes, deserialize_tensor reads.
LEMMA SerializedWellFormed ==
  ASSUME NEW ops, NEW shape
  PROVE  /\ WellFormed(Serialize(Tensor(ops, shape, "float32")))
         /\ WellFormed(Serialize(Tensor(ops, shape, "int64")))
<1>1. "float32" \in DOMAIN ItemSize /\ "int64" \in DOMAIN ItemSize
  BY DEF ItemSize
<1> QED  BY <1>1 DEF WellFormed, Serialize, Tensor

\* The fields of a message.
LEMMA MessageFields ==
  ASSUME NEW ops, NEW shape, NEW dtype
  PROVE  /\ Serialize(Tensor(ops, shape, dtype)).shape = shape
         /\ Serialize(Tensor(ops, shape, dtype)).dtype = dtype
         /\ Serialize(Tensor(ops, shape, dtype)).data.ops = ops
BY DEF Serialize, Tensor

\* The pass through the chain of a plan's shards runs the whole model.
LEMMA PassComputesModel ==
  ASSUME NEW wm, CheckpointNames(wm), NEW L \in Nat, NEW n, NEW plan,
         Divides(L, n, plan), Needed(L) \subseteq DOMAIN wm
  PROVE  /\ RunsThrough(Shards(wm, L, plan))
         /\ Hops(Shards(wm, L, plan))[n + 1].data.ops = WholeModel(wm, L)
<1> DEFINE sh == Shards(wm, L, plan)
           W == WholeModel(wm, L)
<1>1. n \in Nat /\ n >= 1 /\ DOMAIN plan = 1..n
  BY Zenon DEF Divides
<1>2. Len(sh) = n /\ DOMAIN sh = 1..n
  BY ShardCount
<1>3. \A i \in 1..(n + 1) : Hops(sh)[i] = HopAt(wm, L, n, plan, i)
  BY HopsComputed
<1>4. \A i \in 1..n : sh[i].ok
  BY <1>1, AllBuildIffNeeded, Zenon
<1>5. \A i \in 1..n : sh[i].is_first <=> i = 1
  BY ShardOfPlan
<1> HIDE DEF sh
<1>6. ASSUME NEW i \in 1..n PROVE Accepts(sh[i], Hops(sh)[i])
  <2>1. i \in 1..(n + 1)
    BY <1>1
  <2> DEFINE m == HopAt(wm, L, n, plan, i)
  <2>2. Hops(sh)[i] = m
    BY <1>3, <2>1
  <2>3. CASE i = 1
    <3>1. m = Serialize(Tensor(<<>>, <<1, Tokens>>, "int64"))
      BY <2>3, Zenon DEF HopAt, Prompt
    <3> HIDE DEF m
    <3>2. WellFormed(m) /\ m.dtype = "int64" /\ m.shape = <<1, Tokens>>
      BY <3>1, SerializedWellFormed, MessageFields
    <3>3. Len(m.shape) = 2
      BY <3>2
    <3>4. sh[i].ok /\ sh[i].is_first
      BY <1>4, <1>5, <2>3, Zenon
    <3> QED  BY <2>2, <3>2, <3>3, <3>4, Zenon DEF Accepts
  <2>4. CASE i # 1
    <3>1. m = Serialize(Tensor(SubSeq(W, 1, Done(L, n, plan, i)),
                               <<1, Tokens, Width(n, i)>>, "float32"))
      BY <2>4, Zenon DEF HopAt
    <3>2. Width(n, i) = Hidden
      BY <1>1 DEF Width
    <3> HIDE DEF m
    <3>3. WellFormed(m) /\ m.dtype = "float32" /\ m.shape = <<1, Tokens, Hidden>>
      BY <3>1, <3>2, SerializedWellFormed, MessageFields
    <3>4. sh[i].ok /\ ~sh[i].is_first
      BY <1>4, <1>5, <2>4, Zenon
    <3> QED  BY <2>2, <3>3, <3>4, Zenon DEF Accepts
  <2> QED  BY <2>3, <2>4
<1>7. SubSeq(W, 1, L + 3) = W
  <2>1. W \in Seq(OpsOf(wm, L)) /\ Len(W) = L + 3
    BY WholeModelPoints
  <2> HIDE DEF W
  <2> QED  BY <2>1, SubSeqFull
<1> DEFINE r == Hops(sh)[n + 1]
<1>8. r = Serialize(Tensor(W, <<1, Tokens, Vocab>>, "float32"))
  <2>1. n + 1 \in 1..(n + 1) /\ n + 1 # 1
    BY <1>1
  <2>2. Done(L, n, plan, n + 1) = L + 3 /\ Width(n, n + 1) = Vocab
    BY <2>1, Zenon DEF Done, Width
  <2>3. r = HopAt(wm, L, n, plan, n + 1)
    BY <1>3, <2>1, Zenon
  <2> HIDE DEF r, W
  <2>4. r = Serialize(Tensor(SubSeq(W, 1, Done(L, n, plan, n + 1)),
                             <<1, Tokens, Width(n, n + 1)>>, "float32"))
    BY <2>1, <2>3, Zenon DEF HopAt, W
  <2> QED  BY <1>7, <2>2, <2>4
<1> HIDE DEF W, r
<1>9. WellFormed(r) /\ r.shape = <<1, Tokens, Vocab>> /\ r.data.ops = W
  BY <1>8, SerializedWellFormed, MessageFields
<1>10. RunsThrough(sh)
  BY <1>2, <1>6, <1>9, Zenon DEF RunsThrough, r
<1> QED  BY <1>9, <1>10 DEF sh, W, r

\* plan_dispatch divides the layers in that sense.
LEMMA PlanDivides ==
  ASSUME NEW L \in Nat, NEW S, NEW nodes \in Seq(S), ~DispatchError(L, nodes)
  PROVE  Divides(L, Len(nodes), PlanDispatch(L, nodes))
BY PlanShape DEF Divides

\* For every checkpoint, layer count and list of nodes that plan_dispatch
\* accepts: the shards build on all workers exactly if the checkpoint has
\* every tensor a model of L layers needs, and one pass through their chain
\* is then accepted at every hop and runs the operations of the whole model,
\* in order, each with its own weights and its own slot of the cache.
THEOREM ShardsImplementModel ==
  ASSUME NEW wm, CheckpointNames(wm),
         NEW L \in Nat, NEW S, NEW nodes \in Seq(S), ~DispatchError(L, nodes)
  PROVE  LET plan == PlanDispatch(L, nodes)
             shards == Shards(wm, L, plan)
             built == \A i \in DOMAIN plan : shards[i].ok
         IN  /\ built <=> Needed(L) \subseteq DOMAIN wm
             /\ built => /\ RunsThrough(shards)
                         /\ Hops(shards)[Len(plan) + 1].data.ops = WholeModel(wm, L)
<1> DEFINE plan == PlanDispatch(L, nodes)
           n == Len(nodes)
           shards == Shards(wm, L, plan)
           built == \A i \in DOMAIN plan : shards[i].ok
<1>1. Divides(L, n, plan)
  BY PlanDivides
<1>2. Len(plan) = n
  BY <1>1, Zenon DEF Divides
<1> HIDE DEF plan, n
<1>3. built <=> Needed(L) \subseteq DOMAIN wm
  BY <1>1, AllBuildIffNeeded, Zenon
<1>4. Needed(L) \subseteq DOMAIN wm =>
        RunsThrough(shards) /\ Hops(shards)[n + 1].data.ops = WholeModel(wm, L)
  BY <1>1, PassComputesModel, Zenon
<1> HIDE DEF shards, built
<1>5. /\ built <=> Needed(L) \subseteq DOMAIN wm
      /\ built => /\ RunsThrough(shards)
                  /\ Hops(shards)[Len(plan) + 1].data.ops = WholeModel(wm, L)
  BY <1>2, <1>3, <1>4, Zenon
<1> QED  BY <1>5, Zenon DEF built, shards, plan

\* The checkpoints of the run are checkpoints.
LEMMA WeightMapNames ==
  ASSUME NEW n \in Nat, NEW wm \in WeightMaps(n)
  PROVE  /\ DOMAIN wm \subseteq
              {EmbeddingsName, NormName, LmHeadName} \cup LayerNames(0..(n - 1))
         /\ CheckpointNames(wm)
<1> DEFINE names == {EmbeddingsName, NormName, LmHeadName} \cup LayerNames(0..(n - 1))
<1>1. PICK T : wm = [m \in names \ T |->
                       IF m.kind = "layers" /\ m.idx > 0 THEN "file2" ELSE "file1"]
  BY Zenon DEF WeightMaps
<1>2. DOMAIN wm \subseteq names
  BY <1>1
<1>3. ASSUME NEW m \in DOMAIN wm, m.kind = "layers"
      PROVE  \E k \in Nat, p \in Parts : m = LayerName(k, p)
  <2>1. m \in LayerNames(0..(n - 1))
    BY <1>2, <1>3, NamesDiffer
  <2>2. PICK k \in 0..(n - 1), p \in Parts : m = LayerName(k, p)
    BY <2>1 DEF LayerNames
  <2>3. k \in Nat
    OBVIOUS
  <2> QED  BY <2>2, <2>3
<1> QED  BY <1>2, <1>3, Zenon DEF CheckpointNames

\* A slot of the cache for every layer of the checkpoint is enough.
LEMMA SlotsInRange ==
  ASSUME NEW n \in Nat, NEW wm \in WeightMaps(n), n >= 1, NEW L \in Nat,
         Needed(L) \subseteq DOMAIN wm
  PROVE  \A k \in DOMAIN WholeModel(wm, L) : WholeModel(wm, L)[k].slot < n
<1> DEFINE W == WholeModel(wm, L)
<1>1. L <= n
  <2> SUFFICES ASSUME L > n PROVE FALSE
    OBVIOUS
  <2>1. PICK p \in Parts : TRUE
    BY PartsAssumption
  <2>2. L - 1 \in 0..(L - 1)
    OBVIOUS
  <2>3. LayerName(L - 1, p) \in DOMAIN wm
    BY <2>2, NeededParts DEF LayersStored
  <2>4. LayerName(L - 1, p) \in LayerNames(0..(n - 1))
    BY <2>3, WeightMapNames, NamesDiffer
  <2>5. PICK j \in 0..(n - 1), q \in Parts : LayerName(L - 1, p) = LayerName(j, q)
    BY <2>4 DEF LayerNames
  <2>6. L - 1 = j
    BY <2>5, NamesDiffer
  <2> QED  BY <2>6
<1>2. /\ W \in Seq(OpsOf(wm, L)) /\ Len(W) = L + 3
      /\ W[1] = EmbedOf(wm)
      /\ \A k \in 0..(L - 1) : W[k + 2] = LayerOf(wm, k)
      /\ W[L + 2] = NormOf(wm) /\ W[L + 3] = HeadOf(wm)
  BY WholeModelPoints
<1>3. /\ EmbedOf(wm).slot = -1 /\ NormOf(wm).slot = -1 /\ HeadOf(wm).slot = -1
      /\ \A k : LayerOf(wm, k).slot = k
  BY DEF EmbedOf, NormOf, HeadOf, LayerOf, EmbedOp, NormOp, HeadOp, BlockOp
<1> HIDE DEF W
<1>4. DOMAIN W = 1..(L + 3)
  BY <1>2, LenProperties
<1>5. ASSUME NEW k \in 1..(L + 3) PROVE W[k].slot < n
  <2>1. CASE k = 1 \/ k = L + 2 \/ k = L + 3
    BY <1>2, <1>3, <2>1
  <2>2. CASE k \in 2..(L + 1)
    <3>1. k - 2 \in 0..(L - 1) /\ (k - 2) + 2 = k /\ k - 2 < n
      BY <1>1, <2>2
    <3>2. W[(k - 2) + 2] = LayerOf(wm, k - 2)
      BY <1>2, <3>1
    <3> QED  BY <1>3, <3>1, <3>2
  <2> QED  BY <2>1, <2>2
<1> QED  BY <1>4, <1>5 DEF W

\* So do the plans made under any interleaving of requests with heartbeats
\* and the reaper, for any number of nodes, layers and block parameters.
THEOREM PlansComputeModel == Spec => []ShardsComputeModel
<1>1. RegistryInv => ShardsComputeModel
  <2> SUFFICES ASSUME RegistryInv, NEW p \in Planners, Planned(p),
                      NEW n \in {planner[p].layers - 1, planner[p].layers,
                                 planner[p].layers + 1} \ {0},
                      NEW wm \in WeightMaps(n)
               PROVE  LET L == planner[p].layers
                          plan == planner[p].plan
                          shards == Shards(wm, L, plan)
                          built == \A i \in DOMAIN plan : shards[i].ok
                      IN  /\ built <=> Needed(L) \subseteq DOMAIN wm
                          /\ built =>
                               LET ops == Hops(shards)[Len(plan) + 1].data.ops
                               IN  /\ RunsThrough(shards)
                                   /\ ops = WholeModel(wm, L)
                                   /\ \A k \in DOMAIN ops : ops[k].slot < n
    BY Zenon DEF ShardsComputeModel
  <2> DEFINE L == planner[p].layers
             nodes == planner[p].nodes
             plan == planner[p].plan
             shards == Shards(wm, L, plan)
             built == \A i \in DOMAIN plan : shards[i].ok
             ops == Hops(shards)[Len(plan) + 1].data.ops
  <2>1. planner[p] \in PlannerCall /\ CallInv(planner[p])
    BY DEF RegistryInv, TypeOK
  <2>2. L \in Nat /\ L >= 1 /\ nodes \in Seq(Nodes) /\ plan = PlanDispatch(L, nodes)
    <3>1. L \in Layers /\ plan = PlanDispatch(L, nodes)
      BY <2>1 DEF CallInv, CallShape, Planned
    <3>2. nodes \in Seq(Nodes)
      BY <2>1 DEF PlannerCall
    <3> HIDE DEF L, nodes, plan
    <3> QED  BY <3>1, <3>2, LayersAssumption
  <2>3. ~DispatchError(L, nodes)
    BY <2>2 DEF Planned, PlanDispatch
  <2>4. n \in Nat /\ n >= 1
    BY <2>2
  <2>5. CheckpointNames(wm)
    BY <2>4, WeightMapNames
  <2> HIDE DEF L, nodes, plan
  <2>6. Divides(L, Len(nodes), plan) /\ Len(plan) = Len(nodes)
    <3>1. Divides(L, Len(nodes), plan)
      BY <2>2, <2>3, PlanDivides
    <3> QED  BY <3>1, Zenon DEF Divides
  <2>7. built <=> Needed(L) \subseteq DOMAIN wm
    BY <2>2, <2>5, <2>6, AllBuildIffNeeded, Zenon
  <2>8. ASSUME Needed(L) \subseteq DOMAIN wm
        PROVE  RunsThrough(shards) /\ ops = WholeModel(wm, L)
    <3>1. RunsThrough(shards) /\ Hops(shards)[Len(nodes) + 1].data.ops = WholeModel(wm, L)
      BY <2>2, <2>5, <2>6, <2>8, PassComputesModel, Zenon
    <3> QED  BY <2>6, <3>1, Zenon
  <2>9. ASSUME Needed(L) \subseteq DOMAIN wm
        PROVE  \A k \in DOMAIN WholeModel(wm, L) : WholeModel(wm, L)[k].slot < n
    BY <2>2, <2>4, <2>9, SlotsInRange
  <2> HIDE DEF built, shards, ops
  <2>10. /\ built <=> Needed(L) \subseteq DOMAIN wm
         /\ built => /\ RunsThrough(shards)
                     /\ ops = WholeModel(wm, L)
                     /\ \A k \in DOMAIN ops : ops[k].slot < n
    BY <2>7, <2>8, <2>9, Zenon
  <2> QED  BY <2>10, Zenon DEF built, shards, ops, L, plan
<1> QED  BY RegistryInvariant, <1>1, PTL

\* What the run compares for small layer counts: the two forms of
\* split_layers agree, for every bound.
THEOREM SplitsMatchLoop == Spec => []SplitMatchesLoop
<1>1. RegistryInv => SplitMatchesLoop
  <2> SUFFICES ASSUME RegistryInv, NEW L \in 1..MaxLayers, NEW n \in Len(order)..L, n > 0
               PROVE  SplitLayers(L, n) = SplitLayersLoop(L, n)
    BY DEF SplitMatchesLoop
  <2>1. Len(order) \in Nat
    BY DEF RegistryInv, TypeOK
  <2>2. L \in Nat /\ n \in Nat /\ n >= 1 /\ n <= L
    BY <2>1, MaxLayersAssumption
  <2> QED  BY <2>2, SplitIsTheLoop
<1> QED  BY RegistryInvariant, <1>1, PTL
=============================================================================
