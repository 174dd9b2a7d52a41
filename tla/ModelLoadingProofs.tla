------------------------- MODULE ModelLoadingProofs -------------------------
(***************************************************************************)
(* A model is ready only on the evidence of its own plan's workers, for    *)
(* any number of models, nodes, requests and faults.                       *)
(***************************************************************************)
EXTENDS ModelLoading, DispatchProofs, FiniteSetTheorems

\* Steps that leave the loads, the waiters and the slots alone and make no
\* entry ready.
LEMMA HandlerFrame ==
  ASSUME EvidenceInv, OrchestratorTypes', Phases',
         UNCHANGED <<load, waiter, slots, heard>>,
         \A m \in Models : model_states'[m].status = "ready" =>
           model_states'[m] = model_states[m]
  PROVE  EvidenceInv'
<1>1. \A r \in Requests : Created(r)' = Created(r)
  BY DEF Created
<1>2. SlotEvidence' /\ WaiterEvidence' /\ LoadEvidence'
  BY <1>1 DEF EvidenceInv, SlotEvidence, WaiterEvidence, LoadEvidence
<1>3. EntryEvidence'
  BY DEF EvidenceInv, EntryEvidence
<1> QED  BY <1>2, <1>3 DEF EvidenceInv

LEMMA ArriveInv ==
  ASSUME EvidenceInv, NEW r \in Requests, NEW op \in Operations,
         NEW m \in Models, Arrive(r, op, m)
  PROVE  EvidenceInv'
<1> DEFINE x == [pc |-> IF op = "load" THEN "check" ELSE "take", op |-> op,
                 model |-> m]
<1>1. /\ req[r].pc = "free" /\ req' = [req EXCEPT ![r] = x]
      /\ UNCHANGED <<available, model_states, load, waiter, slots, heard>>
  BY DEF Arrive, storeVars
<1>2. OrchestratorTypes'
  BY <1>1 DEF EvidenceInv, OrchestratorTypes, Request
<1>3. Phases'
  BY <1>1 DEF EvidenceInv, OrchestratorTypes, Phases
<1> QED  BY <1>1, <1>2, <1>3, HandlerFrame

\* A handler moves on without touching its load.
LEMMA HandlerMoves ==
  ASSUME EvidenceInv, NEW r \in Requests, NEW p,
         p \in {"free_old", "check", "free_others", "plan", "done"},
         req[r].pc \notin {"free", "publish", "done"},
         req' = [req EXCEPT ![r].pc = p],
         UNCHANGED <<available, load, waiter, slots, heard>>,
         model_states' \in [Models -> Entry],
         \A m \in Models : model_states'[m].status = "ready" =>
           model_states'[m] = model_states[m]
  PROVE  EvidenceInv'
<1>1. OrchestratorTypes'
  <2>1. req \in [Requests -> Request]
    BY DEF EvidenceInv, OrchestratorTypes
  <2>2. req' \in [Requests -> Request]
    BY <2>1 DEF Request
  <2> QED  BY <2>2 DEF EvidenceInv, OrchestratorTypes
<1>2. Phases'
  <2>1. /\ req'[r].pc = p /\ req'[r].model = req[r].model
        /\ \A q \in Requests : q # r => req'[q] = req[q]
    BY DEF EvidenceInv, OrchestratorTypes
  <2>2. load[r].pc = "none" /\ req[r].model \in Models
    BY DEF EvidenceInv, Phases
  <2> QED  BY <2>1, <2>2 DEF EvidenceInv, Phases
<1> QED  BY <1>1, <1>2, HandlerFrame

LEMMA EntryTypes ==
  ASSUME EvidenceInv
  PROVE  /\ NoEntry \in Entry
         /\ NoEntry.status = "none"
         /\ \A m \in Models : model_states[m] \in Entry
BY DEF NoEntry, Entry, EvidenceInv, OrchestratorTypes

LEMMA TakeEntryInv ==
  ASSUME EvidenceInv, NEW r \in Requests, TakeEntry(r)
  PROVE  EvidenceInv'
<1>1. /\ req[r].pc = "take"
      /\ UNCHANGED <<available, load, waiter, slots, heard>>
  BY DEF TakeEntry, storeVars
<1>2. CASE model_states[req[r].model].status \in {"none", "loading"}
  <2>1. req' = [req EXCEPT ![r].pc = "done"] /\ UNCHANGED model_states
    BY <1>2 DEF TakeEntry
  <2> QED  BY <1>1, <2>1, HandlerMoves DEF EvidenceInv, OrchestratorTypes
<1>3. CASE model_states[req[r].model].status \notin {"none", "loading"}
  <2>1. /\ req' = [req EXCEPT ![r].pc = "free_old"]
        /\ model_states' = [model_states EXCEPT ![req[r].model] = NoEntry]
    BY <1>3 DEF TakeEntry
  <2>2. model_states' \in [Models -> Entry]
    BY <2>1, EntryTypes DEF EvidenceInv, OrchestratorTypes
  <2>3. \A m \in Models : model_states'[m].status = "ready" =>
          model_states'[m] = model_states[m]
    BY <2>1, EntryTypes DEF EvidenceInv, OrchestratorTypes
  <2> QED  BY <1>1, <2>1, <2>2, <2>3, HandlerMoves
<1> QED  BY <1>2, <1>3

LEMMA CheckStateInv ==
  ASSUME EvidenceInv, NEW r \in Requests, CheckState(r)
  PROVE  EvidenceInv'
<1>1. /\ req[r].pc = "check"
      /\ UNCHANGED <<available, load, waiter, slots, heard>>
  BY DEF CheckState, storeVars
<1>2. CASE model_states[req[r].model].status \in {"loading", "ready"}
  <2>1. req' = [req EXCEPT ![r].pc = "done"] /\ UNCHANGED model_states
    BY <1>2 DEF CheckState
  <2> QED  BY <1>1, <2>1, HandlerMoves DEF EvidenceInv, OrchestratorTypes
<1>3. CASE model_states[req[r].model].status \notin {"loading", "ready"}
  <2> DEFINE others == {k \in Models \ {req[r].model} :
                          model_states[k].status = "ready"}
  <2>1. /\ req' = [req EXCEPT ![r].pc = "free_others"]
        /\ model_states' = [k \in Models |->
             IF k \in others THEN NoEntry ELSE model_states[k]]
    BY <1>3 DEF CheckState
  <2> HIDE DEF others
  <2>2. model_states' \in [Models -> Entry]
    BY <2>1, EntryTypes
  <2>3. \A m \in Models : model_states'[m].status = "ready" =>
          model_states'[m] = model_states[m]
    BY <2>1, EntryTypes
  <2> QED  BY <1>1, <2>1, <2>2, <2>3, HandlerMoves
<1> QED  BY <1>2, <1>3

LEMMA UnloadInv ==
  ASSUME EvidenceInv, NEW r \in Requests, UnloadNext(r) \/ Unloaded(r)
  PROVE  EvidenceInv'
<1>1. CASE UnloadNext(r)
  BY <1>1, HandlerFrame
  DEF UnloadNext, storeVars, EvidenceInv, OrchestratorTypes, Phases
<1>2. CASE Unloaded(r)
  <2> DEFINE p == IF req[r].pc = "free_old" THEN "check" ELSE "plan"
  <2>1. /\ req[r].pc \in {"free_old", "free_others"}
        /\ req' = [req EXCEPT ![r].pc = p]
        /\ UNCHANGED <<available, model_states, load, waiter, slots, heard>>
    BY <1>2 DEF Unloaded, storeVars, EvidenceInv, OrchestratorTypes
  <2> HIDE DEF p
  <2>2. p \in {"check", "plan"}
    BY DEF p
  <2> QED  BY <2>1, <2>2, HandlerMoves DEF EvidenceInv, OrchestratorTypes
<1> QED  BY <1>1, <1>2

-----------------------------------------------------------------------------
(* The steps of a load.                                                    *)

\* The nodes of a plan, by index.
LEMMA PlanNodesOf ==
  ASSUME NEW plan \in Seq(Shard)
  PROVE  /\ Len(plan) \in Nat /\ DOMAIN plan = 1..Len(plan)
         /\ PlanNodes(plan) = {plan[j].node : j \in 1..Len(plan)}
         /\ PlanNodes(plan) \subseteq Nodes
<1>1. Len(plan) \in Nat /\ DOMAIN plan = 1..Len(plan)
  OBVIOUS
<1>2. \A j \in 1..Len(plan) : plan[j] \in Shard
  OBVIOUS
<1>3. \A s \in Shard : s.node \in Nodes
  BY DEF Shard, Assignments
<1> QED  BY <1>1, <1>2, <1>3 DEF PlanNodes

LEMMA PlanInv ==
  ASSUME EvidenceInv, NEW r \in Requests, Plan(r)
  PROVE  EvidenceInv'
<1> DEFINE m == req[r].model
<1>1. /\ req[r].pc = "plan" /\ m \in Models /\ load[r].pc = "none"
      /\ load[r].i = 1 /\ load[r] \in LoadThread
      /\ UNCHANGED <<available, waiter, slots, heard>>
  BY DEF Plan, storeVars, EvidenceInv, OrchestratorTypes, Phases, LoadThread
<1>2. PICK nodes \in ListAvailable :
        IF DispatchError(LayersOf[m], nodes)
        THEN /\ model_states' = [model_states EXCEPT
                  ![m] = [status |-> "error", by |-> NoRequest]]
             /\ req' = [req EXCEPT ![r].pc = "done"]
             /\ UNCHANGED load
        ELSE /\ req' = [req EXCEPT ![r].pc = "publish"]
             /\ load' = [load EXCEPT ![r].model = m,
                  ![r].plan = PlanDispatch(LayersOf[m], nodes)]
             /\ UNCHANGED model_states
  BY DEF Plan
<1>3. CASE DispatchError(LayersOf[m], nodes)
  <2> DEFINE e == [status |-> "error", by |-> NoRequest]
  <2>0. /\ model_states' = [model_states EXCEPT ![m] = e]
        /\ req' = [req EXCEPT ![r].pc = "done"] /\ UNCHANGED load
    BY <1>2, <1>3
  <2>a. e \in Entry
        /\ e.status = "error"
    BY DEF Entry
  <2> HIDE DEF e, m
  <2>1. model_states' \in [Models -> Entry]
    BY <1>1, <2>0, <2>a DEF EvidenceInv, OrchestratorTypes
  <2>2. \A k \in Models : model_states'[k].status = "ready" =>
          model_states'[k] = model_states[k]
    BY <1>1, <2>0, <2>a DEF EvidenceInv, OrchestratorTypes
  <2> QED  BY <1>1, <2>0, <2>1, <2>2, HandlerMoves
<1>4. CASE ~DispatchError(LayersOf[m], nodes)
  <2> DEFINE plan == PlanDispatch(LayersOf[m], nodes)
             x == [load[r] EXCEPT !.model = m, !.plan = plan]
  <2>1. LayersOf[m] \in Nat /\ nodes \in Seq(Nodes)
    <3>1. Cardinality(available) \in Nat
      BY NodesAssumption, FS_Subset, FS_CardinalityType
      DEF EvidenceInv, OrchestratorTypes
    <3>2. nodes \in [1..Cardinality(available) -> available]
      BY DEF ListAvailable
    <3>3. available \subseteq Nodes
      BY DEF EvidenceInv, OrchestratorTypes
    <3> QED  BY <1>1, <3>1, <3>2, <3>3, ModelsAssumption
  <2>2. plan \in Seq(Shard) /\ Len(plan) >= 1
    BY <1>4, <2>1, PlanType, PlanShape DEF Shard
  <2>3. /\ req' = [req EXCEPT ![r].pc = "publish"]
        /\ load' = [load EXCEPT ![r] = x]
        /\ UNCHANGED model_states
    BY <1>2, <1>4 DEF EvidenceInv, OrchestratorTypes
  <2> HIDE DEF plan, m
  <2>4. /\ x \in LoadThread /\ x.pc = "none" /\ x.i = 1 /\ x.model = m
        /\ x.plan = plan
    BY <1>1, <2>2 DEF LoadThread
  <2> HIDE DEF x
  <2>5. load \in [Requests -> LoadThread] /\ load' \in [Requests -> LoadThread]
        /\ load'[r] = x /\ \A q \in Requests : q # r => load'[q] = load[q]
    BY <2>3, <2>4 DEF EvidenceInv, OrchestratorTypes, LoadThread
  <2>6. /\ req'[r].pc = "publish" /\ req'[r].model = m
        /\ \A q \in Requests : q # r => req'[q] = req[q]
    BY <2>3 DEF EvidenceInv, OrchestratorTypes, m
  <2>7. OrchestratorTypes'
    <3>0. req \in [Requests -> Request]
      BY DEF EvidenceInv, OrchestratorTypes
    <3>1. req' \in [Requests -> Request]
      BY <2>3, <3>0 DEF Request
    <3> QED  BY <1>1, <2>3, <2>5, <3>1 DEF EvidenceInv, OrchestratorTypes, LoadThread
  <2>8. Phases'
    <3>1. \A w \in Nodes : waiter[r][w].pc = "none"
      BY <1>1 DEF EvidenceInv, Phases
    <3>2. 1 \in 1..Len(plan)
      BY <2>2
    <3> QED
      BY <1>1, <2>4, <2>5, <2>6, <3>1, <3>2 DEF EvidenceInv, Phases
  <2>9. \A q \in Requests : Created(q)' = Created(q)
    BY <1>1, <2>4, <2>5 DEF Created
  <2>10. SlotEvidence'
    <3>1. Created(r) = {}
      BY <1>1 DEF Created
    <3> QED  BY <1>1, <2>5, <2>9, <3>1 DEF EvidenceInv, SlotEvidence
  <2>11. WaiterEvidence' /\ LoadEvidence'
    BY <1>1, <2>4, <2>5 DEF EvidenceInv, WaiterEvidence, LoadEvidence
  <2>12. EntryEvidence'
    BY <1>1, <2>3, <2>5 DEF EvidenceInv, EntryEvidence
  <2> QED  BY <2>7, <2>8, <2>10, <2>11, <2>12 DEF EvidenceInv
<1> QED  BY <1>3, <1>4

\* A load goes on, as x, with the same model and plan ...
LoadGoesOn(r, x) ==
  /\ x \in LoadThread
  /\ load[r].pc # "none" \/ req[r].pc = "publish"
  /\ load' = [load EXCEPT ![r] = x]
  /\ x.pc # "none" /\ x.model = load[r].model /\ x.plan = load[r].plan
  /\ x.i \in 1..Len(x.plan)
  /\ x.pc = "store" => x.i = 1
  /\ x.pc \in {"tokenizer", "built"} => PlanNodes(x.plan) \subseteq heard[r]
  /\ x.pc = "wait" => load[r].pc \in {"dispatch", "wait"}
  /\ UNCHANGED <<available, heard>>

\* ... its handler is done ...
HandlerDone(r) ==
  /\ req' \in [Requests -> Request]
  /\ req'[r].pc = "done" /\ req'[r].model = req[r].model
  /\ \A q \in Requests : q # r => req'[q] = req[q]

\* ... it may write the entry of its model ...
EntryWritten(r, x) ==
  /\ model_states' \in [Models -> Entry]
  /\ \A m \in Models : model_states'[m].status = "ready" =>
       \/ model_states'[m] = model_states[m]
       \/ /\ m = x.model /\ model_states'[m].by = r
          /\ PlanNodes(x.plan) \subseteq heard[r]

\* ... start its waiters or drop some ...
WaitersMove(r, x) ==
  /\ waiter' \in [Requests -> [Nodes -> Waiter]]
  /\ \A q \in Requests, w \in Nodes : waiter'[q][w].pc # "none" =>
       \/ waiter'[q][w] = waiter[q][w]
       \/ q = r /\ waiter'[q][w].pc = "start" /\ w \in PlanNodes(x.plan)
  /\ \A w \in Nodes : waiter'[r][w].pc # "none" =>
       x.pc \in {"wait", "tokenizer", "built", "failed", "done"}

\* ... and fill slots anew.
SlotsMove(r, x) ==
  /\ slots' \in [Models -> [Nodes -> Slot \cup {NoSlot}]]
  /\ \A m \in Models, w \in Nodes :
       slots'[m][w] = slots[m][w] \/ slots'[m][w].result # "ok"
  /\ \A w \in Nodes : w \in Created(r)' =>
       w \in Created(r) \/ slots'[x.model][w].result # "ok"

LEMMA LoadMoves ==
  ASSUME EvidenceInv, NEW r \in Requests, NEW x,
         LoadGoesOn(r, x), HandlerDone(r), EntryWritten(r, x),
         WaitersMove(r, x), SlotsMove(r, x)
  PROVE  EvidenceInv'
<1>1. load \in [Requests -> LoadThread]
  BY DEF EvidenceInv, OrchestratorTypes
<1>2. /\ load' \in [Requests -> LoadThread] /\ load'[r] = x
      /\ \A q \in Requests : q # r => load'[q] = load[q]
      /\ UNCHANGED <<available, heard>>
  BY <1>1 DEF LoadGoesOn
<1>3. OrchestratorTypes'
  BY <1>2 DEF EvidenceInv, OrchestratorTypes, HandlerDone, EntryWritten,
    WaitersMove, SlotsMove
<1>4. load[r].model = req[r].model /\ req[r].model \in Models
  BY DEF EvidenceInv, Phases, LoadGoesOn
<1>5. Phases'
  <2> SUFFICES ASSUME NEW q \in Requests
               PROVE  /\ req'[q].pc # "free" => req'[q].model \in Models
                      /\ req'[q].pc # "done" => load'[q].pc = "none"
                      /\ load'[q].pc \in {"none", "store"} => load'[q].i = 1
                      /\ load'[q].pc # "none" \/ req'[q].pc = "publish" =>
                           /\ load'[q].model = req'[q].model
                           /\ load'[q].i \in 1..Len(load'[q].plan)
                      /\ \A w \in Nodes : waiter'[q][w].pc # "none" =>
                           /\ w \in PlanNodes(load'[q].plan)
                           /\ load'[q].pc \in {"wait", "tokenizer", "built",
                                               "failed", "done"}
    BY DEF Phases
  <2>1. CASE q = r
    <3>1. \A w \in Nodes : waiter'[r][w].pc # "none" =>
            /\ w \in PlanNodes(load'[r].plan)
            /\ x.pc \in {"wait", "tokenizer", "built", "failed", "done"}
      BY <1>2 DEF EvidenceInv, Phases, WaitersMove, LoadGoesOn
    <3> QED  BY <1>2, <1>4, <2>1, <3>1 DEF LoadGoesOn, HandlerDone
  <2>2. CASE q # r
    BY <1>2, <2>2 DEF EvidenceInv, Phases, HandlerDone, WaitersMove
  <2> QED  BY <2>1, <2>2
<1>6. \A q \in Requests : q # r => Created(q)' = Created(q)
  BY <1>2 DEF Created
<1>7. SlotEvidence'
  <2> SUFFICES ASSUME NEW m \in Models, NEW w \in Nodes, NEW q \in Requests,
                      slots'[m][w] # NoSlot, slots'[m][w].result = "ok",
                      load'[q].model = m, w \in Created(q)'
               PROVE  w \in heard[q]
    BY <1>2 DEF SlotEvidence
  <2>1. slots'[m][w] = slots[m][w]
    BY DEF SlotsMove
  <2>2. w \in Created(q) /\ load[q].model = m
    BY <1>2, <1>6 DEF SlotsMove, LoadGoesOn
  <2> QED  BY <2>1, <2>2 DEF EvidenceInv, SlotEvidence
<1>8. WaiterEvidence'
  <2> SUFFICES ASSUME NEW q \in Requests, NEW w \in Nodes,
                      load'[q].pc = "wait", waiter'[q][w].pc = "ok"
               PROVE  w \in heard[q]
    BY <1>2 DEF WaiterEvidence
  <2>1. waiter[q][w].pc = "ok"
    BY DEF WaitersMove
  <2>2. load[q].pc = "wait"
    BY <1>2, <2>1 DEF EvidenceInv, Phases, LoadGoesOn
  <2> QED  BY <2>1, <2>2 DEF EvidenceInv, WaiterEvidence
<1>9. LoadEvidence'
  BY <1>2 DEF EvidenceInv, LoadEvidence, LoadGoesOn
<1>10. EntryEvidence'
  <2> SUFFICES ASSUME NEW m \in Models, model_states'[m].status = "ready"
               PROVE  /\ model_states'[m].by \in Requests
                      /\ load'[model_states'[m].by].pc # "none"
                      /\ load'[model_states'[m].by].model = m
                      /\ PlanNodes(load'[model_states'[m].by].plan)
                           \subseteq heard[model_states'[m].by]
    BY <1>2 DEF EntryEvidence
  <2>1. CASE model_states'[m] = model_states[m]
    <3> DEFINE q == model_states[m].by
    <3>1. /\ q \in Requests /\ load[q].pc # "none" /\ load[q].model = m
          /\ PlanNodes(load[q].plan) \subseteq heard[q]
      BY <2>1 DEF EvidenceInv, EntryEvidence
    <3> QED  BY <1>2, <2>1, <3>1 DEF LoadGoesOn
  <2>2. CASE m = x.model /\ model_states'[m].by = r
               /\ PlanNodes(x.plan) \subseteq heard[r]
    BY <1>2, <2>2 DEF LoadGoesOn
  <2> QED  BY <2>1, <2>2 DEF EntryWritten
<1> QED  BY <1>3, <1>5, <1>7, <1>8, <1>9, <1>10 DEF EvidenceInv

\* What does not move.
LEMMA Unmoved ==
  ASSUME EvidenceInv, NEW r \in Requests, NEW x
  PROVE  /\ load[r].pc # "none" /\ UNCHANGED req => HandlerDone(r)
         /\ UNCHANGED model_states => EntryWritten(r, x)
         /\ /\ UNCHANGED waiter
            /\ load[r].pc \in {"none", "store", "create", "dispatch"} \/
                 x.pc \in {"wait", "tokenizer", "built", "failed", "done"}
            => WaitersMove(r, x)
         /\ UNCHANGED slots /\ Created(r)' \subseteq Created(r)
            => SlotsMove(r, x)
<1>1. load[r].pc # "none" /\ UNCHANGED req => HandlerDone(r)
  BY DEF EvidenceInv, OrchestratorTypes, Phases, HandlerDone
<1>2. UNCHANGED model_states => EntryWritten(r, x)
  BY DEF EvidenceInv, OrchestratorTypes, EntryWritten
<1>3. ASSUME UNCHANGED waiter,
             load[r].pc \in {"none", "store", "create", "dispatch"} \/
               x.pc \in {"wait", "tokenizer", "built", "failed", "done"}
      PROVE  WaitersMove(r, x)
  <2>1. load[r].pc \in {"none", "store", "create", "dispatch"} =>
          \A w \in Nodes : waiter[r][w].pc = "none"
    BY DEF EvidenceInv, Phases
  <2>2. waiter' \in [Requests -> [Nodes -> Waiter]]
    BY <1>3 DEF EvidenceInv, OrchestratorTypes
  <2>3. \A w \in Nodes : waiter'[r][w].pc # "none" =>
          x.pc \in {"wait", "tokenizer", "built", "failed", "done"}
    BY <1>3, <2>1
  <2> QED  BY <1>3, <2>2, <2>3 DEF WaitersMove
<1>4. UNCHANGED slots /\ Created(r)' \subseteq Created(r) => SlotsMove(r, x)
  BY DEF EvidenceInv, OrchestratorTypes, SlotsMove
<1> QED  BY <1>1, <1>2, <1>3, <1>4

\* The same for a step that only moves the load, forward or to its end.
LEMMA LoadAlone ==
  ASSUME EvidenceInv, NEW r \in Requests, NEW p,
         p \in {"create", "tokenizer", "built", "failed"},
         load[r].pc # "none", load' = [load EXCEPT ![r].pc = p],
         (p = "create") => load[r].pc = "store",
         p \in {"tokenizer", "built"} =>
           PlanNodes(load[r].plan) \subseteq heard[r],
         UNCHANGED <<available, model_states, req, waiter, slots, heard>>
  PROVE  EvidenceInv'
<1> DEFINE x == [load[r] EXCEPT !.pc = p]
<1>1. load[r] \in LoadThread
  BY DEF EvidenceInv, OrchestratorTypes
<1>2. /\ x \in LoadThread /\ x.pc = p /\ x.model = load[r].model
      /\ x.plan = load[r].plan /\ x.i = load[r].i
  BY <1>1 DEF LoadThread
<1>3. load' = [load EXCEPT ![r] = x]
  BY DEF EvidenceInv, OrchestratorTypes
<1>4. load'[r] = x
  BY <1>3 DEF EvidenceInv, OrchestratorTypes
<1> HIDE DEF x
<1>5. /\ x.i \in 1..Len(x.plan) /\ req[r].pc = "done"
      /\ \A w \in Nodes : waiter[r][w].pc # "none" =>
           load[r].pc \in {"wait", "tokenizer", "built", "failed", "done"}
  BY <1>2 DEF EvidenceInv, Phases
<1>6. Created(r)' \subseteq Created(r)
  <2>1. CASE p = "create"
    <3>1. load[r].i = 1
      BY <2>1 DEF EvidenceInv, Phases
    <3> QED  BY <1>2, <1>4, <2>1, <3>1 DEF Created
  <2>2. CASE p # "create"
    BY <1>2, <1>4, <2>2 DEF Created
  <2> QED  BY <2>1, <2>2
<1>7. LoadGoesOn(r, x)
  BY <1>2, <1>3, <1>5 DEF LoadGoesOn
<1>8. WaitersMove(r, x)
  BY <1>2, <1>5, Unmoved
<1> QED  BY <1>6, <1>7, <1>8, Unmoved, LoadMoves

LEMMA PublishInv ==
  ASSUME EvidenceInv, NEW r \in Requests, Publish(r)
  PROVE  EvidenceInv'
<1> DEFINE m == req[r].model
           e == [status |-> "loading", by |-> r]
           x == [load[r] EXCEPT !.pc = "store"]
<1>1. /\ req[r].pc = "publish" /\ load[r].pc = "none" /\ load[r].i = 1
      /\ load[r].i \in 1..Len(load[r].plan)
      /\ req \in [Requests -> Request] /\ load[r] \in LoadThread
      /\ model_states \in [Models -> Entry]
  BY DEF Publish, EvidenceInv, OrchestratorTypes, Phases
<1>2. /\ model_states' = [model_states EXCEPT ![m] = e]
      /\ load' = [load EXCEPT ![r] = x]
      /\ req' = [req EXCEPT ![r].pc = "done"]
      /\ UNCHANGED <<available, waiter, slots, heard>>
  BY DEF Publish, storeVars, EvidenceInv, OrchestratorTypes
<1>3. e \in Entry /\ e.status = "loading"
  BY DEF Entry
<1>4. /\ x \in LoadThread /\ x.pc = "store" /\ x.model = load[r].model
      /\ x.plan = load[r].plan /\ x.i = 1
  BY <1>1 DEF LoadThread
<1>5. load'[r] = x
  BY <1>2 DEF EvidenceInv, OrchestratorTypes
<1> HIDE DEF m, e, x
<1>6. LoadGoesOn(r, x)
  BY <1>1, <1>2, <1>4 DEF LoadGoesOn
<1>7. HandlerDone(r)
  BY <1>1, <1>2 DEF HandlerDone, Request
<1>8. EntryWritten(r, x)
  BY <1>1, <1>2, <1>3 DEF EntryWritten
<1>9. Created(r)' \subseteq Created(r)
  BY <1>4, <1>5 DEF Created
<1> QED  BY <1>1, <1>2, <1>6, <1>7, <1>8, <1>9, Unmoved, LoadMoves

LEMMA LoadAloneInv ==
  ASSUME EvidenceInv, NEW r \in Requests,
         StoreLoad(r) \/ CollectAll(r) \/ LoadTokenizer(r)
  PROVE  EvidenceInv'
<1>1. CASE StoreLoad(r)
  BY <1>1, LoadAlone DEF StoreLoad, storeVars, handlerVars
<1>2. CASE CollectAll(r)
  <2>1. PlanNodes(load[r].plan) \subseteq heard[r]
    <3>1. load[r].plan \in Seq(Shard)
      BY DEF EvidenceInv, OrchestratorTypes, LoadThread
    <3>2. PlanNodes(load[r].plan) \subseteq Nodes
      BY <3>1, PlanNodesOf
    <3> QED  BY <1>2, <3>2 DEF CollectAll, EvidenceInv, WaiterEvidence
  <2> QED  BY <1>2, <2>1, LoadAlone DEF CollectAll, storeVars, handlerVars
<1>3. CASE LoadTokenizer(r)
  <2>1. PlanNodes(load[r].plan) \subseteq heard[r]
    BY <1>3 DEF LoadTokenizer, EvidenceInv, LoadEvidence
  <2> QED  BY <1>3, <2>1, LoadAlone DEF LoadTokenizer, storeVars, handlerVars
<1> QED  BY <1>1, <1>2, <1>3

LEMMA WriteOutcomeInv ==
  ASSUME EvidenceInv, NEW r \in Requests, WriteOutcome(r)
  PROVE  EvidenceInv'
<1> DEFINE m == load[r].model
           e == [status |-> IF load[r].pc = "built" THEN "ready" ELSE "error",
                 by |-> r]
           x == [load[r] EXCEPT !.pc = "done"]
<1>1. /\ load[r].pc \in {"built", "failed"}
      /\ load[r].i \in 1..Len(load[r].plan) /\ load[r] \in LoadThread
      /\ model_states \in [Models -> Entry]
  BY DEF WriteOutcome, EvidenceInv, OrchestratorTypes, Phases
<1>2. /\ model_states' = [model_states EXCEPT ![m] = e]
      /\ load' = [load EXCEPT ![r] = x]
      /\ UNCHANGED <<available, req, waiter, slots, heard>>
  BY DEF WriteOutcome, storeVars, handlerVars, EvidenceInv, OrchestratorTypes
<1>3. /\ e \in Entry /\ e.by = r
      /\ e.status = "ready" => load[r].pc = "built"
  BY DEF Entry
<1>4. /\ x \in LoadThread /\ x.pc = "done" /\ x.model = m
      /\ x.plan = load[r].plan /\ x.i = load[r].i
  BY <1>1 DEF LoadThread
<1>5. load'[r] = x
  BY <1>2 DEF EvidenceInv, OrchestratorTypes
<1> HIDE DEF e, x
<1>6. LoadGoesOn(r, x)
  BY <1>1, <1>2, <1>4 DEF LoadGoesOn
<1>7. load[r].pc = "built" => PlanNodes(x.plan) \subseteq heard[r]
  BY <1>4 DEF EvidenceInv, LoadEvidence
<1>8. EntryWritten(r, x)
  BY <1>1, <1>2, <1>3, <1>4, <1>7 DEF EntryWritten
<1>9. Created(r)' \subseteq Created(r)
  BY <1>4, <1>5 DEF Created
<1>10. WaitersMove(r, x)
  BY <1>2, <1>4, Unmoved
<1> QED  BY <1>1, <1>2, <1>6, <1>8, <1>9, <1>10, Unmoved, LoadMoves

LEMMA CollectFailureInv ==
  ASSUME EvidenceInv, NEW r \in Requests, CollectFailure(r)
  PROVE  EvidenceInv'
<1> DEFINE x == [load[r] EXCEPT !.pc = "failed"]
<1>1. /\ load[r].pc = "wait" /\ load' = [load EXCEPT ![r] = x]
      /\ load[r].i \in 1..Len(load[r].plan) /\ load[r] \in LoadThread
      /\ waiter \in [Requests -> [Nodes -> Waiter]]
      /\ UNCHANGED <<available, model_states, req, slots, heard>>
  BY DEF CollectFailure, storeVars, handlerVars, EvidenceInv,
    OrchestratorTypes, Phases
<1>2. PICK cancelled \in SUBSET {w \in Nodes : waiter[r][w].pc = "start"} :
        waiter' = [waiter EXCEPT ![r] = [w \in Nodes |->
          IF w \in cancelled THEN NoWaiter ELSE waiter[r][w]]]
  BY DEF CollectFailure
<1>3. /\ x \in LoadThread /\ x.pc = "failed" /\ x.model = load[r].model
      /\ x.plan = load[r].plan /\ x.i = load[r].i
  BY <1>1 DEF LoadThread
<1>4. load'[r] = x
  BY <1>1 DEF EvidenceInv, OrchestratorTypes
<1> HIDE DEF x
<1>5. LoadGoesOn(r, x)
  BY <1>1, <1>3 DEF LoadGoesOn
<1>6. WaitersMove(r, x)
  <2>1. NoWaiter \in Waiter /\ NoWaiter.pc = "none"
    BY DEF NoWaiter, Waiter
  <2>2. waiter' \in [Requests -> [Nodes -> Waiter]]
    BY <1>1, <1>2, <2>1
  <2>3. \A q \in Requests, w \in Nodes : waiter'[q][w].pc # "none" =>
          waiter'[q][w] = waiter[q][w]
    BY <1>1, <1>2, <2>1
  <2> QED  BY <1>3, <2>2, <2>3 DEF WaitersMove
<1>7. Created(r)' \subseteq Created(r)
  BY <1>3, <1>4 DEF Created
<1> QED  BY <1>1, <1>5, <1>6, <1>7, Unmoved, LoadMoves

\* The loop step of PipelineRunner.load.
LEMMA AdvanceIs ==
  ASSUME EvidenceInv, NEW r \in Requests, NEW p \in {"dispatch", "wait"},
         load[r].pc \in {"create", "dispatch"}, Advance(r, p)
  PROVE  /\ load[r].i \in 1..Len(load[r].plan) /\ load[r].plan \in Seq(Shard)
         /\ load' = [load EXCEPT ![r] = load'[r]] /\ load'[r] \in LoadThread
         /\ load'[r].model = load[r].model /\ load'[r].plan = load[r].plan
         /\ load[r].i = Len(load[r].plan) =>
              load'[r].pc = p /\ load'[r].i = 1
         /\ load[r].i # Len(load[r].plan) =>
              load'[r].pc = load[r].pc /\ load'[r].i = load[r].i + 1
         /\ load'[r].i \in 1..Len(load[r].plan)
<1> DEFINE n == Len(load[r].plan)
           pc2 == IF load[r].i = n THEN p ELSE load[r].pc
           i2 == IF load[r].i = n THEN 1 ELSE load[r].i + 1
           x == [load[r] EXCEPT !.pc = pc2, !.i = i2]
<1>1. load \in [Requests -> LoadThread] /\ load[r].i \in 1..n
  BY DEF EvidenceInv, OrchestratorTypes, Phases
<1>2. load[r].plan \in Seq(Shard) /\ n \in Nat /\ load[r].i \in Nat
  BY <1>1 DEF LoadThread
<1>3. load' = [load EXCEPT ![r] = x]
  BY <1>1 DEF Advance
<1>4. i2 \in Nat /\ i2 \in 1..n
  BY <1>1, <1>2
<1>5. pc2 \in {"create", "dispatch", "wait"}
  OBVIOUS
<1>6. load[r].i = n => pc2 = p /\ i2 = 1
  OBVIOUS
<1>7. load[r].i # n => pc2 = load[r].pc /\ i2 = load[r].i + 1
  OBVIOUS
<1> HIDE DEF pc2, i2
<1>8. /\ x \in LoadThread /\ x.pc = pc2 /\ x.model = load[r].model
      /\ x.plan = load[r].plan /\ x.i = i2
  BY <1>1, <1>4, <1>5 DEF LoadThread
<1> HIDE DEF x
<1>9. load'[r] = x
  BY <1>1, <1>3
<1> QED  BY <1>1, <1>2, <1>3, <1>4, <1>6, <1>7, <1>8, <1>9

LEMMA CreateSlotInv ==
  ASSUME EvidenceInv, NEW r \in Requests, CreateSlot(r)
  PROVE  EvidenceInv'
<1> DEFINE x == load'[r]
           w == Current(r).node
           m == load[r].model
           new == [event |-> r, result |-> "none"]
<1>1. /\ load[r].pc = "create" /\ Advance(r, "dispatch")
      /\ slots' = [slots EXCEPT ![m][w] = new]
      /\ UNCHANGED <<available, model_states, req, waiter, heard>>
  BY DEF CreateSlot, handlerVars
<1>2. /\ load[r].i \in 1..Len(load[r].plan) /\ load[r].plan \in Seq(Shard)
      /\ load' = [load EXCEPT ![r] = x] /\ x \in LoadThread
      /\ x.model = m /\ x.plan = load[r].plan
      /\ load[r].i = Len(load[r].plan) => x.pc = "dispatch" /\ x.i = 1
      /\ load[r].i # Len(load[r].plan) => x.pc = "create" /\ x.i = load[r].i + 1
      /\ x.i \in 1..Len(load[r].plan)
  BY <1>1, AdvanceIs
<1>3. m \in Models
  BY <1>1 DEF EvidenceInv, Phases
<1>4. w \in Nodes
  <2>1. load[r].plan[load[r].i] \in Shard
    BY <1>2
  <2> QED  BY <2>1 DEF Current, Shard, Assignments
<1>5. new \in Slot \cup {NoSlot} /\ new.result = "none"
  BY DEF Slot
<1> HIDE DEF new
<1>6. \A v : v \in Created(r)' => v \in Created(r) \/ v = w
  <2> DEFINE plan == load[r].plan
             i == load[r].i
  <2>1. Created(r) = {plan[j].node : j \in 1..(i - 1)}
    BY <1>1 DEF Created
  <2>2. i \in Nat /\ Len(plan) \in Nat /\ w = plan[i].node
    BY <1>2 DEF Current
  <2>3. CASE i = Len(plan)
    <3>1. Created(r)' = {plan[j].node : j \in 1..i}
      BY <1>2, <2>3 DEF Created
    <3>2. \A j \in 1..i : j \in 1..(i - 1) \/ j = i
      BY <2>2
    <3> QED  BY <2>1, <2>2, <3>1, <3>2
  <2>4. CASE i # Len(plan)
    <3>0. x.i - 1 = i /\ x.pc = "create" /\ x.plan = plan
      BY <1>2, <2>2, <2>4
    <3>1. Created(r)' = {plan[j].node : j \in 1..i}
      BY <3>0 DEF Created
    <3>2. \A j \in 1..i : j \in 1..(i - 1) \/ j = i
      BY <2>2
    <3> QED  BY <2>1, <2>2, <3>1, <3>2
  <2> QED  BY <2>3, <2>4
<1> HIDE DEF w, m
<1>7. LoadGoesOn(r, x)
  BY <1>1, <1>2 DEF LoadGoesOn, m
<1>8. SlotsMove(r, x)
  <2>1. slots \in [Models -> [Nodes -> Slot \cup {NoSlot}]]
    BY DEF EvidenceInv, OrchestratorTypes
  <2>2. slots' \in [Models -> [Nodes -> Slot \cup {NoSlot}]]
    BY <1>1, <1>3, <1>4, <1>5, <2>1
  <2>3. /\ slots'[m][w] = new
        /\ \A k \in Models, v \in Nodes :
             k # m \/ v # w => slots'[k][v] = slots[k][v]
    BY <1>1, <1>3, <1>4, <2>1
  <2> HIDE DEF x
  <2> QED  BY <1>2, <1>5, <1>6, <2>2, <2>3 DEF SlotsMove
<1>9. WaitersMove(r, x)
  BY <1>1, Unmoved
<1> QED  BY <1>1, <1>7, <1>8, <1>9, Unmoved, LoadMoves

LEMMA DispatchedInv ==
  ASSUME EvidenceInv, NEW r \in Requests, load[r].pc = "dispatch",
         Dispatched(r),
         UNCHANGED <<available, model_states, req, slots, heard>>
  PROVE  EvidenceInv'
<1> DEFINE x == load'[r]
<1>1. /\ load[r].i \in 1..Len(load[r].plan) /\ load[r].plan \in Seq(Shard)
      /\ load' = [load EXCEPT ![r] = x] /\ x \in LoadThread
      /\ x.model = load[r].model /\ x.plan = load[r].plan
      /\ load[r].i = Len(load[r].plan) => x.pc = "wait" /\ x.i = 1
      /\ load[r].i # Len(load[r].plan) => x.pc = "dispatch"
      /\ x.i \in 1..Len(load[r].plan)
  BY AdvanceIs DEF Dispatched
<1>2. LoadGoesOn(r, x)
  BY <1>1 DEF LoadGoesOn
<1>3. Created(r)' = Created(r)
  <2>1. x.pc \in {"dispatch", "wait"}
    BY <1>1
  <2> QED  BY <1>1, <2>1 DEF Created
<1>4. WaitersMove(r, x)
  <2> DEFINE s == [NoWaiter EXCEPT !.pc = "start"]
             f == [v \in Nodes |-> IF v \in PlanNodes(load[r].plan)
                                   THEN s ELSE NoWaiter]
  <2>1. CASE load[r].i < Len(load[r].plan)
    <3>1. UNCHANGED waiter
      BY <2>1 DEF Dispatched
    <3> QED  BY <3>1, Unmoved
  <2>2. CASE ~(load[r].i < Len(load[r].plan))
    <3>1. waiter' = [waiter EXCEPT ![r] = f]
      BY <2>2 DEF Dispatched
    <3>2. /\ s \in Waiter /\ s.pc = "start"
          /\ NoWaiter \in Waiter /\ NoWaiter.pc = "none"
      BY DEF NoWaiter, Waiter
    <3> HIDE DEF s
    <3>3. /\ f \in [Nodes -> Waiter]
          /\ \A v \in Nodes : f[v].pc # "none" =>
               f[v].pc = "start" /\ v \in PlanNodes(load[r].plan)
      BY <3>2
    <3> HIDE DEF f
    <3>4. waiter \in [Requests -> [Nodes -> Waiter]]
      BY DEF EvidenceInv, OrchestratorTypes
    <3>5. x.pc = "wait"
      BY <1>1, <2>2
    <3>6. /\ waiter' \in [Requests -> [Nodes -> Waiter]] /\ waiter'[r] = f
          /\ \A q \in Requests : q # r => waiter'[q] = waiter[q]
      BY <3>1, <3>3, <3>4
    <3> HIDE DEF x
    <3> QED  BY <1>1, <3>3, <3>5, <3>6 DEF WaitersMove
  <2> QED  BY <2>1, <2>2
<1> QED  BY <1>2, <1>3, <1>4, Unmoved, LoadMoves

LEMMA DispatchShardInv ==
  ASSUME EvidenceInv, NEW r \in Requests, DispatchShard(r)
  PROVE  EvidenceInv'
<1>1. /\ load[r].pc = "dispatch" /\ (Dispatched(r) \/ DispatchFails(r))
      /\ UNCHANGED <<available, model_states, req, slots, heard>>
  BY DEF DispatchShard, storeVars, handlerVars
<1>2. CASE Dispatched(r)
  BY <1>1, <1>2, DispatchedInv
<1>3. CASE DispatchFails(r)
  BY <1>1, <1>3, LoadAlone DEF DispatchFails
<1> QED  BY <1>1, <1>2, <1>3

-----------------------------------------------------------------------------
(* The waiters and the workers' reports.                                   *)

LEMMA WaiterMoves ==
  ASSUME EvidenceInv, NEW r \in Requests, NEW w \in Nodes, NEW v \in Waiter,
         waiter[r][w].pc # "none", waiter' = [waiter EXCEPT ![r][w] = v],
         v.pc = "ok" /\ load[r].pc = "wait" => w \in heard[r],
         slots' \in [Models -> [Nodes -> Slot \cup {NoSlot}]],
         \A m \in Models, u \in Nodes :
           slots'[m][u] = slots[m][u] \/ slots'[m][u] = NoSlot,
         UNCHANGED <<available, model_states, req, load, heard>>
  PROVE  EvidenceInv'
<1>1. waiter \in [Requests -> [Nodes -> Waiter]]
  BY DEF EvidenceInv, OrchestratorTypes
<1>2. /\ waiter' \in [Requests -> [Nodes -> Waiter]] /\ waiter'[r][w] = v
      /\ \A q \in Requests, u \in Nodes :
           q # r \/ u # w => waiter'[q][u] = waiter[q][u]
  BY <1>1
<1>3. OrchestratorTypes'
  BY <1>2 DEF EvidenceInv, OrchestratorTypes
<1>4. Phases'
  BY <1>2 DEF EvidenceInv, Phases
<1>5. \A q \in Requests : Created(q)' = Created(q)
  BY DEF Created
<1>6. SlotEvidence'
  BY <1>5 DEF EvidenceInv, SlotEvidence
<1>7. WaiterEvidence'
  BY <1>2 DEF EvidenceInv, WaiterEvidence
<1>8. LoadEvidence' /\ EntryEvidence'
  BY DEF EvidenceInv, LoadEvidence, EntryEvidence
<1> QED  BY <1>3, <1>4, <1>6, <1>7, <1>8 DEF EvidenceInv

LEMMA WaiterStartInv ==
  ASSUME EvidenceInv, NEW r \in Requests, NEW w \in Nodes, WaiterStart(r, w)
  PROVE  EvidenceInv'
<1> DEFINE slot == slots[load[r].model][w]
           v == IF slot = NoSlot THEN [NoWaiter EXCEPT !.pc = "error"]
                ELSE [pc |-> "blocked", event |-> slot.event]
<1>1. /\ waiter[r][w].pc = "start" /\ waiter' = [waiter EXCEPT ![r][w] = v]
      /\ UNCHANGED <<available, model_states, req, load, slots, heard>>
  BY DEF WaiterStart, storeVars, handlerVars
<1>2. slots \in [Models -> [Nodes -> Slot \cup {NoSlot}]]
  BY DEF EvidenceInv, OrchestratorTypes
<1>3. load[r].model \in Models
  BY <1>1 DEF EvidenceInv, Phases
<1>4. v \in Waiter /\ v.pc \in {"error", "blocked"}
  <2>1. slot \in Slot \cup {NoSlot}
    BY <1>2, <1>3
  <2> HIDE DEF slot
  <2>2. CASE slot = NoSlot
    BY <2>2 DEF NoWaiter, Waiter
  <2>3. CASE slot # NoSlot
    <3>1. slot.event \in Requests
      BY <2>1, <2>3 DEF Slot
    <3> QED  BY <2>3, <3>1 DEF Waiter
  <2> QED  BY <2>2, <2>3
<1> HIDE DEF v
<1> QED  BY <1>1, <1>2, <1>4, WaiterMoves

\* Every worker of the plan of a waiting load has had its slot created.
LEMMA WaitingCreated ==
  ASSUME EvidenceInv, NEW r \in Requests, load[r].pc = "wait"
  PROVE  Created(r) = PlanNodes(load[r].plan)
<1>1. load[r].plan \in Seq(Shard)
  BY DEF EvidenceInv, OrchestratorTypes, LoadThread
<1>2. Created(r) = {load[r].plan[j].node : j \in 1..Len(load[r].plan)}
  BY DEF Created
<1> QED  BY <1>1, <1>2, PlanNodesOf

LEMMA WaiterPopInv ==
  ASSUME EvidenceInv, NEW r \in Requests, NEW w \in Nodes, WaiterPop(r, w)
  PROVE  EvidenceInv'
<1> DEFINE m == load[r].model
           slot == slots[m][w]
           v == [NoWaiter EXCEPT !.pc =
                   IF slot # NoSlot /\ slot.result = "ok" THEN "ok" ELSE "error"]
<1>1. /\ waiter[r][w].pc = "blocked" /\ waiter' = [waiter EXCEPT ![r][w] = v]
      /\ slots' = [slots EXCEPT ![m][w] = NoSlot]
      /\ UNCHANGED <<available, model_states, req, load, heard>>
  BY DEF WaiterPop, handlerVars
<1>2. slots \in [Models -> [Nodes -> Slot \cup {NoSlot}]]
  BY DEF EvidenceInv, OrchestratorTypes
<1>3. m \in Models /\ w \in PlanNodes(load[r].plan)
  BY <1>1 DEF EvidenceInv, Phases
<1>4. /\ v \in Waiter /\ v.pc # "none"
      /\ v.pc = "ok" => slot # NoSlot /\ slot.result = "ok"
  BY DEF NoWaiter, Waiter
<1> HIDE DEF v
<1>5. v.pc = "ok" /\ load[r].pc = "wait" => w \in heard[r]
  BY <1>3, <1>4, WaitingCreated DEF EvidenceInv, SlotEvidence
<1> HIDE DEF slot, m
<1>6. /\ slots' \in [Models -> [Nodes -> Slot \cup {NoSlot}]]
      /\ \A k \in Models, u \in Nodes :
           slots'[k][u] = slots[k][u] \/ slots'[k][u] = NoSlot
  BY <1>1, <1>2, <1>3
<1> QED  BY <1>1, <1>4, <1>5, <1>6, WaiterMoves

\* A report is heard by every load that has created the slot it fills.
LEMMA DeliverInv ==
  ASSUME EvidenceInv, NEW m, NEW w \in Nodes, NEW ok, Deliver(m, w, ok),
         UNCHANGED <<available, model_states, req, load, waiter>>
  PROVE  EvidenceInv'
<1>1. CASE slots[m][w] = NoSlot
  BY <1>1, HandlerFrame
  DEF Deliver, storeVars, EvidenceInv, OrchestratorTypes, Phases
<1>2. CASE slots[m][w] # NoSlot
  <2> DEFINE res == IF ok THEN "ok" ELSE "failed"
             new == [slots[m][w] EXCEPT !.result = res]
  <2>1. /\ slots' = [slots EXCEPT ![m][w].result = res]
        /\ heard' = [r \in Requests |->
             IF ok /\ load[r].model = m /\ w \in Created(r)
             THEN heard[r] \cup {w} ELSE heard[r]]
    BY <1>2 DEF Deliver
  <2>2. /\ heard \in [Requests -> SUBSET Nodes]
        /\ slots \in [Models -> [Nodes -> Slot \cup {NoSlot}]]
    BY DEF EvidenceInv, OrchestratorTypes
  <2>3. /\ heard' \in [Requests -> SUBSET Nodes]
        /\ \A r \in Requests : heard[r] \subseteq heard'[r]
        /\ \A r \in Requests : ok /\ load[r].model = m /\ w \in Created(r)
             => w \in heard'[r]
    BY <2>1, <2>2
  <2>4. res \in {"ok", "failed"} /\ (res = "ok" => ok)
    OBVIOUS
  <2> HIDE DEF res
  <2>5. slots' \in [Models -> [Nodes -> Slot \cup {NoSlot}]]
    <3>1. CASE m \in Models
      <4>1. slots[m][w] \in Slot
        BY <1>2, <2>2, <3>1
      <4>2. new \in Slot
        BY <2>4, <4>1 DEF Slot
      <4>3. slots' = [slots EXCEPT ![m][w] = new]
        BY <2>1, <2>2, <3>1
      <4> HIDE DEF new
      <4> QED  BY <2>2, <3>1, <4>2, <4>3
    <3>2. CASE m \notin Models
      BY <2>1, <2>2, <3>2
    <3> QED  BY <3>1, <3>2
  <2>6. \A k \in Models, u \in Nodes :
          slots'[k][u].result = "ok" /\ slots'[k][u] # NoSlot =>
            slots'[k][u] = slots[k][u] \/ (k = m /\ u = w /\ ok)
    <3> SUFFICES ASSUME NEW k \in Models, NEW u \in Nodes,
                        slots'[k][u].result = "ok"
                 PROVE  slots'[k][u] = slots[k][u] \/ (k = m /\ u = w /\ ok)
      OBVIOUS
    <3>1. CASE k = m /\ u = w
      <4>1. slots[m][w] \in Slot
        BY <1>2, <2>2, <3>1
      <4>2. slots'[k][u] = new
        BY <2>1, <2>2, <3>1
      <4>3. new.result = res
        BY <4>1 DEF Slot
      <4> QED  BY <2>4, <3>1, <4>2, <4>3
    <3>2. CASE k # m \/ u # w
      BY <2>1, <2>2, <3>2
    <3> QED  BY <3>1, <3>2
  <2>7. OrchestratorTypes'
    BY <2>3, <2>5 DEF EvidenceInv, OrchestratorTypes
  <2>8. Phases'
    BY DEF EvidenceInv, Phases
  <2>9. \A r \in Requests : Created(r)' = Created(r)
    BY DEF Created
  <2>10. SlotEvidence'
    <3> SUFFICES ASSUME NEW k \in Models, NEW u \in Nodes, NEW r \in Requests,
                        slots'[k][u] # NoSlot, slots'[k][u].result = "ok",
                        load[r].model = k, u \in Created(r)
                 PROVE  u \in heard'[r]
      BY <2>9 DEF SlotEvidence
    <3>1. CASE slots'[k][u] = slots[k][u]
      <4>1. u \in heard[r]
        BY <3>1 DEF EvidenceInv, SlotEvidence
      <4> QED  BY <2>3, <4>1
    <3>2. CASE k = m /\ u = w /\ ok
      BY <2>3, <3>2
    <3> QED  BY <2>6, <3>1, <3>2
  <2>11. WaiterEvidence' /\ LoadEvidence' /\ EntryEvidence'
    BY <2>3
    DEF EvidenceInv, WaiterEvidence, LoadEvidence, EntryEvidence
  <2> QED  BY <2>7, <2>8, <2>10, <2>11 DEF EvidenceInv
<1> QED  BY <1>1, <1>2

\* Steps that touch none of this state, except the registry's.
LEMMA OtherInv ==
  ASSUME EvidenceInv, available' \subseteq Nodes,
         UNCHANGED <<model_states, req, load, waiter, slots, heard>>
  PROVE  EvidenceInv'
BY HandlerFrame DEF EvidenceInv, OrchestratorTypes, Phases

LEMMA ThreadStepInv ==
  ASSUME EvidenceInv, NEW w \in Nodes, NEW r \in Requests, ThreadStep(w, r)
  PROVE  EvidenceInv'
<1>1. PICK t \in threads[w] : BuildDone(w, t) \/ Report(w, t)
  BY DEF ThreadStep
<1>2. available \subseteq Nodes
  BY DEF EvidenceInv, OrchestratorTypes
<1>3. CASE BuildDone(w, t)
  BY <1>2, <1>3, OtherInv DEF BuildDone, storeVars, handlerVars
<1>4. CASE Report(w, t)
  <2>1. UNCHANGED <<available, model_states, req, load, waiter>>
    BY <1>4 DEF Report, handlerVars
  <2>2. CASE Deliver(t.model, w, t.ok)
    BY <2>1, <2>2, DeliverInv
  <2>3. CASE UNCHANGED storeVars
    BY <1>2, <2>1, <2>3, OtherInv DEF storeVars
  <2> QED  BY <1>4, <2>2, <2>3 DEF Report
<1> QED  BY <1>1, <1>3, <1>4

-----------------------------------------------------------------------------
LEMMA EvidenceInit ==
  ASSUME Init
  PROVE  EvidenceInv
<1>1. OrchestratorTypes
  <2>1. /\ NoEntry \in Entry /\ FreeRequest \in Request /\ NoWaiter \in Waiter
    BY DEF NoEntry, Entry, FreeRequest, Request, NoWaiter, Waiter
  <2>2. NoLoad \in LoadThread
    BY DEF NoLoad, LoadThread
  <2> QED  BY <2>1, <2>2 DEF Init, OrchestratorTypes
<1>2. \A r \in Requests :
        /\ req[r].pc = "free" /\ load[r].pc = "none" /\ load[r].i = 1
        /\ \A w \in Nodes : waiter[r][w].pc = "none"
  BY DEF Init, FreeRequest, NoLoad, NoWaiter
<1>3. Phases /\ WaiterEvidence /\ LoadEvidence
  BY <1>2 DEF Phases, WaiterEvidence, LoadEvidence
<1>4. \A m \in Models : model_states[m].status = "none"
  BY DEF Init, NoEntry
<1>5. EntryEvidence
  BY <1>4 DEF EntryEvidence
<1>6. SlotEvidence
  BY DEF Init, SlotEvidence
<1> QED  BY <1>1, <1>3, <1>5, <1>6 DEF EvidenceInv

LEMMA EvidenceStep ==
  ASSUME EvidenceInv, [Next]_vars
  PROVE  EvidenceInv'
<1>0. available \subseteq Nodes
  BY DEF EvidenceInv, OrchestratorTypes
<1>1. ASSUME NEW r \in Requests, NEW op \in Operations, NEW m \in Models,
             Arrive(r, op, m)
      PROVE  EvidenceInv'
  BY <1>1, ArriveInv
<1>2. ASSUME NEW r \in Requests, HandlerStep(r)
      PROVE  EvidenceInv'
  BY <1>2, TakeEntryInv, CheckStateInv, UnloadInv, PlanInv, PublishInv
  DEF HandlerStep
<1>3. ASSUME NEW r \in Requests, LoadStep(r)
      PROVE  EvidenceInv'
  BY <1>3, LoadAloneInv, CreateSlotInv, DispatchShardInv, CollectFailureInv,
    WriteOutcomeInv
  DEF LoadStep
<1>4. ASSUME NEW r \in Requests, NEW w \in Nodes, WaiterStep(r, w)
      PROVE  EvidenceInv'
  BY <1>4, WaiterStartInv, WaiterPopInv DEF WaiterStep
<1>5. ASSUME NEW w \in Nodes, NEW r \in Requests, ThreadStep(w, r)
      PROVE  EvidenceInv'
  BY <1>5, ThreadStepInv
<1>6. ASSUME NEW w \in Nodes, WorkerCrash(w) \/ WorkerRestart(w)
      PROVE  EvidenceInv'
  BY <1>0, <1>6, OtherInv DEF WorkerCrash, WorkerRestart, storeVars, handlerVars
<1>7. ASSUME NEW w \in Nodes, RegistryChange(w)
      PROVE  EvidenceInv'
  BY <1>0, <1>7, OtherInv DEF RegistryChange, storeVars, handlerVars
<1>8. CASE Quiescent \/ UNCHANGED vars
  BY <1>0, <1>8, OtherInv DEF Quiescent, vars, storeVars, handlerVars
<1> QED  BY <1>1, <1>2, <1>3, <1>4, <1>5, <1>6, <1>7, <1>8 DEF Next

\* The invariant that ties slots, waiters, loads and entries to the reports
\* that were received (ResultStore.create_slot, deliver and wait;
\* PipelineRunner.load; _load).
THEOREM EvidenceKept == Spec => []EvidenceInv
<1>1. Init => EvidenceInv
  BY EvidenceInit
<1>2. EvidenceInv /\ [Next]_vars => EvidenceInv'
  BY EvidenceStep
<1> QED  BY <1>1, <1>2, PTL DEF Spec

\* No model is ready without a success report from every worker of its plan
\* since this load created its slot, whatever other loads, crashes, lost
\* reports and failed calls there are.
THEOREM ReadyOnlyOnEvidence == Spec => []ReadyHasEvidence
<1>1. EvidenceInv => ReadyHasEvidence
  BY DEF EvidenceInv, EntryEvidence, ReadyHasEvidence
<1> QED  BY <1>1, EvidenceKept, PTL
=============================================================================
