---------------------------- MODULE ModelLoading ----------------------------
(***************************************************************************)
(* Loading and redistributing models on the cluster: the HTTP handlers     *)
(* load_model and redistribute_model (orchestrator/http_api.py), the load  *)
(* thread each starts (_load, _build_session, PipelineRunner.load), the    *)
(* ResultStore slots on which it waits for the workers' reports, and the   *)
(* workers themselves (InferenceService).                                  *)
(*                                                                         *)
(* A request r is one HTTP call.  The load it may start has the same       *)
(* number, and so do its events: the slot of worker w that load r created  *)
(* holds the event <<r, w>>.  A step is one critical section, one RPC or   *)
(* one registry read; ResultStore.deliver stores and signals in one step,  *)
(* which loses nothing because load_timeout_s is None on this path.        *)
(***************************************************************************)
EXTENDS Dispatch, FiniteSets, SequencesExt

CONSTANTS Models,        \* registered model names
          LayersOf,      \* manifest.layers of each model
          NodeOrder,     \* the worker nodes, in the order they registered
          MaxRequests,   \* bound: HTTP requests made
          Client,        \* how clients pace their requests, see Arrive
          Operations,    \* subset of {"load", "redistribute"}
          Faults,        \* kinds of fault that may happen, see FaultKinds
          MaxFaults,     \* bound: faults in a behaviour
          MaxChurn,      \* bound: nodes leaving or joining the registry
          NoHandle, NoSlot

Nodes == {NodeOrder[i] : i \in DOMAIN NodeOrder}
Requests == 1..MaxRequests
NoRequest == 0

FaultKinds == {"crash", "lost_report", "rpc_error", "build_fails",
               "store_fails", "tokenizer_fails"}

ASSUME ModelsAssumption ==
  IsFiniteSet(Models) /\ LayersOf \in [Models -> Nat \ {0}]
ASSUME NodesAssumption ==
  /\ NodeOrder \in Seq(Nodes) /\ IsFiniteSet(Nodes)
  /\ \A i, j \in DOMAIN NodeOrder : NodeOrder[i] = NodeOrder[j] => i = j
  /\ NoNext \notin Nodes
ASSUME BoundsAssumption ==
  /\ MaxRequests \in Nat /\ MaxFaults \in Nat /\ MaxChurn \in Nat
  /\ Client \in {"patient", "sequential", "concurrent"}
  /\ Operations \subseteq {"load", "redistribute"}
  /\ Faults \subseteq FaultKinds

VARIABLES up, models, loading, threads,   \* the workers
          available,      \* nodes the registry lists as available
          model_states,   \* status, and the request whose load it is about
          req,            \* the HTTP handlers
          todo,           \* the sessions each still has to unload, with the
                          \* UnloadShard calls left of each
          load,           \* the _load threads
          waiter,         \* the waiting threads of each load, per worker
          slots,          \* ResultStore._slots, keyed by model and worker
          fired,          \* events that have been set
          heard,          \* history: workers that reported success since
                          \* the load created their slot
          faults, churn   \* counters of the bounds

workerVars == <<up, models, loading, threads>>
storeVars == <<slots, fired, heard>>
counters == <<faults, churn>>
handlerVars == <<req, todo>>
vars == <<workerVars, available, model_states, handlerVars, load, waiter, storeVars,
          counters>>

Shard == Assignments(Nodes)
ASSUME HandleAssumption == NoHandle \notin Shard

Sessions == Seq(Seq([model : Models, node : Nodes]) \ {<<>>})
Entry == [status : {"none", "loading", "ready", "error"},
          by : Requests \cup {NoRequest}]
Request == [pc : {"free", "take", "free_old", "check", "free_others", "plan",
                  "publish", "done"},
            op : Operations \cup {"none"}, model : Models \cup {"none"}]
LoadThread == [pc : {"none", "store", "create", "dispatch", "wait",
                     "tokenizer", "built", "failed", "done"},
               model : Models \cup {"none"}, plan : Seq(Shard), i : Nat]
Waiter == [pc : {"none", "start", "blocked", "ok", "error"},
           event : Requests \cup {NoRequest}]
Slot == [event : Requests, result : {"none", "ok", "failed"}]
ASSUME SlotAssumption == NoSlot \notin Slot

Worker == INSTANCE InferenceService
            WITH Workers <- Nodes, Calls <- Requests, Shards <- Shard

-----------------------------------------------------------------------------
NoEntry == [status |-> "none", by |-> NoRequest]
FreeRequest == [pc |-> "free", op |-> "none", model |-> "none"]
NoLoad == [pc |-> "none", model |-> "none", plan |-> <<>>, i |-> 1]
NoWaiter == [pc |-> "none", event |-> NoRequest]

Init ==
  /\ Worker!Init
  /\ available \in SUBSET Nodes
  /\ model_states = [m \in Models |-> NoEntry]
  /\ req = [r \in Requests |-> FreeRequest]
  /\ todo = [r \in Requests |-> <<>>]
  /\ load = [r \in Requests |-> NoLoad]
  /\ waiter = [r \in Requests |-> [w \in Nodes |-> NoWaiter]]
  /\ slots = [m \in Models |-> [w \in Nodes |-> NoSlot]]
  /\ fired = {}
  /\ heard = [r \in Requests |-> {}]
  /\ faults = 0
  /\ churn = 0

Fault(kind) ==
  /\ kind \in Faults /\ faults < MaxFaults
  /\ faults' = faults + 1
  /\ UNCHANGED churn

-----------------------------------------------------------------------------
(***************************************************************************)
(* The HTTP handlers.                                                      *)
(***************************************************************************)
LoadActive(r) == load[r].pc \notin {"none", "done"}
HandlerActive(r) == req[r].pc \notin {"free", "done"}

\* A client sends a request: at any time, only when no other is being
\* handled, or only when in addition no load is running.
Arrive(r, op, m) ==
  /\ req[r].pc = "free"
  /\ \A q \in 1..(r - 1) : req[q].pc # "free"
  /\ Client # "concurrent" => \A q \in Requests : ~HandlerActive(q)
  /\ Client = "patient" => \A q \in Requests : ~LoadActive(q)
  /\ req' = [req EXCEPT ![r] =
       [pc |-> IF op = "load" THEN "check" ELSE "take", op |-> op, model |-> m]]
  /\ UNCHANGED <<workerVars, available, model_states, todo, load, waiter,
                 storeVars, counters>>

\* The UnloadShard calls of PipelineRunner.unload for the session of m.
UnloadCalls(m) ==
  LET plan == load[model_states[m].by].plan
  IN  [i \in DOMAIN plan |-> [model |-> m, node |-> plan[i].node]]

\* Mutant of TakeEntry: no 409 for a model that is loading.
TakeEntry_No409(r) ==
  LET m == req[r].model
      entry == model_states[m]
  IN  /\ req[r].pc = "take"
      /\ IF entry.status = "none"
         THEN /\ req' = [req EXCEPT ![r].pc = "done"]
              /\ UNCHANGED <<model_states, todo>>
         ELSE /\ model_states' = [model_states EXCEPT ![m] = NoEntry]
              /\ req' = [req EXCEPT ![r].pc = "free_old"]
              /\ todo' = [todo EXCEPT
                   ![r] = IF entry.status = "ready" THEN <<UnloadCalls(m)>> ELSE <<>>]
      /\ UNCHANGED <<workerVars, available, load, waiter, storeVars, counters>>

\* redistribute_model under the lock: 400 if never loaded, 409 if loading,
\* otherwise the entry is removed and its session, if any, is unloaded.
TakeEntry(r) ==
  LET m == req[r].model
      entry == model_states[m]
  IN  /\ req[r].pc = "take"
      /\ IF entry.status \in {"none", "loading"}
         THEN /\ req' = [req EXCEPT ![r].pc = "done"]
              /\ UNCHANGED <<model_states, todo>>
         ELSE /\ model_states' = [model_states EXCEPT ![m] = NoEntry]
              /\ req' = [req EXCEPT ![r].pc = "free_old"]
              /\ todo' = [todo EXCEPT
                   ![r] = IF entry.status = "ready" THEN <<UnloadCalls(m)>> ELSE <<>>]
      /\ UNCHANGED <<workerVars, available, load, waiter, storeVars, counters>>

\* Mutant of CheckState: the models that are ready are left as they are.
CheckState_KeepsOthers(r) ==
  /\ req[r].pc = "check"
  /\ req' = [req EXCEPT ![r].pc =
       IF model_states[req[r].model].status \in {"loading", "ready"}
       THEN "done" ELSE "free_others"]
  /\ UNCHANGED <<workerVars, available, model_states, todo, load, waiter,
                 storeVars, counters>>

\* _ensure_loading_started under the lock: nothing to do if the model is
\* loading or ready; otherwise every other model that is ready loses its
\* entry and is to be unloaded.  One that is still loading is left alone.
CheckState(r) ==
  LET m == req[r].model
      others == {k \in Models \ {m} : model_states[k].status = "ready"}
  IN  /\ req[r].pc = "check"
      /\ IF model_states[m].status \in {"loading", "ready"}
         THEN /\ req' = [req EXCEPT ![r].pc = "done"]
              /\ UNCHANGED <<model_states, todo>>
         ELSE /\ req' = [req EXCEPT ![r].pc = "free_others"]
              /\ \E seq \in SetToSeqs(others) :
                   todo' = [todo EXCEPT
                     ![r] = [i \in DOMAIN seq |-> UnloadCalls(seq[i])]]
              /\ model_states' = [k \in Models |->
                   IF k \in others THEN NoEntry ELSE model_states[k]]
      /\ UNCHANGED <<workerVars, available, load, waiter, storeVars, counters>>

\* Mutant of AfterFirst: the rest of the session is dropped.
AfterFirst_Aborts(sessions) == Tail(sessions)

\* What is left to unload after the first call.
AfterFirst(sessions) ==
  IF Len(Head(sessions)) = 1 THEN Tail(sessions)
  ELSE [sessions EXCEPT ![1] = Tail(@)]

\* One iteration of PipelineRunner.unload.  A worker that cannot be reached
\* is skipped.
UnloadNext(r) ==
  /\ req[r].pc \in {"free_old", "free_others"} /\ todo[r] # <<>>
  /\ todo' = [todo EXCEPT ![r] = AfterFirst(@)]
  /\ LET call == Head(Head(todo[r]))
     IN  \/ /\ Worker!UnloadShard(call.node, call.model)
            /\ UNCHANGED counters
         \/ /\ ~up[call.node]
            /\ UNCHANGED <<workerVars, counters>>
         \/ /\ Fault("rpc_error")
            /\ UNCHANGED workerVars
  /\ UNCHANGED <<available, model_states, req, load, waiter, storeVars>>

\* The unloading is over: redistribute_model goes on to
\* _ensure_loading_started, and that to plan_dispatch.
Unloaded(r) ==
  /\ req[r].pc \in {"free_old", "free_others"} /\ todo[r] = <<>>
  /\ req' = [req EXCEPT
       ![r].pc = IF @ = "free_old" THEN "check" ELSE "plan"]
  /\ UNCHANGED <<workerVars, available, model_states, todo, load, waiter,
                 storeVars, counters>>

\* What list_nodes(status_filter="available") returns, as a singleton: the
\* available nodes in the order they registered.
ListAvailable ==
  {nodes \in [1..Cardinality(available) -> available] :
     \A i, j \in DOMAIN nodes : i < j =>
       \E a, b \in DOMAIN NodeOrder :
         a < b /\ NodeOrder[a] = nodes[i] /\ NodeOrder[b] = nodes[j]}

\* plan_dispatch.  DispatchError is recorded as an error without a plan.
Plan(r) ==
  LET m == req[r].model
  IN  /\ req[r].pc = "plan"
      /\ \E nodes \in ListAvailable :
           IF DispatchError(LayersOf[m], nodes)
           THEN /\ model_states' = [model_states EXCEPT
                     ![m] = [status |-> "error", by |-> NoRequest]]
                /\ req' = [req EXCEPT ![r].pc = "done"]
                /\ UNCHANGED load
           ELSE /\ req' = [req EXCEPT ![r].pc = "publish"]
                /\ load' = [load EXCEPT ![r].model = m,
                     ![r].plan = PlanDispatch(LayersOf[m], nodes)]
                /\ UNCHANGED model_states
      /\ UNCHANGED <<workerVars, available, todo, waiter, storeVars, counters>>

\* Mutant of Publish: the plan is not recorded with the loading state.
Publish_NoPlan(r) ==
  /\ req[r].pc = "publish"
  /\ model_states' = [model_states EXCEPT
       ![req[r].model] = [status |-> "loading", by |-> NoRequest]]
  /\ load' = [load EXCEPT ![r].pc = "store"]
  /\ req' = [req EXCEPT ![r].pc = "done"]
  /\ UNCHANGED <<workerVars, available, todo, waiter, storeVars, counters>>

\* Record the loading state and start the _load thread.
Publish(r) ==
  /\ req[r].pc = "publish"
  /\ model_states' = [model_states EXCEPT
       ![req[r].model] = [status |-> "loading", by |-> r]]
  /\ load' = [load EXCEPT ![r].pc = "store"]
  /\ req' = [req EXCEPT ![r].pc = "done"]
  /\ UNCHANGED <<workerVars, available, todo, waiter, storeVars, counters>>

HandlerStep(r) ==
  TakeEntry(r) \/ CheckState(r) \/ UnloadNext(r) \/ Unloaded(r) \/ Plan(r)
    \/ Publish(r)

-----------------------------------------------------------------------------
(***************************************************************************)
(* The load thread: _build_session and PipelineRunner.load.                *)
(***************************************************************************)
\* ModelStore.load reads the checkpoint's index and config.
StoreLoad(r) ==
  /\ load[r].pc = "store"
  /\ \/ load' = [load EXCEPT ![r].pc = "create"] /\ UNCHANGED counters
     \/ load' = [load EXCEPT ![r].pc = "failed"] /\ Fault("store_fails")
  /\ UNCHANGED <<workerVars, available, model_states, handlerVars, waiter, storeVars>>

Current(r) == load[r].plan[load[r].i]

\* The loops of PipelineRunner.load over the plan: on to the next assignment
\* or, after the last one, to the phase pc.
Advance(r, pc) ==
  load' = [load EXCEPT
    ![r].pc = IF load[r].i = Len(load[r].plan) THEN pc ELSE @,
    ![r].i = IF @ = Len(load[r].plan) THEN 1 ELSE @ + 1]

\* create_slot: a fresh event replaces whatever slot the key had.
CreateSlot(r) ==
  LET w == Current(r).node
  IN  /\ load[r].pc = "create"
      /\ slots' = [slots EXCEPT ![load[r].model][w] =
                     [event |-> r, result |-> "none"]]
      /\ Advance(r, "dispatch")
      /\ UNCHANGED <<workerVars, available, model_states, handlerVars, waiter, fired,
                     heard, counters>>

\* Every future is submitted once the last worker has accepted.
Dispatched(r) ==
  /\ Advance(r, "wait")
  /\ waiter' = IF load[r].i < Len(load[r].plan) THEN waiter
               ELSE [waiter EXCEPT ![r] = [w \in Nodes |->
                       IF w \in PlanNodes(load[r].plan)
                       THEN [NoWaiter EXCEPT !.pc = "start"] ELSE NoWaiter]]

DispatchFails(r) ==
  /\ load' = [load EXCEPT ![r].pc = "failed"]
  /\ UNCHANGED waiter

\* One iteration of the dispatch loop: the LoadShard call is accepted, refused,
\* or fails with an RpcError whether or not the worker handled it.  (An
\* extract_shard that raises is a call that fails before it is made.)
DispatchShard(r) ==
  LET w == Current(r).node
      m == load[r].model
      Call == Worker!LoadShard(w, r, m, Current(r))
  IN  /\ load[r].pc = "dispatch"
      /\ \/ /\ Call
            /\ IF Worker!LoadShardAccepted(w, m) THEN Dispatched(r)
               ELSE DispatchFails(r)
            /\ UNCHANGED counters
         \/ /\ ~up[w]
            /\ DispatchFails(r)
            /\ UNCHANGED <<workerVars, counters>>
         \/ /\ Fault("rpc_error")
            /\ Call \/ UNCHANGED workerVars
            /\ DispatchFails(r)
      /\ UNCHANGED <<available, model_states, handlerVars, storeVars>>

\* ResultStore.wait, first part: look the slot up and take its event.
WaiterStart(r, w) ==
  LET slot == slots[load[r].model][w]
  IN  /\ waiter[r][w].pc = "start"
      /\ waiter' = [waiter EXCEPT ![r][w] =
           IF slot = NoSlot THEN [NoWaiter EXCEPT !.pc = "error"]
           ELSE [pc |-> "blocked", event |-> slot.event]]
      /\ UNCHANGED <<workerVars, available, model_states, handlerVars, load, storeVars,
                     counters>>

\* Second part, once the event is set: pop whatever slot the key has now.
\* A missing result makes the caller's result.success raise.
WaiterPop(r, w) ==
  LET m == load[r].model
      slot == slots[m][w]
  IN  /\ waiter[r][w].pc = "blocked"
      /\ <<waiter[r][w].event, w>> \in fired
      /\ slots' = [slots EXCEPT ![m][w] = NoSlot]
      /\ waiter' = [waiter EXCEPT ![r][w] =
           [NoWaiter EXCEPT !.pc =
              IF slot # NoSlot /\ slot.result = "ok" THEN "ok" ELSE "error"]]
      /\ UNCHANGED <<workerVars, available, model_states, handlerVars, load, fired,
                     heard, counters>>

\* Some future has failed: shutdown(cancel_futures=True) cancels those not
\* yet started; the waiters already running go on unobserved.
CollectFailure(r) ==
  /\ load[r].pc = "wait"
  /\ \E w \in Nodes : waiter[r][w].pc = "error"
  /\ load' = [load EXCEPT ![r].pc = "failed"]
  /\ \E cancelled \in SUBSET {w \in Nodes : waiter[r][w].pc = "start"} :
       waiter' = [waiter EXCEPT ![r] = [w \in Nodes |->
         IF w \in cancelled THEN NoWaiter ELSE waiter[r][w]]]
  /\ UNCHANGED <<workerVars, available, model_states, handlerVars, storeVars, counters>>

\* Mutant of CollectAll: one worker is enough.
CollectAll_AnyReady(r) ==
  /\ load[r].pc = "wait"
  /\ \E w \in PlanNodes(load[r].plan) : waiter[r][w].pc = "ok"
  /\ load' = [load EXCEPT ![r].pc = "tokenizer"]
  /\ UNCHANGED <<workerVars, available, model_states, handlerVars, waiter, storeVars,
                 counters>>

\* Every future has returned a success.
CollectAll(r) ==
  /\ load[r].pc = "wait"
  /\ \A w \in PlanNodes(load[r].plan) : waiter[r][w].pc = "ok"
  /\ load' = [load EXCEPT ![r].pc = "tokenizer"]
  /\ UNCHANGED <<workerVars, available, model_states, handlerVars, waiter, storeVars,
                 counters>>

LoadTokenizer(r) ==
  /\ load[r].pc = "tokenizer"
  /\ \/ load' = [load EXCEPT ![r].pc = "built"] /\ UNCHANGED counters
     \/ load' = [load EXCEPT ![r].pc = "failed"] /\ Fault("tokenizer_fails")
  /\ UNCHANGED <<workerVars, available, model_states, handlerVars, waiter, storeVars>>

\* The end of _load: the entry is written whatever it holds by now.
WriteOutcome(r) ==
  /\ load[r].pc \in {"built", "failed"}
  /\ model_states' = [model_states EXCEPT ![load[r].model] =
       [status |-> IF load[r].pc = "built" THEN "ready" ELSE "error",
        by |-> r]]
  /\ load' = [load EXCEPT ![r].pc = "done"]
  /\ UNCHANGED <<workerVars, available, handlerVars, waiter, storeVars, counters>>

LoadStep(r) ==
  StoreLoad(r) \/ CreateSlot(r) \/ DispatchShard(r) \/ CollectFailure(r)
    \/ CollectAll(r) \/ LoadTokenizer(r) \/ WriteOutcome(r)

WaiterStep(r, w) == WaiterStart(r, w) \/ WaiterPop(r, w)

-----------------------------------------------------------------------------
(***************************************************************************)
(* The workers, and the orchestrator's ReportShardReady handler.           *)
(***************************************************************************)
BuildDone(w, t) ==
  /\ \/ Worker!BuildSucceeds(w, t) /\ UNCHANGED counters
     \/ Worker!BuildFails(w, t) /\ Fault("build_fails")
  /\ UNCHANGED <<available, model_states, handlerVars, load, waiter, storeVars>>

\* The workers whose slots load r has created, while it has use for them.
Created(r) ==
  LET done == CASE load[r].pc = "create" -> load[r].i - 1
                [] load[r].pc \in {"dispatch", "wait"} -> Len(load[r].plan)
                [] OTHER -> 0
  IN  {load[r].plan[j].node : j \in 1..done}

\* Mutant of Deliver: the event is not set.
Deliver_NoSignal(m, w, ok) ==
  IF slots[m][w] = NoSlot THEN UNCHANGED storeVars
  ELSE /\ slots' = [slots EXCEPT
            ![m][w].result = IF ok THEN "ok" ELSE "failed"]
       /\ UNCHANGED <<fired, heard>>

\* ResultStore.deliver: fill the slot and set its event, if there is a slot.
Deliver(m, w, ok) ==
  IF slots[m][w] = NoSlot THEN UNCHANGED storeVars
  ELSE /\ slots' = [slots EXCEPT
            ![m][w].result = IF ok THEN "ok" ELSE "failed"]
       /\ fired' = fired \cup {<<slots[m][w].event, w>>}
       /\ heard' = [r \in Requests |->
            IF ok /\ load[r].model = m /\ w \in Created(r)
            THEN heard[r] \cup {w} ELSE heard[r]]

\* The report reaches the orchestrator, or is lost and only logged.
Report(w, t) ==
  /\ Worker!ReportShardReady(w, t)
  /\ \/ Deliver(t.model, w, t.ok) /\ UNCHANGED counters
     \/ Fault("lost_report") /\ UNCHANGED storeVars
  /\ UNCHANGED <<available, model_states, handlerVars, load, waiter>>

ThreadStep(w, r) ==
  \E t \in threads[w] : t.call = r /\ (BuildDone(w, t) \/ Report(w, t))

WorkerCrash(w) ==
  /\ Worker!Crash(w)
  /\ Fault("crash")
  /\ UNCHANGED <<available, model_states, handlerVars, load, waiter, storeVars>>

WorkerRestart(w) ==
  /\ Worker!Restart(w)
  /\ UNCHANGED <<available, model_states, handlerVars, load, waiter, storeVars,
                 counters>>

\* The registry, without its clock: a node is reaped, or heard from (again).
RegistryChange(n) ==
  /\ churn < MaxChurn
  /\ churn' = churn + 1
  /\ \/ n \in available /\ available' = available \ {n}
     \/ n \notin available /\ up[n] /\ available' = available \cup {n}
  /\ UNCHANGED <<workerVars, model_states, handlerVars, load, waiter, storeVars, faults>>

\* Every request was made and answered, and every load has ended.
Quiescent ==
  /\ \A r \in Requests : req[r].pc = "done" /\ ~LoadActive(r)
  /\ UNCHANGED vars

Next ==
  \/ \E r \in Requests :
       \/ \E op \in Operations, m \in Models : Arrive(r, op, m)
       \/ HandlerStep(r)
       \/ LoadStep(r)
       \/ \E w \in Nodes : WaiterStep(r, w)
  \/ \E w \in Nodes :
       \/ \E r \in Requests : ThreadStep(w, r)
       \/ WorkerCrash(w)
       \/ WorkerRestart(w)
       \/ RegistryChange(w)
  \/ Quiescent

\* Every started thread runs on.  Clients, faults, restarts and the registry
\* owe nothing.
Fairness ==
  \A r \in Requests :
    /\ WF_vars(HandlerStep(r))
    /\ WF_vars(LoadStep(r))
    /\ \A w \in Nodes : WF_vars(WaiterStep(r, w)) /\ WF_vars(ThreadStep(w, r))

Spec == Init /\ [][Next]_vars /\ Fairness

-----------------------------------------------------------------------------
OrchestratorTypes ==
  /\ available \subseteq Nodes
  /\ model_states \in [Models -> Entry]
  /\ req \in [Requests -> Request]
  /\ load \in [Requests -> LoadThread]
  /\ waiter \in [Requests -> [Nodes -> Waiter]]
  /\ slots \in [Models -> [Nodes -> Slot \cup {NoSlot}]]
  /\ heard \in [Requests -> SUBSET Nodes]

\* The types of the orchestrator's state, and that an entry that is loading
\* or ready has a plan (the handlers read its length).
TypeOK ==
  /\ Worker!TypeOK
  /\ OrchestratorTypes
  /\ \A m \in Models : model_states[m].status \in {"loading", "ready"} =>
       model_states[m].by # NoRequest
  /\ todo \in [Requests -> Sessions]
  /\ fired \subseteq Requests \X Nodes
  /\ faults \in 0..MaxFaults /\ churn \in 0..MaxChurn

\* A model is ready only when every worker of its plan has reported success
\* since this very load created the worker's slot: neither a report left
\* over from before nor a slot that another load replaced or popped can make
\* a load succeed (PipelineRunner.load, ResultStore).  A report that was sent
\* for an earlier load but arrives after that counts: it does not say for
\* which load it is.
ReadyHasEvidence ==
  \A m \in Models : model_states[m].status = "ready" =>
    LET r == model_states[m].by
    IN  load[r].model = m /\ PlanNodes(load[r].plan) \subseteq heard[r]

\* model_states as the requests of InferenceRequests see it.
Lifecycle == INSTANCE ModelStates
               WITH Loads <- Requests,
                    entries <- model_states,
                    running <- {<<load[r].model, r>> : r \in {q \in Requests : LoadActive(q)}},
                    begun <- {r \in Requests : load[r].pc # "none"}

\* All the handlers, load threads and faults together change model_states only
\* as ModelStates allows: each load is recorded once when it starts and once
\* when it ends, and no entry is removed while it says loading.
ImplementsModelStates == Lifecycle!StatesSpec

\* A ready model can be run: each worker of its plan holds exactly the shard
\* the plan gives it, with the next worker of that plan.
ReadyIsResident ==
  \A m \in Models : model_states[m].status = "ready" =>
    LET plan == load[model_states[m].by].plan
    IN  \A i \in DOMAIN plan : models[plan[i].node][m] = plan[i]

\* While a load runs, its model's entry says so and is about that load.
ActiveLoadVisible ==
  \A r \in Requests : LoadActive(r) =>
    model_states[load[r].model] = [status |-> "loading", by |-> r]

\* "only one model runs on the cluster at a time" (_ensure_loading_started).
OneModelReady ==
  \A m, k \in Models :
    model_states[m].status = "ready" /\ model_states[k].status = "ready" => m = k

\* The memory of a worker never holds, or is being filled with, the shards of
\* two models: the old model's shard is gone before the next one is built.
OneModelInMemory ==
  \A w \in Nodes, m, k \in Models :
    LET Occupies(x) == Worker!Resident(w, x) \/ x \in loading[w]
    IN  Occupies(m) /\ Occupies(k) => m = k

\* When redistribute_model comes to the new dispatch, no reachable worker
\* holds a shard of the old one.
RedistributeFrees ==
  \A r \in Requests : req[r].op = "redistribute" /\ req[r].pc = "check" =>
    \A w \in Nodes : up[w] => ~Worker!Resident(w, req[r].model)

\* The layers_loaded of a success report is the number of layers the worker
\* holds for that model, as long as it holds it.
ReportedIsLoaded ==
  \A w \in Nodes : \A t \in threads[w] :
    t.phase = "report" /\ t.ok /\ Worker!Resident(w, t.model) =>
      LET held == models[w][t.model]
      IN  t.shard.layer_end - t.shard.layer_start
            = held.layer_end - held.layer_start

\* Every load ends: the model leaves the loading state for ready or error.
LoadTerminates ==
  \A r \in Requests : load[r].pc = "store" ~> load[r].pc = "done"

-----------------------------------------------------------------------------
(***************************************************************************)
(* The inductive invariant behind ReadyHasEvidence.  The difficulty is     *)
(* that a waiter pops whatever slot its key has by then, perhaps one that  *)
(* another load created: SlotEvidence says that a success found in a slot  *)
(* was heard by every load that had created a slot under that key.         *)
(***************************************************************************)
\* How far a handler and its load have come.
Phases ==
  \A r \in Requests :
    /\ req[r].pc # "free" => req[r].model \in Models
    /\ req[r].pc # "done" => load[r].pc = "none"
    /\ load[r].pc \in {"none", "store"} => load[r].i = 1
    /\ load[r].pc # "none" \/ req[r].pc = "publish" =>
         load[r].model = req[r].model /\ load[r].i \in 1..Len(load[r].plan)
    /\ \A w \in Nodes : waiter[r][w].pc # "none" =>
         /\ w \in PlanNodes(load[r].plan)
         /\ load[r].pc \in {"wait", "tokenizer", "built", "failed", "done"}

SlotEvidence ==
  \A m \in Models, w \in Nodes, r \in Requests :
    /\ slots[m][w] # NoSlot /\ slots[m][w].result = "ok"
    /\ load[r].model = m /\ w \in Created(r)
    => w \in heard[r]

WaiterEvidence ==
  \A r \in Requests, w \in Nodes :
    load[r].pc = "wait" /\ waiter[r][w].pc = "ok" => w \in heard[r]

LoadEvidence ==
  \A r \in Requests : load[r].pc \in {"tokenizer", "built"} =>
    PlanNodes(load[r].plan) \subseteq heard[r]

EntryEvidence ==
  \A m \in Models : model_states[m].status = "ready" =>
    LET r == model_states[m].by
    IN  /\ r \in Requests /\ load[r].pc # "none" /\ load[r].model = m
        /\ PlanNodes(load[r].plan) \subseteq heard[r]

EvidenceInv ==
  OrchestratorTypes /\ Phases /\ SlotEvidence /\ WaiterEvidence /\ LoadEvidence
    /\ EntryEvidence

-----------------------------------------------------------------------------
(***************************************************************************)
(* The inductive invariant behind ActiveLoadVisible and OneModelReady,     *)
(* which depend on how clients pace their requests.  A handler between its *)
(* look at model_states and the entry it writes relies on what it saw.     *)
(***************************************************************************)
Deciding(q) == req[q].pc \in {"free_others", "plan", "publish"}
NoOtherReady(m) == \A k \in Models \ {m} : model_states[k].status # "ready"

SequentialInv ==
  /\ \A q, r \in Requests : HandlerActive(q) /\ HandlerActive(r) => q = r
  /\ \A q, r \in Requests :
       Deciding(q) /\ LoadActive(r) => load[r].model # req[q].model
  /\ ActiveLoadVisible

PatientInv ==
  /\ \A q, r \in Requests :
       LoadActive(q) => ~HandlerActive(r) /\ (LoadActive(r) => q = r)
  /\ \A q \in Requests : /\ Deciding(q) => NoOtherReady(req[q].model)
                         /\ LoadActive(q) => NoOtherReady(load[q].model)
  /\ OneModelReady

PacedInv ==
  /\ Client # "concurrent" => SequentialInv
  /\ Client = "patient" => PatientInv
-----------------------------------------------------------------------------
(***************************************************************************)
(* The inductive invariant behind ReadyIsResident, RedistributeFrees,      *)
(* ReportedIsLoaded and OneModelInMemory, for paced clients and faults     *)
(* that leave no shard behind: every shard in a worker's memory, and every *)
(* thread that makes one, is accounted for by a load under way, by a ready *)
(* entry, or by a call that is still to be made to unload it.              *)
(***************************************************************************)
\* Worker w holds the shard that the plan of load r gives it.
Holds(w, r) ==
  \E j \in DOMAIN load[r].plan :
    load[r].plan[j].node = w /\ models[w][load[r].model] = load[r].plan[j]
HoldsPlan(r) == \A w \in PlanNodes(load[r].plan) : Holds(w, r)

\* The workers to which load r, while it goes on, has sent their shards.
Sent(r) ==
  LET done == CASE load[r].pc = "dispatch" -> load[r].i - 1
                [] load[r].pc \in {"wait", "tokenizer", "built"} -> Len(load[r].plan)
                [] OTHER -> 0
  IN  {load[r].plan[j].node : j \in 1..done}

\* UnloadShard of m on w is still to be called.
CallsOf(sessions) ==
  UNION {{sessions[i][j] : j \in DOMAIN sessions[i]} : i \in DOMAIN sessions}
Pending(w, m) ==
  \E q \in Requests : [model |-> m, node |-> w] \in CallsOf(todo[q])

OnePerNode ==
  \A r \in Requests : \A i, j \in DOMAIN load[r].plan :
    load[r].plan[i].node = load[r].plan[j].node => i = j

\* A background thread works for a load that waits for its report, on the
\* shard which that load's plan gives its worker.
ThreadRight(w, t) ==
  /\ t.ok /\ load[t.call].pc \in {"dispatch", "wait"}
  /\ t.model = load[t.call].model /\ w \in Sent(t.call)
  /\ \E j \in DOMAIN load[t.call].plan :
       load[t.call].plan[j].node = w /\ t.shard = load[t.call].plan[j]
  /\ slots[t.model][w] = [event |-> t.call, result |-> "none"]
  /\ waiter[t.call][w].pc # "ok"
  /\ t.phase = "report" => models[w][t.model] = t.shard

\* A slot of a load under way is its own until its waiter takes it, and what
\* is delivered there is true.
SlotRight(r, w) ==
  LET slot == slots[load[r].model][w]
  IN  w \in Created(r) /\ waiter[r][w].pc # "ok" =>
        /\ slot # NoSlot /\ slot.event = r
        /\ <<r, w>> \in fired => slot.result # "none"
        /\ slot.result # "none" => slot.result = "ok" /\ Holds(w, r)

WaiterRight(r, w) ==
  /\ waiter[r][w].pc # "error"
  /\ waiter[r][w].pc \in {"start", "blocked"} => load[r].pc = "wait"
  /\ waiter[r][w].pc = "blocked" => waiter[r][w].event = r
  /\ waiter[r][w].pc = "ok" /\ load[r].pc = "wait" => Holds(w, r)
  /\ <<r, w>> \in fired => load[r].pc \notin {"none", "store", "create"}

LoadsRight ==
  /\ \A w \in Nodes : up[w] /\ \A t \in threads[w] : ThreadRight(w, t)
  /\ \A r \in Requests, w \in Nodes : SlotRight(r, w) /\ WaiterRight(r, w)
  /\ \A r \in Requests : load[r].pc \in {"tokenizer", "built"} => HoldsPlan(r)
  /\ OnePerNode

\* Nothing is in memory without a reason.
Accounted(w, m) ==
  Worker!Resident(w, m) =>
    \/ \E r \in Requests : load[r].model = m /\ w \in Sent(r)
    \/ /\ model_states[m].status = "ready"
       /\ w \in PlanNodes(load[model_states[m].by].plan)
    \/ Pending(w, m)

\* A handler takes an entry away before it unloads the session, and has
\* nothing left to unload when it goes on.
HandlerRight(q) ==
  /\ todo[q] # <<>> => req[q].pc \in {"free_old", "free_others"}
  /\ \A c \in CallsOf(todo[q]) : model_states[c.model].status = "none"
  /\ req[q].op = "redistribute" /\ req[q].pc \in {"free_old", "check"} =>
       model_states[req[q].model].status = "none"
  /\ Deciding(q) => model_states[req[q].model].status \notin {"loading", "ready"}

TablesRight ==
  /\ \A w \in Nodes, m \in Models : Accounted(w, m)
  /\ \A m \in Models : model_states[m].status = "ready" => HoldsPlan(model_states[m].by)
  /\ \A q \in Requests : HandlerRight(q)

\* Every thread of a worker serves a load under way, and every shard in memory
\* is there for a load, a ready entry or an UnloadShard call still to be made
\* (PipelineRunner.load and unload, ResultStore, _load_shard_background).
MemoryInv == LoadsRight /\ TablesRight

\* With a patient client, what is being unloaded is all there is.
OneUnloading ==
  \A w, v \in Nodes, m, k \in Models :
    Pending(w, m) =>
      model_states[k].status # "ready" /\ (Pending(v, k) => m = k)
=============================================================================
