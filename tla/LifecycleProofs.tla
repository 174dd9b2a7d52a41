--------------------------- MODULE LifecycleProofs ---------------------------
(***************************************************************************)
(* ModelLoading implements ModelStates, for any models, nodes, requests    *)
(* and faults; what paced clients may rely on; the workers' tables under   *)
(* the orchestrator; and what is in the workers' memory.                   *)
(***************************************************************************)
EXTENDS ModelLoadingProofs, FiniteSetTheorems

Running == {<<load[r].model, r>> : r \in {q \in Requests : LoadActive(q)}}
Begun == {r \in Requests : load[r].pc # "none"}

\* A step that writes no entry and neither starts nor ends a load.
LEMMA SameLifecycle ==
  ASSUME UNCHANGED model_states,
         \A q \in Requests :
           /\ LoadActive(q)' <=> LoadActive(q)
           /\ LoadActive(q) => load'[q].model = load[q].model
           /\ load'[q].pc = "none" <=> load[q].pc = "none"
  PROVE  UNCHANGED Lifecycle!stateVars
<1>1. Begun' = Begun
  BY DEF Begun
<1>2. Running' = Running
  <2>1. \A q \in Requests : LoadActive(q)' => <<load'[q].model, q>> \in Running
    BY DEF Running
  <2>2. \A q \in Requests : LoadActive(q) => <<load[q].model, q>> \in Running'
    BY DEF Running
  <2>3. Running' \subseteq Running
    BY <2>1 DEF Running
  <2>4. Running \subseteq Running'
    BY <2>2 DEF Running
  <2> QED  BY <2>3, <2>4
<1> QED  BY <1>1, <1>2 DEF Lifecycle!stateVars, Running, Begun

\* A step that leaves every load alone leaves the loads of the abstraction.
LEMMA SameLoads ==
  ASSUME UNCHANGED load
  PROVE  Running' = Running /\ Begun' = Begun
BY DEF Running, Begun, LoadActive

\* A load goes from one phase to another and does not end.
LEMMA LoadGoes ==
  ASSUME EvidenceInv, UNCHANGED model_states, NEW r \in Requests,
         load[r].pc \notin {"none", "done"},
         load'[r].pc \notin {"none", "done"}, load'[r].model = load[r].model,
         \A q \in Requests \ {r} : load'[q] = load[q]
  PROVE  UNCHANGED Lifecycle!stateVars
BY SameLifecycle DEF LoadActive

LEMMA LoadStays ==
  ASSUME UNCHANGED <<model_states, load>>
  PROVE  UNCHANGED Lifecycle!stateVars
BY SameLifecycle DEF LoadActive

LEMMA TakeEntryStates ==
  ASSUME EvidenceInv, NEW r \in Requests, TakeEntry(r)
  PROVE  Lifecycle!StatesNext \/ UNCHANGED Lifecycle!stateVars
<1> DEFINE m == req[r].model
<1>0. /\ req[r].pc = "take" /\ UNCHANGED load /\ m \in Models
      /\ model_states \in [Models -> Entry]
  BY DEF TakeEntry, EvidenceInv, Phases, OrchestratorTypes
<1>1. CASE model_states[m].status \in {"none", "loading"}
  BY <1>0, <1>1, LoadStays DEF TakeEntry
<1>2. CASE model_states[m].status \notin {"none", "loading"}
  <2>1. model_states' = [model_states EXCEPT ![m] = NoEntry]
    BY <1>2 DEF TakeEntry
  <2>2. model_states[m].status \in Lifecycle!Removable
    BY <1>0, <1>2 DEF Entry, Lifecycle!Removable
  <2>3. model_states' = [k \in Models |-> IF k \in {m} THEN Lifecycle!NoEntry
                                          ELSE model_states[k]]
    BY <1>0, <2>1 DEF NoEntry, Lifecycle!NoEntry, Lifecycle!NoLoad, NoRequest
  <2>4. Lifecycle!RemoveEntries({m})
    BY <1>0, <2>2, <2>3, SameLoads DEF Lifecycle!RemoveEntries, Running, Begun
  <2> QED  BY <1>0, <2>4 DEF Lifecycle!StatesNext
<1> QED  BY <1>1, <1>2

LEMMA CheckStateStates ==
  ASSUME EvidenceInv, NEW r \in Requests, CheckState(r)
  PROVE  Lifecycle!StatesNext \/ UNCHANGED Lifecycle!stateVars
<1> DEFINE others == {k \in Models \ {req[r].model} : model_states[k].status = "ready"}
<1>0. UNCHANGED load
  BY DEF CheckState
<1>1. CASE model_states[req[r].model].status \in {"loading", "ready"}
  BY <1>0, <1>1, LoadStays DEF CheckState
<1>2. CASE model_states[req[r].model].status \notin {"loading", "ready"}
  <2>1. model_states' = [k \in Models |->
          IF k \in others THEN Lifecycle!NoEntry ELSE model_states[k]]
    BY <1>2 DEF CheckState, NoEntry, Lifecycle!NoEntry, Lifecycle!NoLoad, NoRequest
  <2>2. \A k \in others : model_states[k].status \in Lifecycle!Removable
    BY DEF Lifecycle!Removable
  <2>3. others \in SUBSET Models
    OBVIOUS
  <2> HIDE DEF others
  <2>4. Lifecycle!RemoveEntries(others)
    BY <1>0, <2>1, <2>2, SameLoads DEF Lifecycle!RemoveEntries, Running, Begun
  <2> QED  BY <2>3, <2>4 DEF Lifecycle!StatesNext
<1> QED  BY <1>1, <1>2

LEMMA PlanStates ==
  ASSUME EvidenceInv, NEW r \in Requests, Plan(r)
  PROVE  Lifecycle!StatesNext \/ UNCHANGED Lifecycle!stateVars
<1> DEFINE m == req[r].model
<1>0. /\ req[r].pc = "plan" /\ load[r].pc = "none" /\ m \in Models
      /\ load \in [Requests -> LoadThread]
  BY DEF Plan, EvidenceInv, Phases, OrchestratorTypes
<1>1. CASE /\ model_states' = [model_states EXCEPT
                  ![m] = [status |-> "error", by |-> NoRequest]]
           /\ UNCHANGED load
  <2>1. Lifecycle!RefuseLoad(m)
    BY <1>1, SameLoads DEF Lifecycle!RefuseLoad, Lifecycle!NoLoad, NoRequest, Running, Begun
  <2> QED  BY <1>0, <2>1 DEF Lifecycle!StatesNext
<1>2. CASE /\ UNCHANGED model_states
           /\ \E plan : load' = [load EXCEPT ![r].model = m, ![r].plan = plan]
  <2>1. PICK plan : load' = [load EXCEPT ![r].model = m, ![r].plan = plan]
    BY <1>2
  <2>2. /\ load'[r].pc = "none" /\ \A q \in Requests \ {r} : load'[q] = load[q]
    BY <1>0, <2>1 DEF LoadThread
  <2> QED  BY <1>0, <1>2, <2>2, SameLifecycle DEF LoadActive
<1> QED  BY <1>1, <1>2 DEF Plan

LEMMA PublishStates ==
  ASSUME EvidenceInv, NEW r \in Requests, Publish(r)
  PROVE  Lifecycle!StatesNext
<1> DEFINE m == req[r].model
<1>0. /\ req[r].pc = "publish" /\ load[r].pc = "none" /\ m \in Models
      /\ load[r].model = m /\ load \in [Requests -> LoadThread]
  BY DEF Publish, EvidenceInv, Phases, OrchestratorTypes
<1>1. /\ model_states' = [model_states EXCEPT ![m] = [status |-> "loading", by |-> r]]
      /\ load' = [load EXCEPT ![r].pc = "store"]
  BY DEF Publish
<1>2. /\ load'[r].pc = "store" /\ load'[r].model = m
      /\ \A q \in Requests \ {r} : load'[q] = load[q]
  BY <1>0, <1>1 DEF LoadThread
<1>3. LoadActive(r)' /\ ~LoadActive(r)
      /\ \A q \in Requests \ {r} : LoadActive(q)' <=> LoadActive(q)
  BY <1>0, <1>2 DEF LoadActive
<1>4. Begun' = Begun \cup {r} /\ r \notin Begun
  BY <1>0, <1>2 DEF Begun
<1>5. Running' = Running \cup {<<m, r>>}
  <2>1. \A q \in Requests : LoadActive(q)' =>
          <<load'[q].model, q>> \in Running \cup {<<m, r>>}
    BY <1>2, <1>3 DEF Running
  <2>2. \A q \in Requests : LoadActive(q) => <<load[q].model, q>> \in Running'
    BY <1>2, <1>3 DEF Running
  <2>3. <<m, r>> \in Running'
    BY <1>2, <1>3 DEF Running
  <2>4. Running' \subseteq Running \cup {<<m, r>>}
    BY <2>1 DEF Running
  <2>5. Running \subseteq Running'
    BY <2>2 DEF Running
  <2> QED  BY <2>3, <2>4, <2>5
<1>6. Lifecycle!StartLoad(m, r)
  BY <1>1, <1>4, <1>5 DEF Lifecycle!StartLoad, Running, Begun
<1> QED  BY <1>0, <1>6 DEF Lifecycle!StatesNext

LEMMA WriteOutcomeStates ==
  ASSUME EvidenceInv, NEW r \in Requests, WriteOutcome(r)
  PROVE  Lifecycle!StatesNext
<1>0. /\ load[r].pc \in {"built", "failed"} /\ load[r].model \in Models
      /\ load \in [Requests -> LoadThread]
  BY DEF WriteOutcome, EvidenceInv, Phases, OrchestratorTypes
<1>a. PICK m \in Models : m = load[r].model
  BY <1>0
<1>b. PICK outcome \in Lifecycle!Removable :
        outcome = IF load[r].pc = "built" THEN "ready" ELSE "error"
  BY DEF Lifecycle!Removable
<1>1. /\ model_states' = [model_states EXCEPT ![m] = [status |-> outcome, by |-> r]]
      /\ load' = [load EXCEPT ![r].pc = "done"]
  BY <1>a, <1>b DEF WriteOutcome
<1>2. /\ load'[r].pc = "done" /\ \A q \in Requests \ {r} : load'[q] = load[q]
  BY <1>0, <1>1 DEF LoadThread
<1>3. LoadActive(r) /\ ~LoadActive(r)'
      /\ \A q \in Requests \ {r} : LoadActive(q)' <=> LoadActive(q)
  BY <1>0, <1>2 DEF LoadActive
<1>4. Begun' = Begun
  BY <1>0, <1>2 DEF Begun
<1>5. /\ Running' = Running \ {<<m, r>>} /\ <<m, r>> \in Running
  <2>1. \A q \in Requests : LoadActive(q)' =>
          q # r /\ <<load'[q].model, q>> \in Running
    BY <1>2, <1>3 DEF Running
  <2>2. \A q \in Requests : LoadActive(q) =>
          q = r \/ <<load[q].model, q>> \in Running'
    BY <1>2, <1>3 DEF Running
  <2>3. <<m, r>> \in Running
    BY <1>a, <1>3 DEF Running
  <2>4. Running' \subseteq Running \ {<<m, r>>}
    BY <2>1 DEF Running
  <2>5. Running \ {<<m, r>>} \subseteq Running'
    BY <1>a, <2>2 DEF Running
  <2> QED  BY <2>3, <2>4, <2>5
<1>6. Lifecycle!FinishLoad(m, r, outcome)
  BY <1>1, <1>4, <1>5 DEF Lifecycle!FinishLoad, Running, Begun
<1> QED  BY <1>6 DEF Lifecycle!StatesNext

\* The other steps of a load thread.
LEMMA LoadStepStates ==
  ASSUME EvidenceInv, NEW r \in Requests, LoadStep(r)
  PROVE  Lifecycle!StatesNext \/ UNCHANGED Lifecycle!stateVars
<1>0. load \in [Requests -> LoadThread]
  BY DEF EvidenceInv, OrchestratorTypes
<1>1. CASE WriteOutcome(r)
  BY <1>1, WriteOutcomeStates
<1>2. CASE StoreLoad(r) \/ CollectFailure(r) \/ CollectAll(r) \/ LoadTokenizer(r)
  <2>1. PICK p \in {"create", "failed", "tokenizer", "built"} :
          load' = [load EXCEPT ![r].pc = p]
    BY <1>2 DEF StoreLoad, CollectFailure, CollectAll, LoadTokenizer
  <2>2. load[r].pc \in {"store", "wait", "tokenizer"} /\ UNCHANGED model_states
    BY <1>2 DEF StoreLoad, CollectFailure, CollectAll, LoadTokenizer
  <2>3. /\ load'[r].pc = p /\ load'[r].model = load[r].model
        /\ \A q \in Requests \ {r} : load'[q] = load[q]
    BY <1>0, <2>1 DEF LoadThread
  <2> QED  BY <2>2, <2>3, LoadGoes
<1>3. CASE CreateSlot(r) \/ DispatchShard(r)
  <2>1. /\ load[r].pc \in {"create", "dispatch"} /\ UNCHANGED model_states
        /\ \/ load' = [load EXCEPT ![r].pc = "failed"]
           \/ Advance(r, "dispatch") \/ Advance(r, "wait")
    BY <1>3 DEF CreateSlot, DispatchShard, DispatchFails, Dispatched
  <2>2. /\ load'[r].pc \in {"create", "dispatch", "wait", "failed"}
        /\ load'[r].model = load[r].model
        /\ \A q \in Requests \ {r} : load'[q] = load[q]
    BY <1>0, <2>1 DEF LoadThread, Advance
  <2> QED  BY <2>1, <2>2, LoadGoes
<1> QED  BY <1>1, <1>2, <1>3 DEF LoadStep

LEMMA LifecycleStep ==
  ASSUME EvidenceInv, [Next]_vars
  PROVE  [Lifecycle!StatesNext]_(Lifecycle!stateVars)
<1>1. CASE UNCHANGED vars
  BY <1>1, LoadStays DEF vars
<1>2. ASSUME NEW r \in Requests, LoadStep(r)
      PROVE  [Lifecycle!StatesNext]_(Lifecycle!stateVars)
  BY <1>2, LoadStepStates
<1>3. ASSUME NEW r \in Requests, HandlerStep(r)
      PROVE  [Lifecycle!StatesNext]_(Lifecycle!stateVars)
  <2>1. CASE UnloadNext(r) \/ Unloaded(r)
    BY <2>1, LoadStays DEF UnloadNext, Unloaded
  <2> QED  BY <1>3, <2>1, TakeEntryStates, CheckStateStates, PlanStates, PublishStates
           DEF HandlerStep
<1>4. ASSUME NEW r \in Requests, NEW op \in Operations, NEW m \in Models, Arrive(r, op, m)
      PROVE  [Lifecycle!StatesNext]_(Lifecycle!stateVars)
  BY <1>4, LoadStays DEF Arrive
<1>5. ASSUME NEW r \in Requests, NEW w \in Nodes, WaiterStep(r, w)
      PROVE  [Lifecycle!StatesNext]_(Lifecycle!stateVars)
  BY <1>5, LoadStays DEF WaiterStep, WaiterStart, WaiterPop
<1>6. ASSUME NEW r \in Requests, NEW w \in Nodes, ThreadStep(w, r)
      PROVE  [Lifecycle!StatesNext]_(Lifecycle!stateVars)
  BY <1>6, LoadStays DEF ThreadStep, BuildDone, Report
<1>7. ASSUME NEW w \in Nodes, WorkerCrash(w) \/ WorkerRestart(w) \/ RegistryChange(w)
      PROVE  [Lifecycle!StatesNext]_(Lifecycle!stateVars)
  BY <1>7, LoadStays DEF WorkerCrash, WorkerRestart, RegistryChange
<1> QED  BY <1>1, <1>2, <1>3, <1>4, <1>5, <1>6, <1>7 DEF Next, Quiescent

\* Handlers, load threads, faults and the registry, however they interleave,
\* change model_states only as ModelStates says: what the requests of
\* InferenceRequests build on holds of the detailed model of the orchestrator
\* (_ensure_loading_started, _load, redistribute_model).
THEOREM LifecycleImplemented == Spec => ImplementsModelStates
<1>1. Init => Lifecycle!StatesInit
  BY DEF Init, NoLoad, NoEntry, LoadActive, NoRequest, Lifecycle!StatesInit,
         Lifecycle!NoEntry, Lifecycle!NoLoad
<1>2. EvidenceInv /\ [Next]_vars => [Lifecycle!StatesNext]_(Lifecycle!stateVars)
  BY LifecycleStep
<1> QED  BY <1>1, <1>2, EvidenceKept, PTL DEF Spec, ImplementsModelStates, Lifecycle!StatesSpec

-----------------------------------------------------------------------------
(***************************************************************************)
(* Clients that pace their requests.                                       *)
(***************************************************************************)
\* What the steps below need of the types and phases.
LEMMA PacedFacts ==
  ASSUME EvidenceInv
  PROVE  /\ req \in [Requests -> Request] /\ load \in [Requests -> LoadThread]
         /\ model_states \in [Models -> Entry]
         /\ \A r \in Requests :
              /\ req[r].pc # "free" => req[r].model \in Models
              /\ req[r].pc # "done" => load[r].pc = "none"
              /\ load[r].pc # "none" => load[r].model = req[r].model
              /\ req[r].pc = "publish" => load[r].model = req[r].model
              /\ LoadActive(r) => load[r].model \in Models
<1>1. OrchestratorTypes /\ Phases
  BY DEF EvidenceInv
<1>2. \A r \in Requests : LoadActive(r) => req[r].pc = "done" /\ load[r].pc # "none"
  BY <1>1 DEF LoadActive, Phases
<1> QED  BY <1>1, <1>2 DEF OrchestratorTypes, Phases

\* Steps that write no entry and start neither a handler nor a load.
LEMMA PacedFrame ==
  ASSUME PacedInv, UNCHANGED <<model_states, req>>,
         \A q \in Requests : LoadActive(q)' =>
           LoadActive(q) /\ load'[q].model = load[q].model
  PROVE  PacedInv'
<1>1. \A q \in Requests : /\ HandlerActive(q)' <=> HandlerActive(q)
                          /\ Deciding(q)' <=> Deciding(q)
                          /\ req'[q] = req[q]
  BY DEF HandlerActive, Deciding
<1>2. SequentialInv => SequentialInv'
  BY <1>1 DEF SequentialInv, ActiveLoadVisible
<1>3. PatientInv => PatientInv'
  BY <1>1 DEF PatientInv, NoOtherReady, OneModelReady
<1> QED  BY <1>2, <1>3 DEF PacedInv

LEMMA PacedArrive ==
  ASSUME EvidenceInv, PacedInv, NEW r \in Requests, NEW op \in Operations,
         NEW m \in Models, Arrive(r, op, m)
  PROVE  PacedInv'
<1>1. /\ UNCHANGED <<model_states, load>>
      /\ req'[r].pc \in {"check", "take"}
      /\ \A q \in Requests \ {r} : req'[q] = req[q]
      /\ Client # "concurrent" => \A q \in Requests : ~HandlerActive(q)
      /\ Client = "patient" => \A q \in Requests : ~LoadActive(q)
  BY PacedFacts DEF Arrive
<1>2. /\ ~Deciding(r)'
      /\ \A q \in Requests : LoadActive(q)' <=> LoadActive(q)
      /\ \A q \in Requests \ {r} : /\ HandlerActive(q)' <=> HandlerActive(q)
                                   /\ Deciding(q)' <=> Deciding(q)
  BY <1>1 DEF HandlerActive, Deciding, LoadActive
<1>3. Client # "concurrent" => SequentialInv'
  BY <1>1, <1>2 DEF PacedInv, SequentialInv, ActiveLoadVisible
<1>4. Client = "patient" => PatientInv'
  BY <1>1, <1>2 DEF PacedInv, PatientInv, NoOtherReady, OneModelReady
<1> QED  BY <1>3, <1>4 DEF PacedInv

\* A handler stops, or goes on without having decided anything yet.
LEMMA PacedHandler ==
  ASSUME EvidenceInv, PacedInv, NEW r \in Requests, HandlerActive(r),
         UNCHANGED load,
         \A q \in Requests \ {r} : req'[q] = req[q],
         req'[r].model = req[r].model,
         Deciding(r)' =>
           \/ Deciding(r)
           \/ /\ model_states[req[r].model].status \notin {"loading", "ready"}
              /\ NoOtherReady(req[r].model)',
         model_states' \in [Models -> Entry],
         \A k \in Models : \/ model_states'[k] = model_states[k]
                           \/ /\ model_states'[k].status # "ready"
                              /\ model_states[k].status # "loading"
                           \/ /\ model_states'[k].status # "ready"
                              /\ k = req[r].model /\ Deciding(r)
  PROVE  PacedInv'
<1>0. \A q \in Requests : LoadActive(q) => load[q].model \in Models
  BY PacedFacts
<1>1. /\ \A q \in Requests : LoadActive(q)' <=> LoadActive(q)
      /\ \A q \in Requests \ {r} : /\ HandlerActive(q)' <=> HandlerActive(q)
                                   /\ Deciding(q)' <=> Deciding(q)
      /\ \A q \in Requests : Deciding(q) => HandlerActive(q)
      /\ load' = load /\ \A q \in Requests : req'[q].model = req[q].model
  BY DEF HandlerActive, Deciding, LoadActive
<1>2. ASSUME SequentialInv PROVE SequentialInv'
  <2>1. \A q, p \in Requests : HandlerActive(q)' /\ HandlerActive(p)' => q = p
    BY <1>1, <1>2 DEF SequentialInv
  <2>2. \A q, p \in Requests :
          Deciding(q)' /\ LoadActive(p)' => load'[p].model # req'[q].model
    <3>1. ASSUME NEW p \in Requests, LoadActive(p)
          PROVE  model_states[load[p].model].status = "loading"
      <4>1. model_states[load[p].model] = [status |-> "loading", by |-> p]
        BY <1>2, <3>1 DEF SequentialInv, ActiveLoadVisible
      <4> QED  BY <4>1
    <3> QED  BY <1>1, <1>2, <3>1 DEF SequentialInv
  <2>3. \A p \in Requests : LoadActive(p)' =>
          model_states'[load'[p].model] = [status |-> "loading", by |-> p]
    <3> SUFFICES ASSUME NEW p \in Requests, LoadActive(p)
                 PROVE  model_states'[load[p].model] = [status |-> "loading", by |-> p]
      BY <1>1
    <3>1. model_states[load[p].model] = [status |-> "loading", by |-> p]
      BY <1>2 DEF SequentialInv, ActiveLoadVisible
    <3>2. Deciding(r) => load[p].model # req[r].model
      BY <1>2 DEF SequentialInv
    <3> QED  BY <1>0, <3>1, <3>2
  <2> QED  BY <2>1, <2>2, <2>3 DEF SequentialInv, ActiveLoadVisible
<1>3. ASSUME PatientInv PROVE PatientInv'
  <2>1. \A q, p \in Requests :
          LoadActive(q)' => ~HandlerActive(p)' /\ (LoadActive(p)' => q = p)
    BY <1>1, <1>3 DEF PatientInv
  <2>2. \A q \in Requests : ~LoadActive(q)'
    BY <1>1, <1>3 DEF PatientInv
  <2>3. OneModelReady'
    BY <1>3 DEF PatientInv, OneModelReady
  <2>4. \A q \in Requests : Deciding(q)' =>
          \A k \in Models \ {req'[q].model} : model_states'[k].status # "ready"
    <3> SUFFICES ASSUME NEW q \in Requests, Deciding(q)',
                        NEW k \in Models \ {req'[q].model}
                 PROVE  model_states'[k].status # "ready"
      OBVIOUS
    <3> QED  BY <1>1, <1>3 DEF PatientInv, NoOtherReady
  <2> QED  BY <2>1, <2>2, <2>3, <2>4 DEF PatientInv, NoOtherReady
<1> QED  BY <1>2, <1>3 DEF PacedInv

LEMMA PacedTakeEntry ==
  ASSUME EvidenceInv, PacedInv, NEW r \in Requests, TakeEntry(r)
  PROVE  PacedInv'
<1> DEFINE m == req[r].model
<1>1. /\ req \in [Requests -> Request] /\ model_states \in [Models -> Entry]
      /\ req[r].pc = "take" /\ m \in Models /\ UNCHANGED load
      /\ NoEntry \in Entry /\ NoEntry.status = "none"
  BY PacedFacts, EntryTypes DEF TakeEntry, NoEntry
<1>2. PICK p \in {"done", "free_old"} : req' = [req EXCEPT ![r].pc = p]
  BY DEF TakeEntry
<1>3. /\ \A q \in Requests \ {r} : req'[q] = req[q]
      /\ req'[r].model = m /\ req'[r].pc = p
  BY <1>1, <1>2 DEF Request
<1>4. HandlerActive(r) /\ ~Deciding(r)'
  BY <1>1, <1>3 DEF HandlerActive, Deciding
<1>5. \/ model_states' = model_states
      \/ /\ model_states' = [model_states EXCEPT ![m] = NoEntry]
         /\ model_states[m].status \notin {"none", "loading"}
  BY DEF TakeEntry
<1>6. /\ model_states' \in [Models -> Entry]
      /\ \A k \in Models : \/ model_states'[k] = model_states[k]
                           \/ /\ model_states'[k].status # "ready"
                              /\ model_states[k].status # "loading"
  BY <1>1, <1>5
<1> QED  BY <1>1, <1>3, <1>4, <1>6, PacedHandler

LEMMA PacedCheckState ==
  ASSUME EvidenceInv, PacedInv, NEW r \in Requests, CheckState(r)
  PROVE  PacedInv'
<1> DEFINE m == req[r].model
           others == {k \in Models \ {m} : model_states[k].status = "ready"}
<1>1. /\ req \in [Requests -> Request] /\ model_states \in [Models -> Entry]
      /\ req[r].pc = "check" /\ m \in Models /\ UNCHANGED load
      /\ NoEntry \in Entry /\ NoEntry.status = "none"
  BY PacedFacts, EntryTypes DEF CheckState, NoEntry
<1>2. HandlerActive(r)
  BY <1>1 DEF HandlerActive
<1>3. CASE model_states[m].status \in {"loading", "ready"}
  <2>1. req' = [req EXCEPT ![r].pc = "done"] /\ model_states' = model_states
    BY <1>3 DEF CheckState
  <2>2. /\ \A q \in Requests \ {r} : req'[q] = req[q]
        /\ req'[r].model = m /\ req'[r].pc = "done"
    BY <1>1, <2>1 DEF Request
  <2>3. ~Deciding(r)'
    BY <2>2 DEF Deciding
  <2> QED  BY <1>1, <1>2, <2>1, <2>2, <2>3, PacedHandler
<1>4. CASE model_states[m].status \notin {"loading", "ready"}
  <2>1. /\ req' = [req EXCEPT ![r].pc = "free_others"]
        /\ model_states' = [k \in Models |->
             IF k \in others THEN NoEntry ELSE model_states[k]]
    BY <1>4 DEF CheckState
  <2>2. /\ \A q \in Requests \ {r} : req'[q] = req[q]
        /\ req'[r].model = m /\ req'[r].pc = "free_others"
    BY <1>1, <2>1 DEF Request
  <2>3. /\ model_states' \in [Models -> Entry]
        /\ \A k \in Models : \/ model_states'[k] = model_states[k]
                             \/ /\ model_states'[k].status # "ready"
                                /\ model_states[k].status # "loading"
    BY <1>1, <2>1
  <2>4. \A k \in Models \ {m} : model_states'[k].status # "ready"
    BY <1>1, <2>1
  <2>5. NoOtherReady(req[r].model)'
    BY <2>2, <2>4 DEF NoOtherReady
  <2> QED  BY <1>1, <1>2, <1>4, <2>2, <2>3, <2>5, PacedHandler
<1> QED  BY <1>3, <1>4

LEMMA PacedUnload ==
  ASSUME EvidenceInv, PacedInv, NEW r \in Requests, UnloadNext(r) \/ Unloaded(r)
  PROVE  PacedInv'
<1>1. /\ req \in [Requests -> Request] /\ model_states \in [Models -> Entry]
      /\ UNCHANGED <<load, model_states>>
      /\ req[r].pc \in {"free_old", "free_others"}
  BY PacedFacts DEF UnloadNext, Unloaded
<1>2. /\ \A q \in Requests \ {r} : req'[q] = req[q]
      /\ req'[r].model = req[r].model
      /\ req'[r].pc \in {req[r].pc, IF req[r].pc = "free_old" THEN "check" ELSE "plan"}
  BY <1>1 DEF UnloadNext, Unloaded, Request
<1>3. HandlerActive(r) /\ (Deciding(r)' => Deciding(r))
  BY <1>1, <1>2 DEF HandlerActive, Deciding
<1> QED  BY <1>1, <1>2, <1>3, PacedHandler

LEMMA PacedPlan ==
  ASSUME EvidenceInv, PacedInv, NEW r \in Requests, Plan(r)
  PROVE  PacedInv'
<1> DEFINE m == req[r].model
<1>1. /\ req \in [Requests -> Request] /\ model_states \in [Models -> Entry]
      /\ load \in [Requests -> LoadThread] /\ load[r].pc = "none"
      /\ req[r].pc = "plan" /\ m \in Models
      /\ [status |-> "error", by |-> NoRequest] \in Entry
  BY PacedFacts DEF Plan, Entry
<1>2. HandlerActive(r) /\ Deciding(r)
  BY <1>1 DEF HandlerActive, Deciding
<1>3. CASE /\ model_states' = [model_states EXCEPT
                  ![m] = [status |-> "error", by |-> NoRequest]]
           /\ req' = [req EXCEPT ![r].pc = "done"]
           /\ UNCHANGED load
  <2>1. /\ \A q \in Requests \ {r} : req'[q] = req[q]
        /\ req'[r].model = m /\ req'[r].pc = "done"
    BY <1>1, <1>3 DEF Request
  <2>2. /\ model_states' \in [Models -> Entry]
        /\ \A k \in Models : \/ model_states'[k] = model_states[k]
                             \/ model_states'[k].status # "ready" /\ k = m
    BY <1>1, <1>3
  <2> QED  BY <1>1, <1>2, <1>3, <2>1, <2>2, PacedHandler
<1>4. CASE /\ UNCHANGED model_states
           /\ req' = [req EXCEPT ![r].pc = "publish"]
           /\ \E plan : load' = [load EXCEPT ![r].model = m, ![r].plan = plan]
  <2>1. PICK plan : load' = [load EXCEPT ![r].model = m, ![r].plan = plan]
    BY <1>4
  <2>2. /\ load'[r].pc = "none" /\ \A q \in Requests \ {r} : load'[q] = load[q]
    BY <1>1, <2>1 DEF LoadThread
  <2>3. /\ \A q \in Requests \ {r} : req'[q] = req[q]
        /\ req'[r].model = m /\ req'[r].pc = "publish"
    BY <1>1, <1>4 DEF Request
  <2>4. /\ \A q \in Requests : /\ LoadActive(q)' <=> LoadActive(q)
                               /\ HandlerActive(q)' <=> HandlerActive(q)
                               /\ Deciding(q)' <=> Deciding(q)
                               /\ req'[q].model = req[q].model
                               /\ LoadActive(q) => load'[q].model = load[q].model
    <3>1. \A q \in Requests : req'[q].pc = req[q].pc \/ (q = r /\ req'[q].pc = "publish")
      BY <2>3
    <3>2. \A q \in Requests : req'[q].model = req[q].model
      BY <2>3
    <3>3. \A q \in Requests : LoadActive(q)' <=> LoadActive(q)
      BY <1>1, <2>2 DEF LoadActive
    <3>4. \A q \in Requests : LoadActive(q) => load'[q].model = load[q].model
      BY <1>1, <2>2 DEF LoadActive
    <3>5. \A q \in Requests : /\ HandlerActive(q)' <=> HandlerActive(q)
                              /\ Deciding(q)' <=> Deciding(q)
      BY <1>1, <3>1 DEF HandlerActive, Deciding
    <3> QED  BY <3>2, <3>3, <3>4, <3>5
  <2>5. model_states' = model_states
    BY <1>4
  <2>6. SequentialInv => SequentialInv'
    <3>1. ActiveLoadVisible => ActiveLoadVisible'
      BY <2>4, <2>5 DEF ActiveLoadVisible
    <3> QED  BY <2>4, <3>1 DEF SequentialInv
  <2>7. PatientInv => PatientInv'
    BY <2>4, <2>5 DEF PatientInv, NoOtherReady, OneModelReady
  <2> QED  BY <2>6, <2>7 DEF PacedInv
<1> QED  BY <1>3, <1>4 DEF Plan

LEMMA PacedPublish ==
  ASSUME EvidenceInv, PacedInv, NEW r \in Requests, Publish(r)
  PROVE  PacedInv'
<1> DEFINE m == req[r].model
<1>1. /\ req \in [Requests -> Request] /\ model_states \in [Models -> Entry]
      /\ load \in [Requests -> LoadThread] /\ load[r].pc = "none"
      /\ req[r].pc = "publish" /\ m \in Models /\ load[r].model = m
      /\ \A q \in Requests : LoadActive(q) => load[q].model \in Models
  BY PacedFacts DEF Publish
<1>2. /\ load'[r].pc = "store" /\ load'[r].model = m
      /\ \A q \in Requests \ {r} : load'[q] = load[q]
      /\ \A q \in Requests \ {r} : req'[q] = req[q]
      /\ req'[r].model = m /\ req'[r].pc = "done"
  BY <1>1 DEF Publish, LoadThread, Request
<1>3. \A k \in Models : model_states'[k] =
        IF k = m THEN [status |-> "loading", by |-> r] ELSE model_states[k]
  BY <1>1 DEF Publish
<1>4. /\ LoadActive(r)' /\ ~LoadActive(r) /\ ~HandlerActive(r)' /\ ~Deciding(r)'
      /\ HandlerActive(r) /\ Deciding(r)
      /\ \A q \in Requests \ {r} : /\ LoadActive(q)' <=> LoadActive(q)
                                   /\ HandlerActive(q)' <=> HandlerActive(q)
                                   /\ Deciding(q)' <=> Deciding(q)
      /\ \A q \in Requests : Deciding(q) => HandlerActive(q)
  BY <1>1, <1>2 DEF LoadActive, HandlerActive, Deciding
<1>5. ASSUME SequentialInv PROVE SequentialInv'
  <2>1. \A q \in Requests : ~HandlerActive(q)' /\ ~Deciding(q)'
    BY <1>4, <1>5 DEF SequentialInv
  <2>2. ASSUME NEW q \in Requests, LoadActive(q)'
        PROVE  model_states'[load'[q].model] = [status |-> "loading", by |-> q]
    <3>1. CASE q = r
      BY <1>1, <1>2, <1>3, <3>1
    <3>2. CASE q # r
      <4>1. LoadActive(q) /\ load'[q].model = load[q].model /\ load[q].model # m
        BY <1>2, <1>4, <1>5, <2>2, <3>2 DEF SequentialInv
      <4>2. model_states[load[q].model] = [status |-> "loading", by |-> q]
        BY <1>5, <4>1 DEF SequentialInv, ActiveLoadVisible
      <4> QED  BY <1>1, <1>3, <4>1, <4>2
    <3> QED  BY <3>1, <3>2
  <2> QED  BY <2>1, <2>2 DEF SequentialInv, ActiveLoadVisible
<1>6. ASSUME SequentialInv, PatientInv PROVE PatientInv'
  <2>1. \A q \in Requests : ~HandlerActive(q)' /\ ~Deciding(q)'
    BY <1>4, <1>6 DEF SequentialInv
  <2>2. \A q \in Requests : LoadActive(q)' => q = r
    BY <1>4, <1>6 DEF PatientInv
  <2>3. \A k \in Models : model_states'[k].status # "ready"
    <3>1. ASSUME NEW k \in Models, k # m PROVE model_states'[k].status # "ready"
      BY <1>3, <1>4, <1>6, <3>1 DEF PatientInv, NoOtherReady
    <3>2. model_states'[m].status # "ready"
      BY <1>1, <1>3
    <3> QED  BY <3>1, <3>2
  <2> QED  BY <2>1, <2>2, <2>3 DEF PatientInv, NoOtherReady, OneModelReady
<1>7. Client = "patient" => Client # "concurrent"
  OBVIOUS
<1> QED  BY <1>5, <1>6, <1>7 DEF PacedInv

LEMMA PacedWriteOutcome ==
  ASSUME EvidenceInv, PacedInv, NEW r \in Requests, WriteOutcome(r)
  PROVE  PacedInv'
<1> DEFINE m == load[r].model
<1>1. /\ model_states \in [Models -> Entry] /\ load \in [Requests -> LoadThread]
      /\ load[r].pc \in {"built", "failed"} /\ m \in Models /\ UNCHANGED req
      /\ \A q \in Requests : LoadActive(q) => load[q].model \in Models
  BY PacedFacts DEF WriteOutcome, LoadActive, handlerVars
<1>2. /\ load'[r].pc = "done" /\ \A q \in Requests \ {r} : load'[q] = load[q]
  BY <1>1 DEF WriteOutcome, LoadThread
<1>3. \A k \in Models \ {m} : model_states'[k] = model_states[k]
  BY <1>1 DEF WriteOutcome
<1>4. /\ LoadActive(r) /\ ~LoadActive(r)'
      /\ \A q \in Requests \ {r} : LoadActive(q)' <=> LoadActive(q)
      /\ \A q \in Requests : /\ HandlerActive(q)' <=> HandlerActive(q)
                             /\ Deciding(q)' <=> Deciding(q)
      /\ \A q \in Requests : Deciding(q) => HandlerActive(q)
  BY <1>1, <1>2 DEF LoadActive, HandlerActive, Deciding
<1>5. ASSUME SequentialInv PROVE SequentialInv'
  <2>1. ASSUME NEW q \in Requests, LoadActive(q)'
        PROVE  model_states'[load'[q].model] = [status |-> "loading", by |-> q]
    <3>1. q # r /\ LoadActive(q) /\ load'[q] = load[q]
      BY <1>2, <1>4, <2>1
    <3>2. model_states[load[q].model] = [status |-> "loading", by |-> q]
          /\ model_states[m] = [status |-> "loading", by |-> r]
      BY <1>4, <1>5, <3>1 DEF SequentialInv, ActiveLoadVisible
    <3>3. load[q].model # m
      BY <3>1, <3>2
    <3> QED  BY <1>1, <1>3, <3>1, <3>2, <3>3
  <2>2. \A q, p \in Requests :
          Deciding(q)' /\ LoadActive(p)' => load'[p].model # req'[q].model
    BY <1>1, <1>2, <1>4, <1>5 DEF SequentialInv
  <2> QED  BY <1>4, <1>5, <2>1, <2>2 DEF SequentialInv, ActiveLoadVisible
<1>6. ASSUME PatientInv PROVE PatientInv'
  <2>1. \A q \in Requests : ~LoadActive(q)'
    BY <1>4, <1>6 DEF PatientInv
  <2>2. \A q \in Requests : ~Deciding(q)'
    BY <1>4, <1>6 DEF PatientInv
  <2>3. \A k \in Models \ {m} : model_states'[k].status # "ready"
    BY <1>3, <1>4, <1>6 DEF PatientInv, NoOtherReady
  <2> QED  BY <2>1, <2>2, <2>3 DEF PatientInv, OneModelReady
<1> QED  BY <1>5, <1>6 DEF PacedInv

LEMMA PacedStep ==
  ASSUME EvidenceInv, PacedInv, [Next]_vars
  PROVE  PacedInv'
<1>0. load \in [Requests -> LoadThread]
  BY PacedFacts
<1>1. ASSUME UNCHANGED <<model_states, req, load>> PROVE PacedInv'
  BY <1>1, PacedFrame DEF LoadActive
<1>2. ASSUME NEW r \in Requests, LoadStep(r) PROVE PacedInv'
  <2>1. CASE WriteOutcome(r)
    BY <2>1, PacedWriteOutcome
  <2>2. CASE ~WriteOutcome(r)
    <3>1. /\ UNCHANGED <<model_states, req>> /\ load[r].pc \notin {"none", "done"}
          /\ \/ \E p : load' = [load EXCEPT ![r].pc = p]
             \/ Advance(r, "dispatch") \/ Advance(r, "wait")
      BY <1>2, <2>2
      DEF LoadStep, StoreLoad, CollectFailure, CollectAll, LoadTokenizer,
          CreateSlot, DispatchShard, DispatchFails, Dispatched, handlerVars
    <3>2. /\ load'[r].model = load[r].model
          /\ \A q \in Requests \ {r} : load'[q] = load[q]
      BY <1>0, <3>1 DEF LoadThread, Advance
    <3> QED  BY <3>1, <3>2, PacedFrame DEF LoadActive
  <2> QED  BY <2>1, <2>2
<1>3. ASSUME NEW r \in Requests, HandlerStep(r) PROVE PacedInv'
  BY <1>3, PacedTakeEntry, PacedCheckState, PacedUnload, PacedPlan, PacedPublish
  DEF HandlerStep
<1>4. ASSUME NEW r \in Requests, NEW w \in Nodes, WaiterStep(r, w) \/ ThreadStep(w, r)
      PROVE  PacedInv'
  BY <1>1, <1>4
  DEF WaiterStep, WaiterStart, WaiterPop, ThreadStep, BuildDone, Report, handlerVars
<1>5. ASSUME NEW w \in Nodes, WorkerCrash(w) \/ WorkerRestart(w) \/ RegistryChange(w)
      PROVE  PacedInv'
  BY <1>1, <1>5 DEF WorkerCrash, WorkerRestart, RegistryChange, handlerVars
<1>6. CASE UNCHANGED vars
  BY <1>1, <1>6 DEF vars, handlerVars
<1> QED  BY <1>2, <1>3, <1>4, <1>5, <1>6, PacedArrive DEF Next, Quiescent

\* What clients that wait for each answer, or for each load, may rely on.
THEOREM PacedInvariant == Spec => []PacedInv
<1>1. Init => PacedInv
  BY DEF Init, NoLoad, NoEntry, FreeRequest, LoadActive, HandlerActive, Deciding,
         PacedInv, SequentialInv, PatientInv, ActiveLoadVisible, OneModelReady,
         NoOtherReady
<1> QED  BY <1>1, PacedStep, EvidenceKept, PTL DEF Spec

\* If no two handlers run at once, the entry of a model that is being loaded
\* says so and names that load, whatever fails: neither a redistribution nor
\* the load of another model hides it (_ensure_loading_started, _load).
THEOREM LoadsAreVisible ==
  ASSUME Client # "concurrent"
  PROVE  Spec => []ActiveLoadVisible
<1>1. PacedInv => ActiveLoadVisible
  BY DEF PacedInv, SequentialInv
<1> QED  BY PacedInvariant, <1>1, PTL

\* If clients wait for each load to end, whatever its outcome, at most one
\* model is ready at a time, as _ensure_loading_started says.
THEOREM OnlyOneModelReady ==
  ASSUME Client = "patient"
  PROVE  Spec => []OneModelReady
<1>1. PacedInv => OneModelReady
  BY DEF PacedInv, PatientInv
<1> QED  BY PacedInvariant, <1>1, PTL

-----------------------------------------------------------------------------
(***************************************************************************)
(* The workers' tables under the orchestrator: every call it makes is one  *)
(* that InferenceService allows, so that what is proved of a worker alone  *)
(* holds of every worker of the cluster.  Only the lemmas on the tables    *)
(* are taken over; the record of reports does not occur in them, and any   *)
(* value will do for it.                                                   *)
(***************************************************************************)
Table == INSTANCE InferenceServiceProofs
           WITH Workers <- Nodes, Calls <- Requests, Shards <- Shard,
                answer <- heard, held <- heard

\* On every worker of the cluster _loading is a lock, as on a worker alone.
WorkerTablesConsistent == Worker!LoadingIsLock

LEMMA TableInit == Worker!Init => Table!Inv
<1>1. Worker!Init => Table!Init
  BY DEF Worker!Init, Table!Init
<1> QED  BY <1>1, HandleAssumption, Table!InitInv

LEMMA TableSame == ASSUME Table!Inv, UNCHANGED workerVars PROVE Table!Inv'
<1>1. UNCHANGED Table!vars
  BY DEF workerVars, Table!vars
<1> QED  BY <1>1, HandleAssumption, Table!StepInv

LEMMA TableLoadShard ==
  ASSUME Table!Inv, NEW w \in Nodes, NEW r \in Requests, NEW m \in Models,
         NEW s \in Shard, Worker!LoadShard(w, r, m, s)
  PROVE  Table!Inv'
<1>1. Table!LoadShard(w, r, m, s)
  BY DEF Worker!LoadShard, Table!LoadShard, Worker!Resident, Table!Resident,
         Worker!NewThread, Table!NewThread
<1> QED  BY <1>1, HandleAssumption, Table!LoadShardInv

LEMMA TableUnloadShard ==
  ASSUME Table!Inv, NEW w \in Nodes, NEW m \in Models, Worker!UnloadShard(w, m)
  PROVE  Table!Inv'
<1>1. Table!UnloadShard(w, m)
  BY DEF Worker!UnloadShard, Table!UnloadShard
<1> QED  BY <1>1, HandleAssumption, Table!UnloadShardInv

LEMMA TableThread ==
  ASSUME Table!Inv, NEW w \in Nodes, NEW t \in threads[w],
         Worker!BuildSucceeds(w, t) \/ Worker!BuildFails(w, t)
           \/ Worker!ReportShardReady(w, t)
  PROVE  Table!Inv'
<1>1. \/ Table!BuildSucceeds(w, t) \/ Table!BuildFails(w, t)
      \/ Table!ReportShardReady(w, t)
  BY DEF Worker!BuildSucceeds, Worker!BuildFails, Worker!ReportShardReady,
         Table!BuildSucceeds, Table!BuildFails, Table!ReportShardReady
<1> QED  BY <1>1, HandleAssumption, Table!BuildSucceedsInv, Table!BuildFailsInv,
            Table!ReportShardReadyInv

LEMMA TableCrash ==
  ASSUME Table!Inv, NEW w \in Nodes, Worker!Crash(w) \/ Worker!Restart(w)
  PROVE  Table!Inv'
<1>1. Table!Crash(w) \/ Table!Restart(w)
  BY DEF Worker!Crash, Worker!Restart, Table!Crash, Table!Restart
<1> QED  BY <1>1, HandleAssumption, Table!CrashInv, Table!RestartInv

\* The first UnloadShard call left, and what is left after it.
LEMMA FirstCall ==
  ASSUME NEW s \in Sessions, s # <<>>
  PROVE  /\ Head(Head(s)).node \in Nodes /\ Head(Head(s)).model \in Models
         /\ AfterFirst(s) \in Sessions
<1> DEFINE C == [model : Models, node : Nodes]
           P == Seq(C) \ {<<>>}
<1>1. s \in Seq(P)
  BY DEF Sessions
<1>2. Head(s) \in P /\ Tail(s) \in Seq(P) /\ Len(s) \in Nat /\ Len(s) > 0
  <2> HIDE DEF P
  <2> QED  BY <1>1
<1>3. Head(Head(s)) \in C /\ Tail(Head(s)) \in Seq(C) /\ Len(Head(s)) > 0
      /\ Len(Tail(Head(s))) = Len(Head(s)) - 1 /\ Len(Head(s)) \in Nat
  <2> HIDE DEF C
  <2>1. Head(s) \in Seq(C) /\ Head(s) # <<>>
    BY <1>2
  <2> QED  BY <2>1
<1>4. CASE Len(Head(s)) = 1
  <2>1. AfterFirst(s) = Tail(s)
    BY <1>4 DEF AfterFirst
  <2>2. Head(Head(s)).node \in Nodes /\ Head(Head(s)).model \in Models
    BY <1>3
  <2> QED  BY <1>2, <2>1, <2>2 DEF Sessions
<1>5. CASE Len(Head(s)) # 1
  <2>1. Tail(Head(s)) \in P
    <3>1. Len(Tail(Head(s))) # 0
      BY <1>3, <1>5
    <3>2. Tail(Head(s)) # <<>>
      <4>1. ASSUME NEW x, x = <<>> PROVE Len(x) = 0
        BY <4>1
      <4> QED  BY <3>1, <4>1
    <3> QED  BY <1>3, <3>2
  <2>2. AfterFirst(s) = [s EXCEPT ![1] = Tail(s[1])] /\ Head(s) = s[1]
    BY <1>1, <1>2, <1>5 DEF AfterFirst
  <2> HIDE DEF P
  <2>3. AfterFirst(s) \in Seq(P)
    BY <1>1, <1>2, <2>1, <2>2
  <2> QED  BY <1>3, <2>3 DEF Sessions, P
<1> QED  BY <1>3, <1>4, <1>5

\* A model that is ready has calls to unload it.
LEMMA UnloadCallsTypes ==
  ASSUME EvidenceInv, NEW m \in Models, model_states[m].status = "ready"
  PROVE  UnloadCalls(m) \in Seq([model : Models, node : Nodes]) \ {<<>>}
<1> DEFINE r == model_states[m].by
           plan == load[r].plan
<1>1. r \in Requests /\ load[r].pc # "none"
  BY DEF EvidenceInv, EntryEvidence
<1>2. plan \in Seq(Shard) /\ load[r].i \in 1..Len(plan)
  BY <1>1 DEF EvidenceInv, OrchestratorTypes, LoadThread, Phases
<1>3. Len(plan) \in Nat /\ DOMAIN plan = 1..Len(plan) /\ Len(plan) > 0
      /\ \A i \in 1..Len(plan) : plan[i].node \in Nodes
  <2>1. \A x \in Shard : x.node \in Nodes
    BY DEF Shard, Assignments
  <2>2. \A i \in 1..Len(plan) : plan[i] \in Shard
    BY <1>2
  <2> QED  BY <1>2, <2>1, <2>2
<1>4. UnloadCalls(m) = [i \in 1..Len(plan) |-> [model |-> m, node |-> plan[i].node]]
  BY <1>3 DEF UnloadCalls
<1> HIDE DEF plan
<1>5. UnloadCalls(m) \in [1..Len(plan) -> [model : Models, node : Nodes]]
  BY <1>3, <1>4
<1>6. UnloadCalls(m) # <<>>
  BY <1>3, <1>4
<1>7. \A C, f : f \in [1..Len(plan) -> C] => f \in Seq(C)
  BY <1>3
<1> QED  BY <1>5, <1>6, <1>7

LEMMA TableIs == Table!Inv <=> Worker!TypeOK /\ WorkerTablesConsistent
<1>1. Table!TypeOK <=> Worker!TypeOK
  BY DEF Table!TypeOK, Worker!TypeOK, Table!Thread, Worker!Thread
<1>2. Table!LoadingIsLock <=> Worker!LoadingIsLock
  BY DEF Table!LoadingIsLock, Worker!LoadingIsLock, Table!Building,
         Worker!Building, Table!Resident, Worker!Resident
<1> QED  BY <1>1, <1>2 DEF Table!Inv, WorkerTablesConsistent

\* The assignment a load is at.
LEMMA CurrentShard ==
  ASSUME EvidenceInv, NEW r \in Requests, load[r].pc = "dispatch"
  PROVE  /\ Current(r) \in Shard /\ Current(r).node \in Nodes
         /\ load[r].model \in Models
<1>1. load[r].plan \in Seq(Shard) /\ load[r].i \in 1..Len(load[r].plan)
  BY DEF EvidenceInv, OrchestratorTypes, LoadThread, Phases
<1>2. Current(r) \in Shard
  BY <1>1 DEF Current
<1>3. load[r].model \in Models
  <2>1. req[r].pc = "done"
    BY DEF EvidenceInv, Phases
  <2> QED  BY <2>1 DEF EvidenceInv, Phases
<1> QED  BY <1>2, <1>3 DEF Shard, Assignments

\* Every step of the cluster keeps every worker's table consistent.
LEMMA TableStep ==
  ASSUME EvidenceInv, Table!Inv, todo \in [Requests -> Sessions], [Next]_vars
  PROVE  Table!Inv'
<1>1. CASE UNCHANGED workerVars
  BY <1>1, TableSame
<1>2. ASSUME NEW r \in Requests, UnloadNext(r) PROVE Table!Inv'
  <2> DEFINE call == Head(Head(todo[r]))
  <2>1. call.node \in Nodes /\ call.model \in Models
    BY <1>2, FirstCall DEF UnloadNext
  <2>2. Worker!UnloadShard(call.node, call.model) \/ UNCHANGED workerVars
    BY <1>2 DEF UnloadNext
  <2> HIDE DEF call
  <2> QED  BY <2>1, <2>2, TableSame, TableUnloadShard
<1>3. ASSUME NEW r \in Requests, DispatchShard(r) PROVE Table!Inv'
  <2>1. /\ Current(r) \in Shard /\ Current(r).node \in Nodes
        /\ load[r].model \in Models
    BY <1>3, CurrentShard DEF DispatchShard
  <2>2. \/ Worker!LoadShard(Current(r).node, r, load[r].model, Current(r))
        \/ UNCHANGED workerVars
    BY <1>3 DEF DispatchShard
  <2> QED  BY <2>1, <2>2, TableSame, TableLoadShard
<1>4. ASSUME NEW w \in Nodes, NEW r \in Requests, ThreadStep(w, r)
      PROVE  Table!Inv'
  BY <1>4, TableThread DEF ThreadStep, BuildDone, Report
<1>5. ASSUME NEW w \in Nodes, WorkerCrash(w) \/ WorkerRestart(w)
      PROVE  Table!Inv'
  BY <1>5, TableCrash DEF WorkerCrash, WorkerRestart
<1>6. ASSUME NEW r \in Requests, HandlerStep(r), ~UnloadNext(r)
      PROVE  UNCHANGED workerVars
  BY <1>6 DEF HandlerStep, TakeEntry, CheckState, Unloaded, Plan, Publish
<1>7. ASSUME NEW r \in Requests, LoadStep(r), ~DispatchShard(r)
      PROVE  UNCHANGED workerVars
  BY <1>7 DEF LoadStep, StoreLoad, CreateSlot, CollectFailure, CollectAll,
              LoadTokenizer, WriteOutcome
<1>8. ASSUME NEW r \in Requests, NEW w \in Nodes, WaiterStep(r, w)
      PROVE  UNCHANGED workerVars
  BY <1>8 DEF WaiterStep, WaiterStart, WaiterPop
<1>9. ASSUME NEW r \in Requests, NEW op \in Operations, NEW m \in Models,
             Arrive(r, op, m)
      PROVE  UNCHANGED workerVars
  BY <1>9 DEF Arrive
<1>10. ASSUME NEW w \in Nodes, RegistryChange(w) PROVE UNCHANGED workerVars
  BY <1>10 DEF RegistryChange
<1>11. CASE Quiescent \/ UNCHANGED vars
  BY <1>1, <1>11 DEF Quiescent, vars
<1> QED
  BY <1>1, <1>2, <1>3, <1>4, <1>5, <1>6, <1>7, <1>8, <1>9, <1>10, <1>11 DEF Next

\* The calls a handler still has to make are to nodes and models that exist.
LEMMA SessionsStep ==
  ASSUME EvidenceInv, todo \in [Requests -> Sessions], [Next]_vars
  PROVE  todo' \in [Requests -> Sessions]
<1>1. ASSUME NEW r \in Requests, TakeEntry(r) PROVE todo' \in [Requests -> Sessions]
  <2> DEFINE m == req[r].model
             s == IF model_states[m].status = "ready" THEN <<UnloadCalls(m)>>
                  ELSE <<>>
  <2>1. m \in Models
    BY <1>1 DEF TakeEntry, EvidenceInv, Phases
  <2>2. todo' = todo \/ todo' = [todo EXCEPT ![r] = s]
    BY <1>1 DEF TakeEntry
  <2>3. s \in Sessions
    <3>1. CASE model_states[m].status = "ready"
      <4> DEFINE P == Seq([model : Models, node : Nodes]) \ {<<>>}
      <4>1. UnloadCalls(m) \in P
        BY <2>1, <3>1, UnloadCallsTypes
      <4> HIDE DEF P
      <4>2. <<UnloadCalls(m)>> \in Seq(P)
        BY <4>1
      <4> QED  BY <3>1, <4>2 DEF P, Sessions
    <3>2. CASE model_states[m].status # "ready"
      BY <3>2 DEF Sessions
    <3> QED  BY <3>1, <3>2
  <2> HIDE DEF s
  <2> QED  BY <2>2, <2>3
<1>2. ASSUME NEW r \in Requests, CheckState(r) PROVE todo' \in [Requests -> Sessions]
  <2> DEFINE others == {k \in Models \ {req[r].model} :
                          model_states[k].status = "ready"}
             P == Seq([model : Models, node : Nodes]) \ {<<>>}
  <2>1. CASE todo' = todo
    BY <2>1
  <2>2. CASE \E seq \in SetToSeqs(others) :
               todo' = [todo EXCEPT
                 ![r] = [i \in DOMAIN seq |-> UnloadCalls(seq[i])]]
    <3>1. PICK seq \in SetToSeqs(others) :
            todo' = [todo EXCEPT
              ![r] = [i \in DOMAIN seq |-> UnloadCalls(seq[i])]]
      BY <2>2
    <3> DEFINE s == [i \in DOMAIN seq |-> UnloadCalls(seq[i])]
    <3>2. seq \in [1..Cardinality(others) -> others]
      BY DEF SetToSeqs
    <3>3. Cardinality(others) \in Nat
      <4>1. IsFiniteSet(others)
        BY ModelsAssumption, FS_Subset
      <4> QED  BY <4>1, FS_CardinalityType
    <3>4. \A k \in others : UnloadCalls(k) \in P
      BY UnloadCallsTypes
    <3> HIDE DEF others, P
    <3>5. s \in [1..Cardinality(others) -> P]
      BY <3>2, <3>4
    <3> HIDE DEF s
    <3>6. s \in Seq(P)
      BY <3>3, <3>5
    <3>7. s \in Sessions
      BY <3>6 DEF P, Sessions
    <3>8. todo' = [todo EXCEPT ![r] = s]
      BY <3>1 DEF s
    <3> QED  BY <3>7, <3>8
  <2> QED  BY <1>2, <2>1, <2>2 DEF CheckState
<1>3. ASSUME NEW r \in Requests, UnloadNext(r) PROVE todo' \in [Requests -> Sessions]
  BY <1>3, FirstCall DEF UnloadNext
<1>4. CASE UNCHANGED todo
  BY <1>4
<1>5. ASSUME NEW r \in Requests, HandlerStep(r) PROVE todo' \in [Requests -> Sessions]
  BY <1>1, <1>2, <1>3, <1>4, <1>5 DEF HandlerStep, Unloaded, Plan, Publish
<1>6. ASSUME NEW r \in Requests, LoadStep(r) PROVE UNCHANGED todo
  BY <1>6 DEF LoadStep, StoreLoad, CreateSlot, DispatchShard, CollectFailure,
              CollectAll, LoadTokenizer, WriteOutcome, handlerVars
<1>7. ASSUME NEW r \in Requests, NEW w \in Nodes, WaiterStep(r, w)
      PROVE  UNCHANGED todo
  BY <1>7 DEF WaiterStep, WaiterStart, WaiterPop, handlerVars
<1>8. ASSUME NEW w \in Nodes, NEW r \in Requests, ThreadStep(w, r)
      PROVE  UNCHANGED todo
  BY <1>8 DEF ThreadStep, BuildDone, Report, handlerVars
<1>9. ASSUME NEW w \in Nodes, WorkerCrash(w) \/ WorkerRestart(w) \/ RegistryChange(w)
      PROVE  UNCHANGED todo
  BY <1>9 DEF WorkerCrash, WorkerRestart, RegistryChange, handlerVars
<1>10. ASSUME NEW r \in Requests, NEW op \in Operations, NEW m \in Models,
              Arrive(r, op, m)
       PROVE  UNCHANGED todo
  BY <1>10 DEF Arrive
<1>11. CASE Quiescent \/ UNCHANGED vars
  BY <1>4, <1>11 DEF Quiescent, vars, handlerVars
<1> QED
  BY <1>4, <1>5, <1>6, <1>7, <1>8, <1>9, <1>10, <1>11 DEF Next

\* Only events of slots are set, and only Deliver sets them.
LEMMA FiredStep ==
  ASSUME EvidenceInv, Table!Inv, fired \subseteq Requests \X Nodes, [Next]_vars
  PROVE  fired' \subseteq Requests \X Nodes
<1>1. CASE UNCHANGED fired
  BY <1>1
<1>2. ASSUME NEW w \in Nodes, NEW r \in Requests, ThreadStep(w, r)
      PROVE  fired' \subseteq Requests \X Nodes
  <2>1. PICK t \in threads[w] : BuildDone(w, t) \/ Report(w, t)
    BY <1>2 DEF ThreadStep
  <2>2. t.model \in Models
    BY DEF Table!Inv, Table!TypeOK, Table!Thread
  <2>3. \/ UNCHANGED fired
        \/ slots[t.model][w] # NoSlot
           /\ fired' = fired \cup {<<slots[t.model][w].event, w>>}
    BY <2>1 DEF BuildDone, Report, Deliver, storeVars
  <2>4. slots[t.model][w] # NoSlot => slots[t.model][w].event \in Requests
    BY <2>2 DEF EvidenceInv, OrchestratorTypes, Slot
  <2> QED  BY <2>3, <2>4
<1>3. ASSUME NEW r \in Requests, HandlerStep(r) PROVE UNCHANGED fired
  BY <1>3 DEF HandlerStep, TakeEntry, CheckState, UnloadNext, Unloaded, Plan,
              Publish, storeVars
<1>4. ASSUME NEW r \in Requests, LoadStep(r) PROVE UNCHANGED fired
  BY <1>4 DEF LoadStep, StoreLoad, CreateSlot, DispatchShard, CollectFailure,
              CollectAll, LoadTokenizer, WriteOutcome, storeVars
<1>5. ASSUME NEW r \in Requests, NEW w \in Nodes, WaiterStep(r, w)
      PROVE  UNCHANGED fired
  BY <1>5 DEF WaiterStep, WaiterStart, WaiterPop, storeVars
<1>6. ASSUME NEW w \in Nodes, WorkerCrash(w) \/ WorkerRestart(w) \/ RegistryChange(w)
      PROVE  UNCHANGED fired
  BY <1>6 DEF WorkerCrash, WorkerRestart, RegistryChange, storeVars
<1>7. ASSUME NEW r \in Requests, NEW op \in Operations, NEW m \in Models,
             Arrive(r, op, m)
      PROVE  UNCHANGED fired
  BY <1>7 DEF Arrive, storeVars
<1>8. CASE Quiescent \/ UNCHANGED vars
  BY <1>1, <1>8 DEF Quiescent, vars, storeVars
<1> QED
  BY <1>1, <1>2, <1>3, <1>4, <1>5, <1>6, <1>7, <1>8 DEF Next

\* Faults and changes of the registry stay within their bounds.
LEMMA CountersStep ==
  ASSUME faults \in 0..MaxFaults, churn \in 0..MaxChurn, [Next]_vars
  PROVE  faults' \in 0..MaxFaults /\ churn' \in 0..MaxChurn
<1>0. MaxFaults \in Nat /\ MaxChurn \in Nat
  BY BoundsAssumption
<1>1. CASE UNCHANGED counters
  BY <1>1 DEF counters
<1>2. ASSUME NEW k, Fault(k) PROVE faults' \in 0..MaxFaults /\ churn' \in 0..MaxChurn
  BY <1>0, <1>2 DEF Fault
<1>3. ASSUME NEW w \in Nodes, RegistryChange(w)
      PROVE  faults' \in 0..MaxFaults /\ churn' \in 0..MaxChurn
  BY <1>0, <1>3 DEF RegistryChange
<1>4. ASSUME NEW r \in Requests, HandlerStep(r)
      PROVE  UNCHANGED counters \/ \E k : Fault(k)
  BY <1>4 DEF HandlerStep, TakeEntry, CheckState, UnloadNext, Unloaded, Plan, Publish
<1>5. ASSUME NEW r \in Requests, LoadStep(r)
      PROVE  UNCHANGED counters \/ \E k : Fault(k)
  BY <1>5 DEF LoadStep, StoreLoad, CreateSlot, DispatchShard, CollectFailure,
              CollectAll, LoadTokenizer, WriteOutcome
<1>6. ASSUME NEW r \in Requests, NEW w \in Nodes, WaiterStep(r, w)
      PROVE  UNCHANGED counters
  BY <1>6 DEF WaiterStep, WaiterStart, WaiterPop
<1>7. ASSUME NEW w \in Nodes, NEW r \in Requests, ThreadStep(w, r)
      PROVE  UNCHANGED counters \/ \E k : Fault(k)
  BY <1>7 DEF ThreadStep, BuildDone, Report
<1>8. ASSUME NEW w \in Nodes, WorkerCrash(w) \/ WorkerRestart(w)
      PROVE  UNCHANGED counters \/ \E k : Fault(k)
  BY <1>8 DEF WorkerCrash, WorkerRestart
<1>9. ASSUME NEW r \in Requests, NEW op \in Operations, NEW m \in Models,
             Arrive(r, op, m)
      PROVE  UNCHANGED counters
  BY <1>9 DEF Arrive
<1>10. CASE Quiescent \/ UNCHANGED vars
  BY <1>1, <1>10 DEF Quiescent, vars
<1> QED
  BY <1>1, <1>2, <1>3, <1>4, <1>5, <1>6, <1>7, <1>8, <1>9, <1>10 DEF Next

\* An entry that is loading or ready is about a load, hence has a plan.
LEMMA EntriesPlanned ==
  ASSUME EvidenceInv, [Next]_vars,
         \A m \in Models : model_states[m].status \in {"loading", "ready"} =>
           model_states[m].by # NoRequest
  PROVE  \A m \in Models : model_states'[m].status \in {"loading", "ready"} =>
           model_states'[m].by # NoRequest
<1>0. [Lifecycle!StatesNext]_(Lifecycle!stateVars)
  BY LifecycleStep
<1>1. CASE UNCHANGED model_states
  BY <1>1
<1>2. /\ \A r \in Requests : r # NoRequest
      /\ model_states \in [Models -> Entry]
  BY BoundsAssumption DEF Requests, NoRequest, EvidenceInv, OrchestratorTypes
<1>3. ASSUME NEW m \in Models,
             Lifecycle!RefuseLoad(m)
             \/ (\E l \in Requests : Lifecycle!StartLoad(m, l))
             \/ (\E l \in Requests : \E o \in Lifecycle!Removable :
                   Lifecycle!FinishLoad(m, l, o))
      PROVE  \A k \in Models : model_states'[k].status \in {"loading", "ready"} =>
               model_states'[k].by # NoRequest
  BY <1>2, <1>3 DEF Lifecycle!RefuseLoad, Lifecycle!StartLoad, Lifecycle!FinishLoad
<1>4. ASSUME NEW S \in SUBSET Models, Lifecycle!RemoveEntries(S)
      PROVE  \A k \in Models : model_states'[k].status \in {"loading", "ready"} =>
               model_states'[k].by # NoRequest
  BY <1>2, <1>4 DEF Lifecycle!RemoveEntries, Lifecycle!NoEntry
<1>5. Lifecycle!StatesNext \/ UNCHANGED model_states
  BY <1>0 DEF Lifecycle!stateVars
<1> QED  BY <1>1, <1>3, <1>4, <1>5 DEF Lifecycle!StatesNext

LEMMA TablesInit == Init => TypeOK /\ WorkerTablesConsistent
<1> SUFFICES ASSUME Init PROVE TypeOK /\ WorkerTablesConsistent
  OBVIOUS
<1>1. Worker!TypeOK /\ WorkerTablesConsistent
  BY TableInit, TableIs DEF Init
<1>2. OrchestratorTypes
  BY EvidenceInit DEF EvidenceInv
<1>3. \A m \in Models : model_states[m].status = "none"
  BY DEF Init, NoEntry
<1>4. todo \in [Requests -> Sessions]
  <2>1. <<>> \in Sessions
    BY DEF Sessions
  <2> QED  BY <2>1 DEF Init
<1>5. fired \subseteq Requests \X Nodes /\ faults \in 0..MaxFaults /\ churn \in 0..MaxChurn
  BY BoundsAssumption DEF Init
<1> QED  BY <1>1, <1>2, <1>3, <1>4, <1>5 DEF TypeOK

LEMMA TablesStep ==
  ASSUME EvidenceInv, TypeOK, WorkerTablesConsistent, [Next]_vars
  PROVE  TypeOK' /\ WorkerTablesConsistent'
<1>1. Table!Inv
  BY TableIs DEF TypeOK
<1>2. Table!Inv' /\ todo' \in [Requests -> Sessions]
  BY <1>1, TableStep, SessionsStep DEF TypeOK
<1>3. Worker!TypeOK' /\ WorkerTablesConsistent'
  <2>1. (Table!Inv <=> Worker!TypeOK /\ WorkerTablesConsistent)'
    BY TableIs, PTL
  <2> QED  BY <1>2, <2>1
<1>4. OrchestratorTypes'
  BY EvidenceStep DEF EvidenceInv
<1>5. \A m \in Models : model_states'[m].status \in {"loading", "ready"} =>
        model_states'[m].by # NoRequest
  BY EntriesPlanned DEF TypeOK
<1>6. fired' \subseteq Requests \X Nodes
  BY <1>1, FiredStep DEF TypeOK
<1>7. faults' \in 0..MaxFaults /\ churn' \in 0..MaxChurn
  BY CountersStep DEF TypeOK
<1> QED  BY <1>2, <1>3, <1>4, <1>5, <1>6, <1>7 DEF TypeOK

\* The types of the whole cluster, for any models, nodes, requests and
\* faults: in particular every UnloadShard call still to be made is to a
\* worker and a model that exist, and every loading or ready entry has a plan.
THEOREM ClusterTypes == Spec => []TypeOK
<1>1. EvidenceInv /\ TypeOK /\ WorkerTablesConsistent /\ [Next]_vars
        => TypeOK' /\ WorkerTablesConsistent'
  BY TablesStep
<1> QED  BY TablesInit, <1>1, EvidenceKept, PTL DEF Spec

\* Every worker's _loading set stays an exact lock over its shard builds
\* however the orchestrator's loads, unloads and retries reach it.
LEMMA TablesStayConsistent == Spec => []WorkerTablesConsistent
<1>1. EvidenceInv /\ TypeOK /\ WorkerTablesConsistent /\ [Next]_vars
        => TypeOK' /\ WorkerTablesConsistent'
  BY TablesStep
<1> QED  BY TablesInit, <1>1, EvidenceKept, PTL DEF Spec

-----------------------------------------------------------------------------
(***************************************************************************)
(* What is in the workers' memory.                                         *)
(***************************************************************************)
\* Requests are handled one after the other, and what may fail leaves no
\* shard behind.
Benign == Client # "concurrent" /\ Faults \subseteq {"lost_report", "store_fails"}

\* What the steps below need of loads and entries.
LEMMA LoadFacts ==
  ASSUME EvidenceInv, SequentialInv
  PROVE  /\ load \in [Requests -> LoadThread] /\ model_states \in [Models -> Entry]
         /\ \A r \in Requests :
              /\ load[r].plan \in Seq(Shard) /\ Len(load[r].plan) \in Nat
              /\ DOMAIN load[r].plan = 1..Len(load[r].plan)
              /\ PlanNodes(load[r].plan) \subseteq Nodes
              /\ LoadActive(r) =>
                   /\ load[r].model \in Models /\ req[r].pc = "done"
                   /\ model_states[load[r].model] = [status |-> "loading", by |-> r]
                   /\ load[r].i \in 1..Len(load[r].plan)
         /\ \A q, r \in Requests :
              LoadActive(q) /\ LoadActive(r) /\ load[q].model = load[r].model => q = r
<1>1. /\ load \in [Requests -> LoadThread] /\ model_states \in [Models -> Entry]
      /\ \A r \in Requests : LoadActive(r) => load[r].model \in Models
  BY PacedFacts
<1>2. ASSUME NEW r \in Requests
      PROVE  /\ load[r].plan \in Seq(Shard) /\ Len(load[r].plan) \in Nat
             /\ DOMAIN load[r].plan = 1..Len(load[r].plan)
             /\ PlanNodes(load[r].plan) \subseteq Nodes
  <2>1. load[r].plan \in Seq(Shard)
    BY <1>1 DEF LoadThread
  <2> QED  BY <2>1, PlanNodesOf
<1>3. ASSUME NEW r \in Requests, LoadActive(r)
      PROVE  /\ req[r].pc = "done"
             /\ model_states[load[r].model] = [status |-> "loading", by |-> r]
             /\ load[r].i \in 1..Len(load[r].plan)
  <2>1. load[r].pc # "none"
    BY <1>3 DEF LoadActive
  <2> QED  BY <1>3, <2>1 DEF EvidenceInv, Phases, SequentialInv, ActiveLoadVisible
<1>4. ASSUME NEW q \in Requests, NEW r \in Requests, LoadActive(q), LoadActive(r),
             load[q].model = load[r].model
      PROVE  q = r
  <2>1. [status |-> "loading", by |-> q] = [status |-> "loading", by |-> r]
    BY <1>3, <1>4
  <2>2. [status |-> "loading", by |-> q].by = [status |-> "loading", by |-> r].by
    BY <2>1
  <2> QED  BY <2>2
<1> QED  BY <1>1, <1>2, <1>3, <1>4

\* Shards are sent and slots created by loads under way, to nodes of the plan.
LEMMA SentFacts ==
  ASSUME EvidenceInv, SequentialInv, NEW r \in Requests
  PROVE  /\ \A w : w \in Sent(r) =>
              /\ load[r].pc \in {"dispatch", "wait", "tokenizer", "built"}
              /\ LoadActive(r) /\ w \in PlanNodes(load[r].plan)
         /\ \A w : w \in Created(r) =>
              /\ load[r].pc \in {"create", "dispatch", "wait"}
              /\ LoadActive(r) /\ w \in PlanNodes(load[r].plan)
<1>1. /\ Len(load[r].plan) \in Nat /\ DOMAIN load[r].plan = 1..Len(load[r].plan)
      /\ LoadActive(r) => load[r].i \in 1..Len(load[r].plan)
  BY LoadFacts
<1>2. load[r].pc \in {"create", "dispatch", "wait", "tokenizer", "built"} => LoadActive(r)
  BY DEF LoadActive
<1>3. ASSUME NEW w, w \in Sent(r)
      PROVE  /\ load[r].pc \in {"dispatch", "wait", "tokenizer", "built"}
             /\ w \in PlanNodes(load[r].plan)
  <2>1. CASE load[r].pc = "dispatch"
    BY <1>1, <1>2, <1>3, <2>1 DEF Sent, PlanNodes
  <2>2. CASE load[r].pc \in {"wait", "tokenizer", "built"}
    BY <1>1, <1>2, <1>3, <2>2 DEF Sent, PlanNodes
  <2>3. CASE load[r].pc \notin {"dispatch", "wait", "tokenizer", "built"}
    BY <1>3, <2>3 DEF Sent
  <2> QED  BY <2>1, <2>2, <2>3
<1>4. ASSUME NEW w, w \in Created(r)
      PROVE  /\ load[r].pc \in {"create", "dispatch", "wait"}
             /\ w \in PlanNodes(load[r].plan)
  <2>1. CASE load[r].pc = "create"
    BY <1>1, <1>2, <1>4, <2>1 DEF Created, PlanNodes
  <2>2. CASE load[r].pc \in {"dispatch", "wait"}
    BY <1>1, <1>2, <1>4, <2>2 DEF Created, PlanNodes
  <2>3. CASE load[r].pc \notin {"create", "dispatch", "wait"}
    BY <1>4, <2>3 DEF Created
  <2> QED  BY <2>1, <2>2, <2>3
<1> QED  BY <1>2, <1>3, <1>4

\* A load that none of the steps between dispatch and report concerns.
LoadTurns(r) ==
  /\ load[r].pc \notin {"create", "dispatch", "wait"}
  /\ load'[r].pc \notin {"dispatch", "wait"}
  /\ load'[r].pc = "create" => load'[r].i = 1
  /\ load'[r].pc \in {"none", "store", "create"} => load[r].pc \in {"none", "store"}
  /\ load'[r].pc \in {"tokenizer", "built"} =>
       /\ load[r].pc \in {"tokenizer", "built"}
       /\ load'[r].model = load[r].model /\ load'[r].plan = load[r].plan
  /\ \A i, j \in DOMAIN load'[r].plan :
       load'[r].plan[i].node = load'[r].plan[j].node => i = j

LEMMA LoadsFrame ==
  ASSUME EvidenceInv, SequentialInv, TypeOK, LoadsRight,
         UNCHANGED <<up, threads, slots, fired, waiter>>,
         NEW r \in Requests,
         \A q \in Requests \ {r} : load'[q] = load[q],
         load'[r] = load[r] \/ LoadTurns(r),
         \A w \in Nodes, q \in Requests : LoadActive(q) =>
           models'[w][load[q].model] = models[w][load[q].model]
  PROVE  LoadsRight'
<1>1. ASSUME NEW q \in Requests, load'[q] = load[q]
      PROVE  /\ Sent(q)' = Sent(q) /\ Created(q)' = Created(q)
             /\ LoadActive(q) => \A w \in Nodes : Holds(w, q)' <=> Holds(w, q)
  BY <1>1 DEF Sent, Created, Holds
<1>2. CASE load'[r] = load[r]
  <2>1. \A q \in Requests : load'[q] = load[q]
    BY <1>2
  <2>2. ASSUME NEW w \in Nodes, NEW t \in threads[w] PROVE ThreadRight(w, t)'
    <3>1. ThreadRight(w, t) /\ t.call \in Requests
      BY DEF LoadsRight, TypeOK, Worker!TypeOK, Worker!Thread
    <3>2. LoadActive(t.call)
      BY <3>1 DEF ThreadRight, LoadActive
    <3> QED  BY <1>1, <2>1, <3>1, <3>2 DEF ThreadRight
  <2>3. ASSUME NEW q \in Requests, NEW w \in Nodes
        PROVE  SlotRight(q, w)' /\ WaiterRight(q, w)'
    <3>1. SlotRight(q, w) /\ WaiterRight(q, w)
      BY DEF LoadsRight
    <3>2. /\ w \in Created(q) => LoadActive(q)
          /\ load[q].pc = "wait" => LoadActive(q)
      BY SentFacts DEF LoadActive
    <3> QED  BY <1>1, <2>1, <3>1, <3>2 DEF SlotRight, WaiterRight
  <2>4. ASSUME NEW q \in Requests, load'[q].pc \in {"tokenizer", "built"}
        PROVE  HoldsPlan(q)'
    <3>1. LoadActive(q) /\ HoldsPlan(q) /\ PlanNodes(load[q].plan) \subseteq Nodes
      BY <2>1, <2>4, LoadFacts DEF LoadsRight, LoadActive
    <3> QED  BY <1>1, <2>1, <3>1 DEF HoldsPlan
  <2>5. OnePerNode'
    BY <2>1 DEF LoadsRight, OnePerNode
  <2> QED  BY <2>2, <2>3, <2>4, <2>5 DEF LoadsRight
<1>3. CASE LoadTurns(r)
  <2>2. ASSUME NEW w \in Nodes, NEW t \in threads[w] PROVE ThreadRight(w, t)'
    <3>1. ThreadRight(w, t) /\ t.call \in Requests
      BY DEF LoadsRight, TypeOK, Worker!TypeOK, Worker!Thread
    <3>2. LoadActive(t.call) /\ t.call # r /\ load'[t.call] = load[t.call]
      BY <1>3, <3>1 DEF ThreadRight, LoadActive, LoadTurns
    <3> QED  BY <1>1, <3>1, <3>2 DEF ThreadRight
  <2>3. ASSUME NEW q \in Requests, NEW w \in Nodes
        PROVE  SlotRight(q, w)' /\ WaiterRight(q, w)'
    <3>1. SlotRight(q, w) /\ WaiterRight(q, w)
      BY DEF LoadsRight
    <3>2. CASE q # r
      <4>1. load'[q] = load[q]
        BY <3>2
      <4>2. /\ w \in Created(q) => LoadActive(q)
            /\ load[q].pc = "wait" => LoadActive(q)
        BY SentFacts DEF LoadActive
      <4> QED  BY <1>1, <3>1, <4>1, <4>2 DEF SlotRight, WaiterRight
    <3>3. CASE q = r
      <4>1. w \notin Created(r)'
        <5>1. CASE load'[r].pc = "create"
          BY <1>3, <5>1 DEF LoadTurns, Created
        <5>2. CASE load'[r].pc # "create"
          BY <1>3, <5>2 DEF LoadTurns, Created
        <5> QED  BY <5>1, <5>2
      <4> QED  BY <1>3, <3>1, <3>3, <4>1 DEF SlotRight, WaiterRight, LoadTurns
    <3> QED  BY <3>2, <3>3
  <2>4. ASSUME NEW q \in Requests, load'[q].pc \in {"tokenizer", "built"}
        PROVE  HoldsPlan(q)'
    <3>1. /\ load[q].pc \in {"tokenizer", "built"}
          /\ load'[q].model = load[q].model /\ load'[q].plan = load[q].plan
      BY <1>3, <2>4 DEF LoadTurns
    <3>2. LoadActive(q) /\ HoldsPlan(q) /\ PlanNodes(load[q].plan) \subseteq Nodes
      BY <3>1, LoadFacts DEF LoadsRight, LoadActive
    <3> QED  BY <3>1, <3>2 DEF HoldsPlan, Holds
  <2>5. OnePerNode'
    BY <1>3 DEF LoadsRight, OnePerNode, LoadTurns
  <2> QED  BY <2>2, <2>3, <2>4, <2>5 DEF LoadsRight
<1> QED  BY <1>2, <1>3

\* Steps that write no table, no entry and no session.
LEMMA TablesFrame ==
  ASSUME EvidenceInv, SequentialInv, TypeOK, TablesRight,
         UNCHANGED <<models, model_states, req, todo>>,
         \A q \in Requests :
           /\ load'[q].model = load[q].model /\ load'[q].plan = load[q].plan
           /\ Sent(q) \subseteq Sent(q)'
  PROVE  TablesRight'
<1>1. \A w \in Nodes, m \in Models : Pending(w, m)' <=> Pending(w, m)
  BY DEF Pending
<1>2. \A m \in Models : model_states[m].status = "ready" =>
        model_states[m].by \in Requests
  BY DEF EvidenceInv, EntryEvidence
<1>3. ASSUME NEW w \in Nodes, NEW m \in Models PROVE Accounted(w, m)'
  BY <1>1, <1>2 DEF TablesRight, Accounted, Worker!Resident
<1>4. ASSUME NEW m \in Models, model_states[m].status = "ready"
      PROVE  HoldsPlan(model_states[m].by)'
  BY <1>2, <1>4 DEF TablesRight, HoldsPlan, Holds
<1>5. \A q \in Requests : HandlerRight(q)'
  BY DEF TablesRight, HandlerRight, Deciding
<1> QED  BY <1>3, <1>4, <1>5 DEF TablesRight

\* The calls left after the first are the others.
LEMMA AfterFirstCalls ==
  ASSUME NEW s \in Sessions, s # <<>>
  PROVE  CallsOf(s) = CallsOf(AfterFirst(s)) \cup {Head(Head(s))}
<1> DEFINE C == [model : Models, node : Nodes]
           P == Seq(C) \ {<<>>}
           t == AfterFirst(s)
           c == Head(Head(s))
           rest == Tail(Head(s))
<1>1. s \in Seq(P)
  BY DEF Sessions
<1>2. /\ Len(s) \in Nat /\ Len(s) > 0 /\ DOMAIN s = 1..Len(s) /\ Head(s) = s[1]
      /\ Head(s) \in P /\ Len(Tail(s)) = Len(s) - 1
      /\ DOMAIN Tail(s) = 1..(Len(s) - 1)
      /\ \A i \in 1..(Len(s) - 1) : Tail(s)[i] = s[i + 1]
  <2> HIDE DEF P
  <2> QED  BY <1>1
<1>3. /\ Len(s[1]) \in Nat /\ Len(s[1]) > 0 /\ DOMAIN s[1] = 1..Len(s[1])
      /\ c = s[1][1] /\ DOMAIN rest = 1..(Len(s[1]) - 1)
      /\ \A j \in 1..(Len(s[1]) - 1) : rest[j] = s[1][j + 1]
  <2> HIDE DEF C
  <2>1. Head(s) \in Seq(C) /\ Head(s) # <<>>
    BY <1>2
  <2> QED  BY <1>2, <2>1
<1> DEFINE In(u) == {u[j] : j \in DOMAIN u}
<1>4. /\ \A x : x \in CallsOf(s) <=> \E i \in DOMAIN s : x \in In(s[i])
      /\ \A x : x \in CallsOf(t) <=> \E i \in DOMAIN t : x \in In(t[i])
  BY DEF CallsOf
<1>5. In(s[1]) = In(rest) \cup {c}
  <2>1. ASSUME NEW j \in DOMAIN s[1], j # 1
        PROVE  j - 1 \in DOMAIN rest /\ rest[j - 1] = s[1][j]
    <3> HIDE DEF rest, c
    <3>1. j - 1 \in 1..(Len(s[1]) - 1) /\ (j - 1) + 1 = j
      BY <1>3, <2>1
    <3> QED  BY <1>3, <3>1
  <2>2. \A j \in DOMAIN rest : j + 1 \in DOMAIN s[1] /\ rest[j] = s[1][j + 1]
    BY <1>3
  <2>3. In(s[1]) \subseteq In(rest) \cup {c}
    BY <1>3, <2>1
  <2>4. In(rest) \subseteq In(s[1])
    BY <2>2
  <2>5. c \in In(s[1])
    BY <1>3
  <2> QED  BY <2>3, <2>4, <2>5
<1>6. CASE Len(Head(s)) = 1
  <2>1. t = Tail(s)
    BY <1>6 DEF AfterFirst
  <2>2. In(s[1]) = {c}
    BY <1>2, <1>3, <1>6
  <2> HIDE DEF In, c, t
  <2>3. ASSUME NEW i \in DOMAIN s, i # 1
        PROVE  i - 1 \in DOMAIN t /\ t[i - 1] = s[i]
    <3>1. i - 1 \in 1..(Len(s) - 1) /\ (i - 1) + 1 = i
      BY <1>2, <2>3
    <3> QED  BY <1>2, <2>1, <3>1
  <2>4. \A i \in DOMAIN t : i + 1 \in DOMAIN s /\ t[i] = s[i + 1]
    BY <1>2, <2>1
  <2>5. 1 \in DOMAIN s
    BY <1>2
  <2>6. \A x : x \in CallsOf(s) <=> x \in CallsOf(t) \cup {c}
    BY <1>4, <2>2, <2>3, <2>4, <2>5
  <2> QED  BY <2>6 DEF t, c
<1>7. CASE Len(Head(s)) # 1
  <2>1. t = [s EXCEPT ![1] = Tail(s[1])]
    BY <1>1, <1>2, <1>7 DEF AfterFirst
  <2>2. /\ DOMAIN t = DOMAIN s /\ 1 \in DOMAIN s /\ t[1] = rest
        /\ \A i \in DOMAIN s : i # 1 => t[i] = s[i]
    BY <1>2, <2>1
  <2> HIDE DEF In, c, t, rest
  <2>3. \A x : x \in CallsOf(s) <=> x \in CallsOf(t) \cup {c}
    BY <1>4, <1>5, <2>2
  <2> QED  BY <2>3 DEF t, c
<1> QED  BY <1>6, <1>7

LEMMA CallTypes ==
  ASSUME NEW s \in Sessions, NEW c \in CallsOf(s)
  PROVE  c.model \in Models /\ c.node \in Nodes
<1> DEFINE C == [model : Models, node : Nodes]
<1>1. PICK i \in DOMAIN s : \E j \in DOMAIN s[i] : c = s[i][j]
  BY DEF CallsOf
<1>2. PICK j \in DOMAIN s[i] : c = s[i][j]
  BY <1>1
<1>3. s[i] \in Seq(C)
  <2> DEFINE P == Seq(C) \ {<<>>}
  <2>1. s \in Seq(P)
    BY DEF Sessions
  <2> HIDE DEF P
  <2>2. s[i] \in P
    BY <2>1
  <2> QED  BY <2>2 DEF P
<1> HIDE DEF C
<1>4. c \in C
  BY <1>2, <1>3
<1> QED  BY <1>4 DEF C

\* No session, no calls.
LEMMA NoCalls == CallsOf(<<>>) = {}
BY DEF CallsOf

\* The calls that unload m go to the workers of its plan.
LEMMA UnloadCallsOf ==
  ASSUME NEW m \in Models
  PROVE  {UnloadCalls(m)[j] : j \in DOMAIN UnloadCalls(m)}
           = {[model |-> m, node |-> w] : w \in PlanNodes(load[model_states[m].by].plan)}
BY DEF UnloadCalls, PlanNodes

\* The models to unload are all in the list of sessions.
LEMMA SeqCoversSet ==
  ASSUME NEW S, IsFiniteSet(S), NEW seq \in SetToSeqs(S)
  PROVE  /\ DOMAIN seq = 1..Cardinality(S)
         /\ \A i \in DOMAIN seq : seq[i] \in S
         /\ \A k \in S : \E i \in DOMAIN seq : seq[i] = k
<1> DEFINE n == Cardinality(S)
<1>1. n \in Nat
  BY FS_CardinalityType
<1>2. /\ seq \in [1..n -> S]
      /\ \A i, j \in 1..n : i # j => seq[i] # seq[j]
  BY DEF SetToSeqs
<1>3. seq \in Injection(1..n, S)
  BY <1>2 DEF Injection, IsInjective
<1>4. Cardinality(1..n) = n
  BY <1>1, FS_Interval
<1>5. seq \in Surjection(1..n, S)
  BY <1>3, <1>4, FS_Injection
<1> QED  BY <1>2, <1>5 DEF Surjection

-----------------------------------------------------------------------------
\* While one handler is at work, no other has anything left to do.
LEMMA OnlyHandler ==
  ASSUME SequentialInv, TypeOK, TablesRight, NEW r \in Requests, HandlerActive(r)
  PROVE  /\ \A q \in Requests \ {r} : todo[q] = <<>> /\ req[q].pc \in {"free", "done"}
         /\ \A w, m : Pending(w, m) <=> [model |-> m, node |-> w] \in CallsOf(todo[r])
<1>1. \A q \in Requests \ {r} : req[q].pc \in {"free", "done"}
  BY DEF SequentialInv, HandlerActive
<1>2. \A q \in Requests \ {r} : todo[q] = <<>>
  BY <1>1 DEF TablesRight, HandlerRight
<1>3. \A q \in Requests \ {r} : CallsOf(todo[q]) = {}
  BY <1>2, NoCalls
<1> QED  BY <1>1, <1>2, <1>3 DEF Pending

\* A request arrives, or a handler ends without having done anything.
LEMMA MemoryFrame ==
  ASSUME EvidenceInv, SequentialInv, TypeOK, MemoryInv,
         UNCHANGED <<workerVars, model_states, todo, load, waiter, slots, fired>>,
         \A q \in Requests : HandlerRight(q)'
  PROVE  MemoryInv'
<1>1. \A q \in Requests :
        /\ Sent(q)' = Sent(q) /\ Created(q)' = Created(q)
        /\ HoldsPlan(q)' <=> HoldsPlan(q)
        /\ \A w : Holds(w, q)' <=> Holds(w, q)
  BY DEF Sent, Created, Holds, HoldsPlan, workerVars
<1>2. LoadsRight'
  <2>1. ASSUME NEW w \in Nodes, NEW t \in threads[w] PROVE ThreadRight(w, t)'
    <3>1. ThreadRight(w, t) /\ t.call \in Requests
      BY DEF MemoryInv, LoadsRight, TypeOK, Worker!TypeOK, Worker!Thread
    <3> QED  BY <1>1, <3>1 DEF ThreadRight, workerVars
  <2>2. ASSUME NEW q \in Requests, NEW w \in Nodes
        PROVE  SlotRight(q, w)' /\ WaiterRight(q, w)'
    <3>1. SlotRight(q, w) /\ WaiterRight(q, w)
      BY DEF MemoryInv, LoadsRight
    <3>2. load' = load /\ slots' = slots /\ waiter' = waiter /\ fired' = fired
      OBVIOUS
    <3>3. SlotRight(q, w)'
      BY <1>1, <3>1, <3>2 DEF SlotRight
    <3>4. WaiterRight(q, w)'
      BY <1>1, <3>1, <3>2 DEF WaiterRight
    <3> QED  BY <3>3, <3>4
  <2> QED  BY <1>1, <2>1, <2>2 DEF MemoryInv, LoadsRight, OnePerNode, workerVars
<1>3. \A w \in Nodes, m \in Models : Accounted(w, m)'
  <2>1. \A w \in Nodes, m \in Models : /\ Pending(w, m)' <=> Pending(w, m)
                                       /\ Worker!Resident(w, m)' <=> Worker!Resident(w, m)
    BY DEF Pending, Worker!Resident, workerVars
  <2>2. \A w \in Nodes, m \in Models : Accounted(w, m)
    BY DEF MemoryInv, TablesRight
  <2>3. load' = load /\ model_states' = model_states
    OBVIOUS
  <2> QED  BY <1>1, <2>1, <2>2, <2>3 DEF Accounted
<1>4. \A m \in Models : model_states[m].status = "ready" =>
        HoldsPlan(model_states[m].by)'
  BY <1>1 DEF MemoryInv, TablesRight, EvidenceInv, EntryEvidence
<1> QED  BY <1>2, <1>3, <1>4 DEF MemoryInv, TablesRight

LEMMA MemoryArrive ==
  ASSUME EvidenceInv, SequentialInv, TypeOK, MemoryInv,
         NEW r \in Requests, NEW op \in Operations, NEW m \in Models, Arrive(r, op, m)
  PROVE  MemoryInv'
<1>1. /\ req \in [Requests -> Request] /\ req[r].pc = "free"
      /\ UNCHANGED <<workerVars, model_states, todo, load, waiter, slots, fired>>
      /\ req'[r] = [pc |-> IF op = "load" THEN "check" ELSE "take",
                    op |-> op, model |-> m]
      /\ \A q \in Requests \ {r} : req'[q] = req[q]
  BY PacedFacts DEF Arrive, storeVars
<1>2. todo[r] = <<>>
  BY <1>1 DEF MemoryInv, TablesRight, HandlerRight
<1>3. HandlerRight(r)'
  <2>1. CallsOf(todo'[r]) = {} /\ todo'[r] = <<>>
    BY <1>1, <1>2, NoCalls
  <2>2. ~Deciding(r)'
    BY <1>1 DEF Deciding
  <2>3. req'[r].op = "redistribute" => req'[r].pc = "take"
    BY <1>1
  <2> QED  BY <2>1, <2>2, <2>3 DEF HandlerRight
<1>4. \A q \in Requests \ {r} : HandlerRight(q)'
  BY <1>1 DEF MemoryInv, TablesRight, HandlerRight, Deciding
<1> QED  BY <1>1, <1>3, <1>4, MemoryFrame

\* A handler that has nothing to unload moves on.
LEMMA MemoryMoves ==
  ASSUME EvidenceInv, SequentialInv, TypeOK, MemoryInv,
         NEW r \in Requests, todo[r] = <<>>,
         UNCHANGED <<workerVars, model_states, todo, load, waiter, slots, fired>>,
         \A q \in Requests \ {r} : req'[q] = req[q],
         \/ req'[r].pc = "done"
         \/ /\ req[r].pc = "free_old" /\ req'[r].pc = "check"
            /\ req'[r].op = req[r].op /\ req'[r].model = req[r].model
         \/ /\ req[r].pc = "free_others" /\ req'[r].pc = "plan"
            /\ req'[r].op = req[r].op /\ req'[r].model = req[r].model
  PROVE  MemoryInv'
<1>1. HandlerRight(r)'
  <2>1. CallsOf(todo'[r]) = {} /\ todo'[r] = <<>>
    BY NoCalls
  <2>2. HandlerRight(r)
    BY DEF MemoryInv, TablesRight
  <2> QED  BY <2>1, <2>2 DEF HandlerRight, Deciding
<1>2. \A q \in Requests \ {r} : HandlerRight(q)'
  BY DEF MemoryInv, TablesRight, HandlerRight, Deciding
<1> QED  BY <1>1, <1>2, MemoryFrame

LEMMA MemoryUnloaded ==
  ASSUME EvidenceInv, SequentialInv, TypeOK, MemoryInv, NEW r \in Requests, Unloaded(r)
  PROVE  MemoryInv'
<1>1. /\ req \in [Requests -> Request]
      /\ req[r].pc \in {"free_old", "free_others"} /\ todo[r] = <<>>
      /\ req' = [req EXCEPT ![r].pc = IF req[r].pc = "free_old" THEN "check" ELSE "plan"]
      /\ UNCHANGED <<workerVars, model_states, todo, load, waiter, slots, fired>>
  BY PacedFacts DEF Unloaded, storeVars
<1>2. /\ req'[r].pc = IF req[r].pc = "free_old" THEN "check" ELSE "plan"
      /\ req'[r].op = req[r].op /\ req'[r].model = req[r].model
      /\ \A q \in Requests \ {r} : req'[q] = req[q]
  BY <1>1 DEF Request
<1> QED  BY <1>1, <1>2, MemoryMoves

\* A handler removes the entries of S and is to unload those that are ready.
LEMMA MemoryRemoves ==
  ASSUME EvidenceInv, SequentialInv, TypeOK, MemoryInv,
         NEW r \in Requests, HandlerActive(r), todo[r] = <<>>, NEW S \in SUBSET Models,
         UNCHANGED <<workerVars, load, waiter, slots, fired>>,
         \A k \in Models :
           model_states'[k] = IF k \in S THEN NoEntry ELSE model_states[k],
         \A q \in Requests \ {r} : req'[q] = req[q] /\ todo'[q] = todo[q],
         \A k \in S : model_states[k].status = "ready" =>
           \A w \in PlanNodes(load[model_states[k].by].plan) :
             [model |-> k, node |-> w] \in CallsOf(todo'[r]),
         HandlerRight(r)'
  PROVE  MemoryInv'
<1>1. LoadsRight'
  BY LoadsFrame DEF MemoryInv, workerVars
<1>2. /\ load' = load /\ models' = models
      /\ \A q \in Requests : Sent(q)' = Sent(q) /\ (HoldsPlan(q)' <=> HoldsPlan(q))
  BY DEF Sent, HoldsPlan, Holds, workerVars
<1>3. ASSUME NEW w \in Nodes, NEW m \in Models PROVE Accounted(w, m)'
  <2> SUFFICES ASSUME Worker!Resident(w, m)'
               PROVE  \/ \E q \in Requests : load'[q].model = m /\ w \in Sent(q)'
                      \/ /\ model_states'[m].status = "ready"
                         /\ w \in PlanNodes(load'[model_states'[m].by].plan)
                      \/ Pending(w, m)'
    BY DEF Accounted
  <2>1. Worker!Resident(w, m)
    BY <1>2 DEF Worker!Resident
  <2>2. ~Pending(w, m)
    BY OnlyHandler, NoCalls DEF MemoryInv
  <2>3. \/ \E q \in Requests : load[q].model = m /\ w \in Sent(q)
        \/ /\ model_states[m].status = "ready"
           /\ w \in PlanNodes(load[model_states[m].by].plan)
    BY <2>1, <2>2 DEF MemoryInv, TablesRight, Accounted
  <2>4. CASE \E q \in Requests : load[q].model = m /\ w \in Sent(q)
    BY <1>2, <2>4
  <2>5. CASE /\ model_states[m].status = "ready" /\ m \in S
             /\ w \in PlanNodes(load[model_states[m].by].plan)
    BY <2>5 DEF Pending
  <2>6. CASE /\ model_states[m].status = "ready" /\ m \notin S
             /\ w \in PlanNodes(load[model_states[m].by].plan)
    BY <1>2, <2>6
  <2> QED  BY <2>3, <2>4, <2>5, <2>6
<1>4. ASSUME NEW m \in Models, model_states'[m].status = "ready"
      PROVE  HoldsPlan(model_states[m].by)'
  <2>1. model_states'[m] = model_states[m] /\ model_states[m].status = "ready"
    BY <1>4 DEF NoEntry
  <2>2. model_states[m].by \in Requests /\ HoldsPlan(model_states[m].by)
    BY <2>1 DEF MemoryInv, TablesRight, EvidenceInv, EntryEvidence
  <2>3. load' = load /\ models' = models
    BY <1>2
  <2> QED  BY <2>1, <2>2, <2>3 DEF HoldsPlan, Holds
<1>5. \A q \in Requests \ {r} : HandlerRight(q)'
  <2>1. \A q \in Requests \ {r} : todo'[q] = <<>> /\ req'[q].pc \in {"free", "done"}
    BY OnlyHandler DEF MemoryInv
  <2> QED  BY <2>1, NoCalls DEF HandlerRight, Deciding
<1> QED  BY <1>1, <1>3, <1>4, <1>5 DEF MemoryInv, TablesRight

LEMMA MemoryTakeEntry ==
  ASSUME EvidenceInv, SequentialInv, TypeOK, MemoryInv, NEW r \in Requests, TakeEntry(r)
  PROVE  MemoryInv'
<1> DEFINE m == req[r].model
<1>1. /\ req \in [Requests -> Request] /\ model_states \in [Models -> Entry]
      /\ req[r].pc = "take" /\ m \in Models /\ todo \in [Requests -> Sessions]
      /\ UNCHANGED <<workerVars, load, waiter, slots, fired>>
  BY PacedFacts DEF TakeEntry, storeVars, TypeOK
<1>2. todo[r] = <<>>
  BY <1>1 DEF MemoryInv, TablesRight, HandlerRight
<1>3. CASE model_states[m].status \in {"none", "loading"}
  <2>1. /\ UNCHANGED <<model_states, todo>> /\ req'[r].pc = "done"
        /\ \A q \in Requests \ {r} : req'[q] = req[q]
    BY <1>1, <1>3 DEF TakeEntry, Request
  <2> QED  BY <1>1, <1>2, <2>1, MemoryMoves
<1>4. CASE model_states[m].status \notin {"none", "loading"}
  <2> DEFINE s == IF model_states[m].status = "ready" THEN <<UnloadCalls(m)>> ELSE <<>>
  <2>1. /\ model_states' = [model_states EXCEPT ![m] = NoEntry]
        /\ req' = [req EXCEPT ![r].pc = "free_old"] /\ todo' = [todo EXCEPT ![r] = s]
    BY <1>4 DEF TakeEntry
  <2>2. /\ \A k \in Models :
             model_states'[k] = IF k \in {m} THEN NoEntry ELSE model_states[k]
        /\ \A q \in Requests \ {r} : req'[q] = req[q] /\ todo'[q] = todo[q]
        /\ req'[r].pc = "free_old" /\ req'[r].model = m /\ todo'[r] = s
    BY <1>1, <2>1 DEF Request
  <2>3. CallsOf(s) = IF model_states[m].status = "ready"
                     THEN {[model |-> m, node |-> w] :
                             w \in PlanNodes(load[model_states[m].by].plan)}
                     ELSE {}
    <3>1. CallsOf(<<UnloadCalls(m)>>)
            = {UnloadCalls(m)[j] : j \in DOMAIN UnloadCalls(m)}
      BY DEF CallsOf
    <3> QED  BY <1>1, <3>1, UnloadCallsOf, NoCalls
  <2> HIDE DEF s, m
  <2>4. HandlerRight(r)'
    <3>1. \A c \in CallsOf(todo'[r]) : c.model = m
      BY <2>2, <2>3
    <3>2. model_states'[m].status = "none"
      BY <1>1, <2>2 DEF NoEntry
    <3> QED  BY <2>2, <3>1, <3>2 DEF HandlerRight, Deciding
  <2>5. \A k \in {m} : model_states[k].status = "ready" =>
          \A w \in PlanNodes(load[model_states[k].by].plan) :
            [model |-> k, node |-> w] \in CallsOf(todo'[r])
    BY <2>2, <2>3
  <2>6. HandlerActive(r) /\ {m} \in SUBSET Models
    BY <1>1 DEF HandlerActive
  <2> QED  BY <1>1, <1>2, <2>2, <2>4, <2>5, <2>6, MemoryRemoves
<1> QED  BY <1>3, <1>4

\* The models other than m that are ready.
OtherReady(m) == {k \in Models \ {m} : model_states[k].status = "ready"}

\* _ensure_loading_started takes away the entries of the other ready models
\* and is to unload just these.
LEMMA CheckStateCalls ==
  ASSUME EvidenceInv, TypeOK, NEW r \in Requests, CheckState(r),
         model_states[req[r].model].status \notin {"loading", "ready"}
  PROVE  /\ \A k \in Models :
              model_states'[k] =
                IF k \in OtherReady(req[r].model) THEN NoEntry ELSE model_states[k]
         /\ \A q \in Requests \ {r} : req'[q] = req[q] /\ todo'[q] = todo[q]
         /\ req'[r].pc = "free_others" /\ req'[r].model = req[r].model
         /\ \A c : c \in CallsOf(todo'[r]) <=>
              \E k \in OtherReady(req[r].model) :
                c \in {[model |-> k, node |-> w] :
                         w \in PlanNodes(load[model_states[k].by].plan)}
<1> DEFINE others == OtherReady(req[r].model)
<1>1. /\ req \in [Requests -> Request] /\ model_states \in [Models -> Entry]
      /\ todo \in [Requests -> Sessions]
  BY PacedFacts DEF TypeOK
<1>2. PICK seq \in SetToSeqs(others) :
        todo' = [todo EXCEPT ![r] = [i \in DOMAIN seq |-> UnloadCalls(seq[i])]]
  BY DEF CheckState, OtherReady
<1>3. /\ req' = [req EXCEPT ![r].pc = "free_others"]
      /\ model_states' = [k \in Models |->
           IF k \in others THEN NoEntry ELSE model_states[k]]
  BY DEF CheckState, OtherReady
<1> HIDE DEF others
<1> DEFINE s == [i \in DOMAIN seq |-> UnloadCalls(seq[i])]
<1>4. /\ \A k \in Models :
           model_states'[k] = IF k \in others THEN NoEntry ELSE model_states[k]
      /\ \A q \in Requests \ {r} : req'[q] = req[q] /\ todo'[q] = todo[q]
      /\ req'[r].pc = "free_others" /\ req'[r].model = req[r].model /\ todo'[r] = s
  BY <1>1, <1>2, <1>3 DEF Request
<1>5. /\ \A i \in DOMAIN seq : seq[i] \in others
      /\ \A k \in others : \E i \in DOMAIN seq : seq[i] = k
  <2>1. others \subseteq Models
    BY DEF others, OtherReady
  <2>2. IsFiniteSet(others)
    BY <2>1, ModelsAssumption, FS_Subset
  <2>3. seq \in SetToSeqs(others)
    OBVIOUS
  <2> QED  BY <2>2, <2>3, SeqCoversSet
<1>6. \A c : c \in CallsOf(s) <=>
        \E i \in DOMAIN seq :
          c \in {UnloadCalls(seq[i])[j] : j \in DOMAIN UnloadCalls(seq[i])}
  BY DEF CallsOf
<1> HIDE DEF s
<1>7. \A c : c \in CallsOf(s) <=>
        \E k \in others : c \in {[model |-> k, node |-> w] :
                                   w \in PlanNodes(load[model_states[k].by].plan)}
  <2>1. \A k \in others :
          {UnloadCalls(k)[j] : j \in DOMAIN UnloadCalls(k)}
            = {[model |-> k, node |-> w] : w \in PlanNodes(load[model_states[k].by].plan)}
    BY UnloadCallsOf DEF others, OtherReady
  <2> QED  BY <1>5, <1>6, <2>1
<1> QED  BY <1>4, <1>7 DEF others

LEMMA MemoryCheckState ==
  ASSUME EvidenceInv, SequentialInv, TypeOK, MemoryInv, NEW r \in Requests, CheckState(r)
  PROVE  MemoryInv'
<1> DEFINE m == req[r].model
           others == OtherReady(m)
<1>1. /\ req \in [Requests -> Request] /\ model_states \in [Models -> Entry]
      /\ req[r].pc = "check" /\ m \in Models
      /\ UNCHANGED <<workerVars, load, waiter, slots, fired>>
  BY PacedFacts DEF CheckState, storeVars
<1>2. todo[r] = <<>>
  BY <1>1 DEF MemoryInv, TablesRight, HandlerRight
<1>3. CASE model_states[m].status \in {"loading", "ready"}
  <2>1. /\ UNCHANGED <<model_states, todo>> /\ req'[r].pc = "done"
        /\ \A q \in Requests \ {r} : req'[q] = req[q]
    BY <1>1, <1>3 DEF CheckState, Request
  <2> QED  BY <1>1, <1>2, <2>1, MemoryMoves
<1>4. CASE model_states[m].status \notin {"loading", "ready"}
  <2>1. /\ \A k \in Models :
             model_states'[k] = IF k \in others THEN NoEntry ELSE model_states[k]
        /\ \A q \in Requests \ {r} : req'[q] = req[q] /\ todo'[q] = todo[q]
        /\ req'[r].pc = "free_others" /\ req'[r].model = m
        /\ \A c : c \in CallsOf(todo'[r]) <=>
             \E k \in others : c \in {[model |-> k, node |-> w] :
                                        w \in PlanNodes(load[model_states[k].by].plan)}
    BY <1>4, CheckStateCalls
  <2>2. others \in SUBSET Models /\ m \notin others
    BY DEF OtherReady
  <2> HIDE DEF m, others
  <2>3. HandlerRight(r)'
    <3>1. \A c \in CallsOf(todo'[r]) : c.model \in others
      BY <2>1
    <3>2. \A k \in others : model_states'[k].status = "none"
      BY <2>1, <2>2 DEF NoEntry
    <3>3. model_states'[m] = model_states[m]
      BY <1>1, <2>1, <2>2
    <3> QED  BY <1>4, <2>1, <3>1, <3>2, <3>3 DEF HandlerRight
  <2>4. \A k \in others : model_states[k].status = "ready" =>
          \A w \in PlanNodes(load[model_states[k].by].plan) :
            [model |-> k, node |-> w] \in CallsOf(todo'[r])
    BY <2>1
  <2>5. HandlerActive(r)
    BY <1>1 DEF HandlerActive
  <2> QED  BY <1>1, <1>2, <2>1, <2>2, <2>3, <2>4, <2>5, MemoryRemoves
<1> QED  BY <1>3, <1>4

\* A shard is unloaded: nobody has it in use, as its model has no entry.
LEMMA MemoryUnloadNext ==
  ASSUME EvidenceInv, SequentialInv, TypeOK, MemoryInv, Benign,
         NEW r \in Requests, UnloadNext(r)
  PROVE  MemoryInv'
<1> DEFINE c == Head(Head(todo[r]))
<1>1. /\ req[r].pc \in {"free_old", "free_others"} /\ todo[r] # <<>>
      /\ todo' = [todo EXCEPT ![r] = AfterFirst(todo[r])]
      /\ todo \in [Requests -> Sessions]
      /\ UNCHANGED <<model_states, req, load, waiter, slots, fired>>
  BY DEF UnloadNext, TypeOK, storeVars
<1>2. /\ c.node \in Nodes /\ c.model \in Models
      /\ CallsOf(todo[r]) = CallsOf(AfterFirst(todo[r])) \cup {c}
  BY <1>1, FirstCall, AfterFirstCalls
<1>3. Worker!UnloadShard(c.node, c.model)
  <2>1. up[c.node] /\ ~Fault("rpc_error")
    BY <1>2 DEF MemoryInv, LoadsRight, Benign, Fault
  <2> QED  BY <2>1 DEF UnloadNext
<1> HIDE DEF c
<1>4. /\ models \in [Nodes -> [Models -> Shard \cup {NoHandle}]]
      /\ models' = [models EXCEPT ![c.node][c.model] = NoHandle]
      /\ UNCHANGED <<up, loading, threads>>
  BY <1>3 DEF Worker!UnloadShard, TypeOK, Worker!TypeOK
<1>5. \A w \in Nodes, m \in Models :
        models'[w][m] = IF w = c.node /\ m = c.model THEN NoHandle ELSE models[w][m]
  BY <1>2, <1>4
<1>6. model_states[c.model].status = "none"
  BY <1>2 DEF MemoryInv, TablesRight, HandlerRight
<1>7. LoadsRight'
  <2>1. ASSUME NEW w \in Nodes, NEW q \in Requests, LoadActive(q)
        PROVE  models'[w][load[q].model] = models[w][load[q].model]
    <3>0. /\ load[q].model \in Models
          /\ model_states[load[q].model] = [status |-> "loading", by |-> q]
      BY <2>1, LoadFacts
    <3>1. model_states[load[q].model].status = "loading"
      BY <3>0
    <3> QED  BY <1>5, <1>6, <3>0, <3>1
  <2> QED  BY <1>1, <1>4, <2>1, LoadsFrame DEF MemoryInv
<1>8. ASSUME NEW w \in Nodes, NEW m \in Models PROVE Accounted(w, m)'
  <2> SUFFICES ASSUME Worker!Resident(w, m)'
               PROVE  \/ \E q \in Requests : load'[q].model = m /\ w \in Sent(q)'
                      \/ /\ model_states'[m].status = "ready"
                         /\ w \in PlanNodes(load'[model_states'[m].by].plan)
                      \/ Pending(w, m)'
    BY DEF Accounted
  <2>1. Worker!Resident(w, m) /\ ~(w = c.node /\ m = c.model)
    BY <1>5 DEF Worker!Resident
  <2>2. \A q \in Requests : Sent(q)' = Sent(q)
    BY <1>1 DEF Sent
  <2>3. Pending(w, m) => Pending(w, m)'
    <3>1. HandlerActive(r)
      BY <1>1 DEF HandlerActive
    <3>2. Pending(w, m) => [model |-> m, node |-> w] \in CallsOf(todo[r])
      BY <3>1, OnlyHandler DEF MemoryInv
    <3>3. [model |-> m, node |-> w] # c
      BY <2>1
    <3>4. todo'[r] = AfterFirst(todo[r])
      BY <1>1
    <3> QED  BY <1>2, <3>2, <3>3, <3>4 DEF Pending
  <2> QED  BY <1>1, <2>1, <2>2, <2>3 DEF MemoryInv, TablesRight, Accounted
<1>9. ASSUME NEW m \in Models, (model_states[m].status = "ready")'
      PROVE  HoldsPlan(model_states[m].by)'
  <2> DEFINE p == model_states[m].by
  <2>1. /\ p \in Requests /\ HoldsPlan(p) /\ load[p].model = m
        /\ m # c.model
    BY <1>1, <1>6, <1>9 DEF MemoryInv, TablesRight, EvidenceInv, EntryEvidence
  <2>2. PlanNodes(load[p].plan) \subseteq Nodes
    BY <2>1, LoadFacts
  <2>3. \A w \in Nodes : models'[w][m] = models[w][m]
    BY <1>5, <2>1
  <2>4. load' = load /\ model_states' = model_states
    BY <1>1
  <2> QED  BY <2>1, <2>2, <2>3, <2>4 DEF HoldsPlan, Holds
<1>10. ASSUME NEW q \in Requests PROVE HandlerRight(q)'
  <2>1. HandlerRight(q)
    BY DEF MemoryInv, TablesRight
  <2>2. CallsOf(todo'[q]) \subseteq CallsOf(todo[q])
    BY <1>1, <1>2
  <2>3. todo'[q] # <<>> => todo[q] # <<>>
    BY <1>1
  <2>4. UNCHANGED <<model_states, req>>
    BY <1>1
  <2> QED  BY <2>1, <2>2, <2>3, <2>4 DEF HandlerRight, Deciding
<1> QED  BY <1>7, <1>8, <1>9, <1>10 DEF MemoryInv, TablesRight

\* The handler r turns to its load: it writes the entry of its model, which
\* was neither loading nor ready, and nothing is left to unload.
LEMMA MemoryDecides ==
  ASSUME EvidenceInv, SequentialInv, TypeOK, MemoryInv,
         NEW r \in Requests, Deciding(r), todo[r] = <<>>, load[r].pc = "none",
         UNCHANGED <<workerVars, todo, waiter, slots, fired>>,
         \A q \in Requests \ {r} : load'[q] = load[q] /\ req'[q] = req[q],
         load'[r] = load[r] \/ load'[r].pc \in {"none", "store"},
         \A i, j \in DOMAIN load'[r].plan :
           load'[r].plan[i].node = load'[r].plan[j].node => i = j,
         \A k \in Models \ {req[r].model} : model_states'[k] = model_states[k],
         model_states'[req[r].model].status # "ready",
         \/ req'[r].pc = "done"
         \/ /\ req'[r].pc = "publish" /\ req'[r].model = req[r].model
            /\ UNCHANGED model_states
  PROVE  MemoryInv'
<1> DEFINE m == req[r].model
<1>0. model_states[m].status \notin {"loading", "ready"} /\ HandlerActive(r)
  BY DEF MemoryInv, TablesRight, HandlerRight, Deciding, HandlerActive
<1>1. LoadsRight'
  <2>1. load'[r] = load[r] \/ LoadTurns(r)
    BY DEF LoadTurns
  <2> QED  BY <2>1, LoadsFrame DEF MemoryInv, workerVars
<1>2. \A q \in Requests : Sent(q) \subseteq Sent(q)'
  BY DEF Sent
<1>3. \A w, k : ~Pending(w, k)
  BY <1>0, OnlyHandler, NoCalls DEF MemoryInv
<1>4. ASSUME NEW k \in Models, model_states[k].status = "ready"
      PROVE  /\ model_states'[k] = model_states[k]
             /\ model_states[k].by \in Requests
             /\ load'[model_states[k].by] = load[model_states[k].by]
             /\ HoldsPlan(model_states[k].by)
  <2>1. model_states[k].by \in Requests /\ load[model_states[k].by].pc # "none"
    BY <1>4 DEF EvidenceInv, EntryEvidence
  <2> QED  BY <1>0, <1>4, <2>1 DEF MemoryInv, TablesRight
<1>5. ASSUME NEW w \in Nodes, NEW k \in Models PROVE Accounted(w, k)'
  <2> SUFFICES ASSUME Worker!Resident(w, k)'
               PROVE  \/ \E q \in Requests : load'[q].model = k /\ w \in Sent(q)'
                      \/ /\ model_states'[k].status = "ready"
                         /\ w \in PlanNodes(load'[model_states'[k].by].plan)
    BY DEF Accounted
  <2>1. Worker!Resident(w, k)
    BY DEF Worker!Resident, workerVars
  <2>2. \/ \E q \in Requests : load[q].model = k /\ w \in Sent(q)
        \/ /\ model_states[k].status = "ready"
           /\ w \in PlanNodes(load[model_states[k].by].plan)
    BY <1>3, <2>1 DEF MemoryInv, TablesRight, Accounted
  <2>3. CASE \E q \in Requests : load[q].model = k /\ w \in Sent(q)
    <3>1. PICK q \in Requests : load[q].model = k /\ w \in Sent(q)
      BY <2>3
    <3>2. q # r
      BY <3>1, SentFacts DEF LoadActive
    <3> QED  BY <1>2, <3>1, <3>2
  <2> QED  BY <1>4, <2>2, <2>3
<1>6. ASSUME NEW k \in Models, (model_states[k].status = "ready")'
      PROVE  HoldsPlan(model_states[k].by)'
  <2>1. model_states[k].status = "ready"
    BY <1>6
  <2> QED  BY <1>4, <2>1 DEF HoldsPlan, Holds, workerVars
<1>7. ASSUME NEW q \in Requests PROVE HandlerRight(q)'
  <2>1. todo'[q] = <<>> /\ CallsOf(todo'[q]) = {}
    BY <1>0, OnlyHandler, NoCalls DEF MemoryInv
  <2>2. CASE q = r
    BY <1>0, <2>1, <2>2 DEF HandlerRight, Deciding
  <2>3. CASE q # r
    <3>1. req'[q].pc \in {"free", "done"}
      BY <1>0, <2>3, OnlyHandler DEF MemoryInv
    <3> QED  BY <2>1, <3>1 DEF HandlerRight, Deciding
  <2> QED  BY <2>2, <2>3
<1> QED  BY <1>1, <1>5, <1>6, <1>7 DEF MemoryInv, TablesRight

LEMMA MemoryPlan ==
  ASSUME EvidenceInv, SequentialInv, TypeOK, MemoryInv, NEW r \in Requests, Plan(r)
  PROVE  MemoryInv'
<1> DEFINE m == req[r].model
<1>1. /\ req[r].pc = "plan" /\ m \in Models /\ load[r].pc = "none"
      /\ req \in [Requests -> Request] /\ load \in [Requests -> LoadThread]
      /\ model_states \in [Models -> Entry]
      /\ UNCHANGED <<workerVars, todo, waiter, slots, fired>>
  BY PacedFacts DEF Plan, storeVars
<1>2. /\ Deciding(r) /\ todo[r] = <<>>
      /\ model_states[m].status \notin {"loading", "ready"}
  BY <1>1 DEF Deciding, MemoryInv, TablesRight, HandlerRight
<1>3. PICK nodes \in ListAvailable :
        IF DispatchError(LayersOf[m], nodes)
        THEN /\ model_states' = [model_states EXCEPT
                  ![m] = [status |-> "error", by |-> NoRequest]]
             /\ req' = [req EXCEPT ![r].pc = "done"]
             /\ UNCHANGED load
        ELSE /\ req' = [req EXCEPT ![r].pc = "publish"]
             /\ load' = [load EXCEPT ![r].model = m,
                  ![r].plan = PlanDispatch(LayersOf[m], nodes)]
             /\ UNCHANGED model_states
  BY DEF Plan
<1>4. CASE DispatchError(LayersOf[m], nodes)
  <2>1. /\ model_states' = [model_states EXCEPT ![m] = [status |-> "error", by |-> NoRequest]]
        /\ req' = [req EXCEPT ![r].pc = "done"] /\ UNCHANGED load
    BY <1>3, <1>4
  <2>2. /\ \A k \in Models \ {m} : model_states'[k] = model_states[k]
        /\ model_states'[m].status # "ready" /\ req'[r].pc = "done"
        /\ \A q \in Requests \ {r} : load'[q] = load[q] /\ req'[q] = req[q]
        /\ load'[r] = load[r]
    BY <1>1, <2>1
  <2>3. \A i, j \in DOMAIN load'[r].plan :
          load'[r].plan[i].node = load'[r].plan[j].node => i = j
    BY <2>2 DEF MemoryInv, LoadsRight, OnePerNode
  <2> QED  BY <1>1, <1>2, <2>2, <2>3, MemoryDecides
<1>5. CASE ~DispatchError(LayersOf[m], nodes)
  <2> DEFINE plan == PlanDispatch(LayersOf[m], nodes)
  <2>1. /\ req' = [req EXCEPT ![r].pc = "publish"] /\ UNCHANGED model_states
        /\ load' = [load EXCEPT ![r].model = m, ![r].plan = plan]
    BY <1>3, <1>5
  <2>2. \A i, j \in DOMAIN plan : plan[i].node = plan[j].node => i = j
    <3>1. nodes \in [1..Cardinality(available) -> available]
      BY DEF ListAvailable
    <3>2. Cardinality(available) \in Nat /\ available \subseteq Nodes
      BY NodesAssumption, FS_Subset, FS_CardinalityType DEF EvidenceInv, OrchestratorTypes
    <3>3. Len(nodes) = Cardinality(available) /\ nodes \in Seq(available)
      BY <3>1, <3>2
    <3>4. DOMAIN plan = 1..Cardinality(available)
          /\ \A i \in DOMAIN plan : plan[i].node = nodes[i]
      BY <1>5, <3>3 DEF PlanDispatch, ShardAssignment
    <3>5. ASSUME NEW i \in DOMAIN nodes, NEW j \in DOMAIN nodes, i < j
          PROVE  nodes[i] # nodes[j]
      <4>1. PICK a \in DOMAIN NodeOrder, b \in DOMAIN NodeOrder :
              a < b /\ NodeOrder[a] = nodes[i] /\ NodeOrder[b] = nodes[j]
        BY <3>5 DEF ListAvailable
      <4>2. a \in Int /\ b \in Int
        BY NodesAssumption
      <4>3. a # b
        BY <4>1, <4>2
      <4> QED  BY <4>1, <4>3, NodesAssumption
    <3>6. DOMAIN nodes = 1..Cardinality(available)
      BY <3>1
    <3> HIDE DEF plan
    <3> SUFFICES ASSUME NEW i \in DOMAIN plan, NEW j \in DOMAIN plan,
                        plan[i].node = plan[j].node
                 PROVE  i = j
      OBVIOUS
    <3>7. i \in DOMAIN nodes /\ j \in DOMAIN nodes /\ i \in Int /\ j \in Int
          /\ nodes[i] = nodes[j]
      BY <3>4, <3>6
    <3>8. ~(i < j) /\ ~(j < i)
      BY <3>5, <3>7
    <3> QED  BY <3>7, <3>8
  <2> HIDE DEF plan
  <2>3. /\ load'[r].pc = "none" /\ load'[r].plan = plan
        /\ \A q \in Requests \ {r} : load'[q] = load[q] /\ req'[q] = req[q]
        /\ req'[r].pc = "publish" /\ req'[r].model = m
    BY <1>1, <2>1 DEF LoadThread, Request
  <2> QED  BY <1>1, <1>2, <2>1, <2>2, <2>3, MemoryDecides
<1> QED  BY <1>4, <1>5

LEMMA MemoryPublish ==
  ASSUME EvidenceInv, SequentialInv, TypeOK, MemoryInv, NEW r \in Requests, Publish(r)
  PROVE  MemoryInv'
<1> DEFINE m == req[r].model
<1>1. /\ req[r].pc = "publish" /\ m \in Models /\ load[r].pc = "none"
      /\ req \in [Requests -> Request] /\ load \in [Requests -> LoadThread]
      /\ model_states \in [Models -> Entry]
      /\ UNCHANGED <<workerVars, todo, waiter, slots, fired>>
      /\ model_states' = [model_states EXCEPT ![m] = [status |-> "loading", by |-> r]]
      /\ load' = [load EXCEPT ![r].pc = "store"]
      /\ req' = [req EXCEPT ![r].pc = "done"]
  BY PacedFacts DEF Publish, storeVars
<1>2. Deciding(r) /\ todo[r] = <<>>
  BY <1>1 DEF Deciding, MemoryInv, TablesRight, HandlerRight
<1>3. /\ \A k \in Models \ {m} : model_states'[k] = model_states[k]
      /\ model_states'[m].status # "ready" /\ req'[r].pc = "done"
      /\ \A q \in Requests \ {r} : load'[q] = load[q] /\ req'[q] = req[q]
      /\ load'[r].pc = "store" /\ load'[r].plan = load[r].plan
  BY <1>1 DEF LoadThread, Request
<1>4. \A i, j \in DOMAIN load'[r].plan :
        load'[r].plan[i].node = load'[r].plan[j].node => i = j
  BY <1>3 DEF MemoryInv, LoadsRight, OnePerNode
<1> QED  BY <1>1, <1>2, <1>3, <1>4, MemoryDecides

\* The outcome of a load: ready with all its shards in place, or an error
\* before any was sent.
LEMMA MemoryWriteOutcome ==
  ASSUME EvidenceInv, SequentialInv, TypeOK, MemoryInv, NEW r \in Requests, WriteOutcome(r)
  PROVE  MemoryInv'
<1> DEFINE m == load[r].model
           e == [status |-> IF load[r].pc = "built" THEN "ready" ELSE "error", by |-> r]
<1>1. /\ load[r].pc \in {"built", "failed"}
      /\ load \in [Requests -> LoadThread] /\ model_states \in [Models -> Entry]
      /\ model_states' = [model_states EXCEPT ![m] = e]
      /\ load' = [load EXCEPT ![r].pc = "done"]
      /\ UNCHANGED <<workerVars, req, todo, waiter, slots, fired>>
  BY LoadFacts DEF WriteOutcome, handlerVars, storeVars
<1>2. LoadActive(r)
  BY <1>1 DEF LoadActive
<1>3. m \in Models /\ model_states[m] = [status |-> "loading", by |-> r]
  BY <1>2, LoadFacts
<1>4. /\ \A k \in Models \ {m} : model_states'[k] = model_states[k]
      /\ model_states'[m] = e /\ model_states[m].status = "loading"
      /\ \A q \in Requests \ {r} : load'[q] = load[q]
      /\ \A q \in Requests : load'[q].model = load[q].model /\ load'[q].plan = load[q].plan
      /\ load'[r].pc = "done"
  BY <1>1, <1>3 DEF LoadThread
<1>5. LoadsRight'
  <2>1. LoadTurns(r)
    BY <1>1, <1>4 DEF LoadTurns, MemoryInv, LoadsRight, OnePerNode
  <2> QED  BY <1>1, <1>4, <2>1, LoadsFrame DEF MemoryInv, workerVars
<1>6. /\ \A q \in Requests \ {r} : Sent(q)' = Sent(q)
      /\ \A q \in Requests : HoldsPlan(q)' <=> HoldsPlan(q)
      /\ \A w, k : Pending(w, k)' <=> Pending(w, k)
      /\ \A w, k : Worker!Resident(w, k)' <=> Worker!Resident(w, k)
  BY <1>1, <1>4 DEF Sent, HoldsPlan, Holds, Pending, Worker!Resident, workerVars
<1> HIDE DEF m, e
<1>7. ASSUME NEW w \in Nodes, NEW k \in Models PROVE Accounted(w, k)'
  <2> SUFFICES ASSUME Worker!Resident(w, k)'
               PROVE  \/ \E q \in Requests : load'[q].model = k /\ w \in Sent(q)'
                      \/ /\ model_states'[k].status = "ready"
                         /\ w \in PlanNodes(load'[model_states'[k].by].plan)
                      \/ Pending(w, k)'
    BY DEF Accounted
  <2>1. \/ \E q \in Requests : load[q].model = k /\ w \in Sent(q)
        \/ /\ model_states[k].status = "ready"
           /\ w \in PlanNodes(load[model_states[k].by].plan)
        \/ Pending(w, k)
    BY <1>6 DEF MemoryInv, TablesRight, Accounted
  <2>2. CASE \E q \in Requests \ {r} : load[q].model = k /\ w \in Sent(q)
    BY <1>4, <1>6, <2>2
  <2>3. CASE load[r].model = k /\ w \in Sent(r)
    <3>1. load[r].pc = "built" /\ w \in PlanNodes(load[r].plan)
      BY <1>1, <2>3, SentFacts
    <3>2. model_states'[k].status = "ready" /\ model_states'[k].by = r
      BY <1>4, <2>3, <3>1 DEF m, e
    <3> QED  BY <1>4, <3>1, <3>2
  <2>4. CASE /\ model_states[k].status = "ready"
             /\ w \in PlanNodes(load[model_states[k].by].plan)
    <3>1. k # m /\ model_states[k].by \in Requests
      BY <1>4, <2>4 DEF EvidenceInv, EntryEvidence
    <3> QED  BY <1>4, <2>4, <3>1
  <2>5. CASE Pending(w, k)
    BY <1>6, <2>5
  <2> QED  BY <2>1, <2>2, <2>3, <2>4, <2>5
<1>8. ASSUME NEW k \in Models, (model_states[k].status = "ready")'
      PROVE  HoldsPlan(model_states[k].by)'
  <2>1. CASE k = m
    <3>1. load[r].pc = "built" /\ (model_states[k].by)' = r
      BY <1>1, <1>4, <1>8, <2>1 DEF e
    <3>2. HoldsPlan(r)
      BY <3>1 DEF MemoryInv, LoadsRight
    <3>3. HoldsPlan(r)'
      BY <1>6, <3>2
    <3> QED  BY <3>1, <3>3 DEF HoldsPlan, Holds
  <2>2. CASE k # m
    <3> DEFINE p == model_states[k].by
    <3>1. p \in Requests /\ HoldsPlan(p) /\ p' = p
      BY <1>4, <1>8, <2>2 DEF MemoryInv, TablesRight, EvidenceInv, EntryEvidence
    <3>2. load'[p].plan = load[p].plan /\ load'[p].model = load[p].model
          /\ models' = models
      BY <1>1, <1>4, <3>1 DEF workerVars
    <3> QED  BY <3>1, <3>2 DEF HoldsPlan, Holds
  <2> QED  BY <2>1, <2>2
<1>9. ASSUME NEW q \in Requests PROVE HandlerRight(q)'
  <2>1. HandlerRight(q) /\ UNCHANGED <<req, todo>>
    BY <1>1 DEF MemoryInv, TablesRight
  <2>2. \A k \in Models : model_states[k].status = "none" => model_states'[k].status = "none"
    BY <1>4
  <2>3. \A c \in CallsOf(todo[q]) : c.model \in Models
    <3>1. todo[q] \in Sessions
      BY DEF TypeOK
    <3> QED  BY <3>1, CallTypes
  <2>4. Deciding(q) => req[q].model \in Models /\ req[q].model # m
    <3>1. Deciding(q) => req[q].pc # "free"
      BY DEF Deciding
    <3> QED  BY <1>2, <3>1, PacedFacts DEF SequentialInv, m
  <2>5. req[q].pc \in {"free_old", "check"} => req[q].model \in Models
    BY PacedFacts
  <2> QED  BY <1>4, <2>1, <2>2, <2>3, <2>4, <2>5 DEF HandlerRight, Deciding
<1> QED  BY <1>5, <1>7, <1>8, <1>9 DEF MemoryInv, TablesRight

-----------------------------------------------------------------------------
\* A thread works for the one load of its model.
LEMMA ThreadFacts ==
  ASSUME EvidenceInv, SequentialInv, TypeOK, LoadsRight, NEW w \in Nodes,
         NEW t \in threads[w]
  PROVE  /\ t \in Worker!Thread /\ t.call \in Requests /\ t.model \in Models
         /\ ThreadRight(w, t) /\ LoadActive(t.call)
         /\ \A q \in Requests : LoadActive(q) /\ load[q].model = t.model => q = t.call
<1>1. t \in Worker!Thread
  BY DEF TypeOK, Worker!TypeOK
<1>2. t.call \in Requests /\ t.model \in Models
  BY <1>1 DEF Worker!Thread
<1>3. ThreadRight(w, t)
  BY DEF LoadsRight
<1>4. LoadActive(t.call) /\ load[t.call].model = t.model
  BY <1>3 DEF ThreadRight, LoadActive
<1> QED  BY <1>1, <1>2, <1>3, <1>4, LoadFacts

\* No two threads of a worker work on the same model.
LEMMA OneThread ==
  ASSUME EvidenceInv, SequentialInv, TypeOK, WorkerTablesConsistent, LoadsRight,
         NEW w \in Nodes, NEW t \in threads[w], NEW u \in threads[w], t.model = u.model
  PROVE  t = u
<1>1. /\ t \in Worker!Thread /\ u \in Worker!Thread /\ t.model \in Models
      /\ ThreadRight(w, t) /\ ThreadRight(w, u) /\ t.call \in Requests
      /\ t.call = u.call
  <2>1. u.call \in Requests /\ LoadActive(u.call) /\ ThreadRight(w, u)
    BY ThreadFacts
  <2>2. load[u.call].model = t.model
    BY <2>1 DEF ThreadRight
  <2> QED  BY <2>1, <2>2, ThreadFacts
<1>2. t.shard = u.shard
  BY <1>1 DEF ThreadRight, LoadsRight, OnePerNode
<1>3. t.ok = u.ok
  <2>1. t.ok /\ u.ok
    BY <1>1 DEF ThreadRight
  <2>2. t.ok \in BOOLEAN /\ u.ok \in BOOLEAN
    BY <1>1 DEF Worker!Thread
  <2> QED  BY <2>1, <2>2
<1>4. ASSUME NEW x \in threads[w], NEW y \in threads[w], x.model = t.model,
             y.model = t.model, x.phase = "build", y.phase = "report"
      PROVE  FALSE
  <2>1. x \in Worker!Building(w, t.model)
    BY <1>4 DEF Worker!Building
  <2>2. ~Worker!Resident(w, t.model)
    BY <1>1, <2>1 DEF WorkerTablesConsistent, Worker!LoadingIsLock
  <2>3. y.shard \in Shard /\ models[w][t.model] = y.shard
    <3>1. y \in Worker!Thread /\ ThreadRight(w, y)
      BY ThreadFacts
    <3>2. y.shard \in Shard
      BY <3>1 DEF Worker!Thread
    <3> QED  BY <1>4, <3>1, <3>2 DEF ThreadRight
  <2> QED  BY <2>2, <2>3, HandleAssumption DEF Worker!Resident
<1>5. t.phase = u.phase
  BY <1>1, <1>4 DEF Worker!Thread
<1> QED  BY <1>1, <1>2, <1>3, <1>5 DEF Worker!Thread

\* Steps of a load that touch neither slots nor threads.
LEMMA MemoryTurns ==
  ASSUME EvidenceInv, SequentialInv, TypeOK, MemoryInv, NEW r \in Requests, LoadTurns(r),
         UNCHANGED <<workerVars, model_states, handlerVars, waiter, storeVars>>,
         \A q \in Requests \ {r} : load'[q] = load[q],
         load'[r].model = load[r].model, load'[r].plan = load[r].plan,
         load[r].pc \in {"tokenizer", "built"} => load'[r].pc \in {"tokenizer", "built"}
  PROVE  MemoryInv'
<1>1. LoadsRight'
  BY LoadsFrame DEF MemoryInv, workerVars, storeVars
<1>2. Sent(r) \subseteq Sent(r)'
  <2>1. CASE load[r].pc \in {"tokenizer", "built"}
    BY <2>1 DEF Sent
  <2>2. CASE load[r].pc \notin {"tokenizer", "built"}
    <3>1. Sent(r) = {}
      BY <2>2, SentFacts DEF LoadTurns
    <3> QED  BY <3>1
  <2> QED  BY <2>1, <2>2
<1>3. \A q \in Requests :
        /\ load'[q].model = load[q].model /\ load'[q].plan = load[q].plan
        /\ Sent(q) \subseteq Sent(q)'
  BY <1>2 DEF Sent
<1>4. TablesRight'
  BY <1>3, TablesFrame DEF MemoryInv, workerVars, handlerVars
<1> QED  BY <1>1, <1>4 DEF MemoryInv

LEMMA MemoryStoreLoad ==
  ASSUME EvidenceInv, SequentialInv, TypeOK, MemoryInv, NEW r \in Requests, StoreLoad(r)
  PROVE  MemoryInv'
<1>1. /\ load[r].pc = "store" /\ load[r].i = 1 /\ load \in [Requests -> LoadThread]
      /\ UNCHANGED <<workerVars, model_states, handlerVars, waiter, storeVars>>
      /\ \/ load' = [load EXCEPT ![r].pc = "create"]
         \/ load' = [load EXCEPT ![r].pc = "failed"]
  BY LoadFacts DEF StoreLoad, EvidenceInv, Phases
<1>2. /\ \A q \in Requests \ {r} : load'[q] = load[q]
      /\ load'[r].model = load[r].model /\ load'[r].plan = load[r].plan
      /\ load'[r].i = 1 /\ load'[r].pc \in {"create", "failed"}
  BY <1>1 DEF LoadThread
<1>3. LoadTurns(r)
  BY <1>1, <1>2 DEF LoadTurns, MemoryInv, LoadsRight, OnePerNode
<1> QED  BY <1>1, <1>2, <1>3, MemoryTurns

LEMMA MemoryLoadTokenizer ==
  ASSUME EvidenceInv, SequentialInv, TypeOK, MemoryInv, Benign,
         NEW r \in Requests, LoadTokenizer(r)
  PROVE  MemoryInv'
<1>0. ~Fault("tokenizer_fails")
  BY DEF Benign, Fault
<1>1. /\ load[r].pc = "tokenizer" /\ load \in [Requests -> LoadThread]
      /\ UNCHANGED <<workerVars, model_states, handlerVars, waiter, storeVars>>
      /\ load' = [load EXCEPT ![r].pc = "built"]
  BY <1>0, LoadFacts DEF LoadTokenizer
<1>2. /\ \A q \in Requests \ {r} : load'[q] = load[q]
      /\ load'[r].model = load[r].model /\ load'[r].plan = load[r].plan
      /\ load'[r].pc = "built"
  BY <1>1 DEF LoadThread
<1>3. LoadTurns(r)
  BY <1>1, <1>2 DEF LoadTurns, MemoryInv, LoadsRight, OnePerNode
<1> QED  BY <1>1, <1>2, <1>3, MemoryTurns

\* All waiters have their results, and a waiter that has one has no thread.
LEMMA MemoryCollectAll ==
  ASSUME EvidenceInv, SequentialInv, TypeOK, MemoryInv, NEW r \in Requests, CollectAll(r)
  PROVE  MemoryInv'
<1>1. /\ load[r].pc = "wait" /\ load \in [Requests -> LoadThread] /\ LoadActive(r)
      /\ \A w \in PlanNodes(load[r].plan) : waiter[r][w].pc = "ok"
      /\ load' = [load EXCEPT ![r].pc = "tokenizer"]
      /\ UNCHANGED <<workerVars, model_states, handlerVars, waiter, storeVars>>
      /\ PlanNodes(load[r].plan) \subseteq Nodes
  BY LoadFacts DEF CollectAll, LoadActive
<1>2. /\ \A q \in Requests \ {r} : load'[q] = load[q]
      /\ \A q \in Requests : load'[q].model = load[q].model /\ load'[q].plan = load[q].plan
      /\ load'[r].pc = "tokenizer"
  BY <1>1 DEF LoadThread
<1>3. /\ \A q \in Requests \ {r} : Sent(q)' = Sent(q) /\ Created(q)' = Created(q)
      /\ Sent(r)' = Sent(r) /\ Created(r)' = {}
      /\ \A q \in Requests, w \in Nodes : Holds(w, q)' <=> Holds(w, q)
      /\ UNCHANGED <<up, threads, models, slots, fired, waiter>>
  BY <1>1, <1>2 DEF Sent, Created, Holds, workerVars, storeVars
<1>4. ASSUME NEW w \in Nodes, NEW t \in threads[w] PROVE ThreadRight(w, t)'
  <2>1. ThreadRight(w, t) /\ t.call \in Requests
    BY ThreadFacts DEF MemoryInv
  <2>2. t.call # r
    BY <1>1, <2>1, SentFacts DEF ThreadRight
  <2>3. load'[t.call] = load[t.call] /\ Sent(t.call)' = Sent(t.call)
    BY <1>2, <1>3, <2>1, <2>2
  <2> QED  BY <1>3, <2>1, <2>3 DEF ThreadRight
<1>5. ASSUME NEW q \in Requests, NEW w \in Nodes
      PROVE  SlotRight(q, w)' /\ WaiterRight(q, w)'
  <2>1. SlotRight(q, w) /\ WaiterRight(q, w)
    BY DEF MemoryInv, LoadsRight
  <2>2. CASE q # r
    <3>1. load'[q] = load[q] /\ Created(q)' = Created(q)
      BY <1>2, <1>3, <2>2
    <3>2. SlotRight(q, w)'
      BY <1>3, <2>1, <3>1 DEF SlotRight
    <3>3. WaiterRight(q, w)'
      BY <1>3, <2>1, <3>1 DEF WaiterRight
    <3> QED  BY <3>2, <3>3
  <2>3. CASE q = r
    <3>1. SlotRight(r, w)'
      BY <1>3 DEF SlotRight
    <3>2. waiter[r][w].pc \notin {"start", "blocked"}
      BY <1>1 DEF EvidenceInv, Phases
    <3>3. WaiterRight(r, w)'
      BY <1>2, <1>3, <2>1, <2>3, <3>2 DEF WaiterRight
    <3> QED  BY <2>3, <3>1, <3>3
  <2> QED  BY <2>2, <2>3
<1>6. ASSUME NEW q \in Requests, load'[q].pc \in {"tokenizer", "built"}
      PROVE  HoldsPlan(q)'
  <2>1. \A w \in PlanNodes(load[q].plan) : Holds(w, q)
    <3>1. CASE q = r
      BY <1>1, <3>1 DEF MemoryInv, LoadsRight, WaiterRight
    <3>2. CASE q # r
      BY <1>2, <1>6, <3>2 DEF MemoryInv, LoadsRight, HoldsPlan
    <3> QED  BY <3>1, <3>2
  <2>2. PlanNodes(load[q].plan) \subseteq Nodes /\ load'[q].plan = load[q].plan
    BY <1>2, LoadFacts
  <2> QED  BY <1>3, <2>1, <2>2 DEF HoldsPlan
<1>7. LoadsRight'
  <2>1. OnePerNode'
    BY <1>2 DEF MemoryInv, LoadsRight, OnePerNode
  <2> QED  BY <1>3, <1>4, <1>5, <1>6, <2>1 DEF MemoryInv, LoadsRight
<1>8. TablesRight'
  BY <1>1, <1>2, <1>3, TablesFrame DEF MemoryInv, handlerVars
<1> QED  BY <1>7, <1>8 DEF MemoryInv

\* A fresh slot for a load that has sent nothing yet.
LEMMA MemoryCreateSlot ==
  ASSUME EvidenceInv, SequentialInv, TypeOK, MemoryInv, NEW r \in Requests, CreateSlot(r)
  PROVE  MemoryInv'
<1> DEFINE w0 == Current(r).node
           m == load[r].model
           new == [event |-> r, result |-> "none"]
<1>1. /\ load[r].pc = "create" /\ Advance(r, "dispatch")
      /\ slots' = [slots EXCEPT ![m][w0] = new]
      /\ UNCHANGED <<workerVars, model_states, handlerVars, waiter, fired>>
      /\ LoadActive(r)
  BY DEF CreateSlot, LoadActive
<1>2. /\ load[r].i \in 1..Len(load[r].plan) /\ load[r].plan \in Seq(Shard)
      /\ load' = [load EXCEPT ![r] = load'[r]]
      /\ load'[r].model = m /\ load'[r].plan = load[r].plan
      /\ load[r].i = Len(load[r].plan) => load'[r].pc = "dispatch" /\ load'[r].i = 1
      /\ load[r].i # Len(load[r].plan) =>
           load'[r].pc = "create" /\ load'[r].i = load[r].i + 1
  BY <1>1, AdvanceIs
<1>3. /\ m \in Models /\ load \in [Requests -> LoadThread]
      /\ slots \in [Models -> [Nodes -> Slot \cup {NoSlot}]]
  BY <1>1, LoadFacts DEF EvidenceInv, OrchestratorTypes
<1>4. w0 \in Nodes
  <2>1. load[r].plan[load[r].i] \in Shard
    BY <1>2
  <2> QED  BY <2>1 DEF Current, Shard, Assignments
<1>5. /\ \A q \in Requests \ {r} : load'[q] = load[q]
      /\ \A q \in Requests : load'[q].model = load[q].model /\ load'[q].plan = load[q].plan
      /\ load'[r].pc \in {"create", "dispatch"}
  BY <1>2, <1>3
<1>6. new \in Slot /\ new # NoSlot /\ new.event = r /\ new.result = "none"
  BY SlotAssumption DEF Slot
<1>7. /\ slots'[m][w0] = new
      /\ \A k \in Models, v \in Nodes : k # m \/ v # w0 => slots'[k][v] = slots[k][v]
  BY <1>1, <1>3, <1>4
<1>8. Sent(r) = {} /\ \A v : v \in Created(r)' => v \in Created(r) \/ v = w0
  <2> DEFINE plan == load[r].plan
             i == load[r].i
  <2>1. Created(r) = {plan[j].node : j \in 1..(i - 1)} /\ Sent(r) = {}
    BY <1>1, SentFacts DEF Created
  <2>2. i \in Nat /\ Len(plan) \in Nat /\ w0 = plan[i].node
    BY <1>2 DEF Current
  <2>3. Created(r)' = {plan[j].node : j \in 1..i}
    <3>1. CASE i = Len(plan)
      BY <1>2, <3>1 DEF Created
    <3>2. CASE i # Len(plan)
      <4>1. load'[r].i - 1 = i /\ load'[r].pc = "create" /\ load'[r].plan = plan
        BY <1>2, <2>2, <3>2
      <4> QED  BY <4>1 DEF Created
    <3> QED  BY <3>1, <3>2
  <2>4. \A j \in 1..i : j \in 1..(i - 1) \/ j = i
    BY <2>2
  <2> QED  BY <2>1, <2>2, <2>3, <2>4
<1> HIDE DEF w0, m, new
<1>9. /\ \A q \in Requests \ {r} : Sent(q)' = Sent(q) /\ Created(q)' = Created(q)
      /\ \A q \in Requests, w \in Nodes : Holds(w, q)' <=> Holds(w, q)
      /\ UNCHANGED <<up, threads, models, fired, waiter>>
  BY <1>1, <1>5 DEF Sent, Created, Holds, workerVars
<1>10. ASSUME NEW w \in Nodes, NEW t \in threads[w] PROVE ThreadRight(w, t)'
  <2>1. /\ ThreadRight(w, t) /\ t.call \in Requests /\ t.model \in Models
        /\ \A q \in Requests : LoadActive(q) /\ load[q].model = t.model => q = t.call
    BY ThreadFacts DEF MemoryInv
  <2>2. t.call # r
    BY <1>1, <2>1 DEF ThreadRight
  <2>3. t.model # m
    BY <1>1, <2>1, <2>2 DEF m
  <2>4. /\ load'[t.call] = load[t.call] /\ Sent(t.call)' = Sent(t.call)
        /\ slots'[t.model][w] = slots[t.model][w]
    BY <1>5, <1>7, <1>9, <2>1, <2>2, <2>3
  <2> QED  BY <1>9, <2>1, <2>4 DEF ThreadRight
<1>11. ASSUME NEW q \in Requests, NEW w \in Nodes
       PROVE  SlotRight(q, w)' /\ WaiterRight(q, w)'
  <2>1. SlotRight(q, w) /\ WaiterRight(q, w)
    BY DEF MemoryInv, LoadsRight
  <2>2. CASE q # r
    <3>1. load'[q] = load[q] /\ Created(q)' = Created(q)
      BY <1>5, <1>9, <2>2
    <3>2. w \in Created(q) => slots'[load[q].model][w] = slots[load[q].model][w]
      <4>1. w \in Created(q) => load[q].model \in Models /\ load[q].model # m
        BY <1>1, <2>2, SentFacts, LoadFacts DEF m
      <4> QED  BY <1>7, <4>1
    <3>3. SlotRight(q, w)'
      BY <1>9, <2>1, <3>1, <3>2 DEF SlotRight
    <3>4. WaiterRight(q, w)'
      BY <1>9, <2>1, <3>1 DEF WaiterRight
    <3> QED  BY <3>3, <3>4
  <2>3. CASE q = r
    <3>1. waiter[r][w].pc \notin {"start", "blocked"} /\ <<r, w>> \notin fired
      BY <1>1, <2>1, <2>3 DEF WaiterRight
    <3>2. SlotRight(r, w)'
      <4>1. CASE w = w0
        BY <1>5, <1>6, <1>7, <1>9, <3>1, <4>1 DEF SlotRight, m
      <4>2. CASE w # w0
        <5>1. w \in Created(r)' => w \in Created(r)
          BY <1>8, <4>2
        <5>2. slots'[load'[r].model][w] = slots[load[r].model][w]
          BY <1>3, <1>5, <1>7, <4>2 DEF m
        <5> QED  BY <1>9, <2>1, <2>3, <3>1, <5>1, <5>2 DEF SlotRight
      <4> QED  BY <4>1, <4>2
    <3>3. WaiterRight(r, w)'
      BY <1>5, <1>9, <2>1, <2>3, <3>1 DEF WaiterRight
    <3> QED  BY <2>3, <3>2, <3>3
  <2> QED  BY <2>2, <2>3
<1>12. LoadsRight'
  <2>1. OnePerNode'
    BY <1>5 DEF MemoryInv, LoadsRight, OnePerNode
  <2>2. ASSUME NEW q \in Requests, load'[q].pc \in {"tokenizer", "built"}
        PROVE  HoldsPlan(q)'
    <3>1. q # r /\ HoldsPlan(q) /\ PlanNodes(load[q].plan) \subseteq Nodes
      BY <1>5, <2>2, LoadFacts DEF MemoryInv, LoadsRight
    <3> QED  BY <1>5, <1>9, <3>1 DEF HoldsPlan
  <2> QED  BY <1>9, <1>10, <1>11, <2>1, <2>2 DEF MemoryInv, LoadsRight
<1>13. TablesRight'
  <2>1. \A q \in Requests : Sent(q) \subseteq Sent(q)'
    BY <1>8, <1>9
  <2> QED  BY <1>1, <1>5, <2>1, TablesFrame DEF MemoryInv, handlerVars, workerVars
<1> QED  BY <1>12, <1>13 DEF MemoryInv

\* A waiter finds the slot of its own load ...
LEMMA MemoryWaiterStart ==
  ASSUME EvidenceInv, SequentialInv, TypeOK, MemoryInv,
         NEW r \in Requests, NEW w0 \in Nodes, WaiterStart(r, w0)
  PROVE  MemoryInv'
<1> DEFINE slot == slots[load[r].model][w0]
           new == [pc |-> "blocked", event |-> r]
<1>1. /\ waiter[r][w0].pc = "start" /\ load[r].pc = "wait"
      /\ UNCHANGED <<workerVars, model_states, handlerVars, load, storeVars>>
      /\ waiter \in [Requests -> [Nodes -> Waiter]]
  BY DEF WaiterStart, MemoryInv, LoadsRight, WaiterRight, EvidenceInv, OrchestratorTypes
<1>2. w0 \in Created(r)
  <2>1. w0 \in PlanNodes(load[r].plan)
    BY <1>1 DEF EvidenceInv, Phases
  <2>2. DOMAIN load[r].plan = 1..Len(load[r].plan)
    BY LoadFacts
  <2> QED  BY <1>1, <2>1, <2>2 DEF Created, PlanNodes
<1>3. slot # NoSlot /\ slot.event = r
  <2>1. SlotRight(r, w0) /\ waiter[r][w0].pc # "ok"
    BY <1>1 DEF MemoryInv, LoadsRight
  <2> QED  BY <1>2, <2>1 DEF SlotRight
<1>4. waiter' = [waiter EXCEPT ![r][w0] = new]
  BY <1>3 DEF WaiterStart
<1>5. /\ waiter'[r][w0] = new /\ new.pc = "blocked" /\ new.event = r
      /\ \A q \in Requests, w \in Nodes : q # r \/ w # w0 => waiter'[q][w] = waiter[q][w]
  BY <1>1, <1>4
<1> HIDE DEF new, slot
<1>6. /\ \A q \in Requests, w \in Nodes : Holds(w, q)' <=> Holds(w, q)
      /\ \A q \in Requests : /\ Sent(q)' = Sent(q) /\ Created(q)' = Created(q)
                             /\ HoldsPlan(q)' <=> HoldsPlan(q)
      /\ UNCHANGED <<up, threads, models, slots, fired, load>>
      /\ \A q \in Requests, w \in Nodes : waiter'[q][w].pc = "ok" <=> waiter[q][w].pc = "ok"
  BY <1>1, <1>5 DEF Holds, HoldsPlan, Sent, Created, workerVars, storeVars
<1>7. ASSUME NEW w \in Nodes, NEW t \in threads[w] PROVE ThreadRight(w, t)'
  <2>1. ThreadRight(w, t) /\ t.call \in Requests
    BY ThreadFacts DEF MemoryInv
  <2> QED  BY <1>6, <2>1 DEF ThreadRight
<1>8. ASSUME NEW q \in Requests, NEW w \in Nodes
      PROVE  SlotRight(q, w)' /\ WaiterRight(q, w)'
  <2>1. SlotRight(q, w) /\ WaiterRight(q, w)
    BY DEF MemoryInv, LoadsRight
  <2>2. SlotRight(q, w)'
    BY <1>6, <2>1 DEF SlotRight
  <2>3. WaiterRight(q, w)'
    <3>1. CASE q = r /\ w = w0
      BY <1>1, <1>5, <1>6, <2>1, <3>1 DEF WaiterRight
    <3>2. CASE q # r \/ w # w0
      BY <1>5, <1>6, <2>1, <3>2 DEF WaiterRight
    <3> QED  BY <3>1, <3>2
  <2> QED  BY <2>2, <2>3
<1>9. LoadsRight'
  BY <1>6, <1>7, <1>8 DEF MemoryInv, LoadsRight, OnePerNode
<1>10. TablesRight'
  BY <1>1, <1>6, TablesFrame DEF MemoryInv, handlerVars
<1> QED  BY <1>9, <1>10 DEF MemoryInv

\* ... and pops it with a success in it.
LEMMA MemoryWaiterPop ==
  ASSUME EvidenceInv, SequentialInv, TypeOK, MemoryInv,
         NEW r \in Requests, NEW w0 \in Nodes, WaiterPop(r, w0)
  PROVE  MemoryInv'
<1> DEFINE m == load[r].model
           slot == slots[m][w0]
           new == [NoWaiter EXCEPT !.pc = "ok"]
<1>1. /\ waiter[r][w0].pc = "blocked" /\ load[r].pc = "wait" /\ waiter[r][w0].event = r
      /\ <<r, w0>> \in fired /\ LoadActive(r)
      /\ UNCHANGED <<workerVars, model_states, handlerVars, load, fired>>
      /\ waiter \in [Requests -> [Nodes -> Waiter]]
      /\ slots \in [Models -> [Nodes -> Slot \cup {NoSlot}]]
      /\ slots' = [slots EXCEPT ![m][w0] = NoSlot]
  BY DEF WaiterPop, MemoryInv, LoadsRight, WaiterRight, EvidenceInv, OrchestratorTypes,
         LoadActive
<1>2. w0 \in Created(r)
  <2>1. w0 \in PlanNodes(load[r].plan)
    BY <1>1 DEF EvidenceInv, Phases
  <2>2. DOMAIN load[r].plan = 1..Len(load[r].plan)
    BY LoadFacts
  <2> QED  BY <1>1, <2>1, <2>2 DEF Created, PlanNodes
<1>3. slot # NoSlot /\ slot.result = "ok" /\ Holds(w0, r)
  BY <1>1, <1>2 DEF MemoryInv, LoadsRight, SlotRight
<1>4. waiter' = [waiter EXCEPT ![r][w0] = new]
  BY <1>3 DEF WaiterPop
<1>5. m \in Models
  BY <1>1, LoadFacts
<1>6. /\ waiter'[r][w0] = new /\ new.pc = "ok"
      /\ \A q \in Requests, w \in Nodes : q # r \/ w # w0 => waiter'[q][w] = waiter[q][w]
      /\ \A k \in Models, w \in Nodes : k # m \/ w # w0 => slots'[k][w] = slots[k][w]
  BY <1>1, <1>4, <1>5 DEF NoWaiter
<1> HIDE DEF new, m, slot
<1>7. /\ \A q \in Requests, w \in Nodes : Holds(w, q)' <=> Holds(w, q)
      /\ \A q \in Requests : /\ Sent(q)' = Sent(q) /\ Created(q)' = Created(q)
                             /\ HoldsPlan(q)' <=> HoldsPlan(q)
      /\ UNCHANGED <<up, threads, models, fired, load>>
  BY <1>1 DEF Holds, HoldsPlan, Sent, Created, workerVars
<1>8. ASSUME NEW w \in Nodes, NEW t \in threads[w] PROVE ThreadRight(w, t)'
  <2>1. /\ ThreadRight(w, t) /\ t.call \in Requests /\ t.model \in Models
        /\ \A q \in Requests : LoadActive(q) /\ load[q].model = t.model => q = t.call
    BY ThreadFacts DEF MemoryInv
  <2>2. ~(t.model = m /\ w = w0)
    BY <1>3, <2>1 DEF ThreadRight, slot
  <2>3. slots'[t.model][w] = slots[t.model][w]
    BY <1>6, <2>1, <2>2
  <2>4. ~(t.call = r /\ w = w0)
    BY <2>1, <2>2 DEF ThreadRight, m
  <2>5. waiter'[t.call][w] = waiter[t.call][w]
    BY <1>6, <2>1, <2>4
  <2> QED  BY <1>7, <2>1, <2>3, <2>5 DEF ThreadRight
<1>9. ASSUME NEW q \in Requests, NEW w \in Nodes
      PROVE  SlotRight(q, w)' /\ WaiterRight(q, w)'
  <2>1. SlotRight(q, w) /\ WaiterRight(q, w)
    BY DEF MemoryInv, LoadsRight
  <2>2. CASE q = r /\ w = w0
    <3>1. SlotRight(q, w)'
      BY <1>6, <2>2 DEF SlotRight
    <3>2. WaiterRight(q, w)'
      BY <1>1, <1>3, <1>6, <1>7, <2>1, <2>2 DEF WaiterRight
    <3> QED  BY <3>1, <3>2
  <2>3. CASE q # r \/ w # w0
    <3>1. waiter'[q][w] = waiter[q][w]
      BY <1>6, <2>3
    <3>2. w \in Created(q) => slots'[load[q].model][w] = slots[load[q].model][w]
      <4>1. w \in Created(q) => load[q].model \in Models /\ (w # w0 \/ load[q].model # m)
        BY <1>1, <2>3, SentFacts, LoadFacts DEF m
      <4> QED  BY <1>6, <4>1
    <3>3. SlotRight(q, w)'
      BY <1>7, <2>1, <3>1, <3>2 DEF SlotRight
    <3>4. WaiterRight(q, w)'
      BY <1>7, <2>1, <3>1 DEF WaiterRight
    <3> QED  BY <3>3, <3>4
  <2> QED  BY <2>2, <2>3
<1>10. LoadsRight'
  BY <1>7, <1>8, <1>9 DEF MemoryInv, LoadsRight, OnePerNode
<1>11. TablesRight'
  BY <1>1, <1>7, TablesFrame DEF MemoryInv, handlerVars
<1> QED  BY <1>10, <1>11 DEF MemoryInv

\* While a load dispatches, no worker that it has yet to call holds a shard
\* of its model or is building one.
LEMMA NothingLeft ==
  ASSUME EvidenceInv, SequentialInv, TypeOK, WorkerTablesConsistent, MemoryInv,
         NEW r \in Requests, load[r].pc = "dispatch",
         NEW w \in Nodes, w \notin Sent(r)
  PROVE  /\ ~Worker!Resident(w, load[r].model) /\ load[r].model \notin loading[w]
         /\ \A t \in threads[w] : t.model # load[r].model
<1> DEFINE m == load[r].model
<1>1. LoadActive(r)
  BY DEF LoadActive
<1>2. /\ m \in Models /\ model_states[m] = [status |-> "loading", by |-> r]
      /\ \A q \in Requests : LoadActive(q) /\ load[q].model = m => q = r
  BY <1>1, LoadFacts
<1>3. model_states[m].status = "loading"
  BY <1>2
<1>4. ~Worker!Resident(w, m)
  <2>1. Accounted(w, m)
    BY <1>2 DEF MemoryInv, TablesRight
  <2>2. \A q \in Requests : load[q].model = m => w \notin Sent(q)
    BY <1>2, SentFacts
  <2>3. ~Pending(w, m)
    <3>1. ASSUME NEW q \in Requests, [model |-> m, node |-> w] \in CallsOf(todo[q])
          PROVE  FALSE
      <4>1. HandlerRight(q)
        BY DEF MemoryInv, TablesRight
      <4>2. model_states[[model |-> m, node |-> w].model].status = "none"
        BY <3>1, <4>1 DEF HandlerRight
      <4>3. [model |-> m, node |-> w].model = m
        OBVIOUS
      <4> QED  BY <1>3, <4>2, <4>3
    <3> QED  BY <3>1 DEF Pending
  <2> QED  BY <1>3, <2>1, <2>2, <2>3 DEF Accounted
<1>5. ASSUME NEW t \in threads[w] PROVE t.model # m
  <2>1. /\ ThreadRight(w, t)
        /\ \A q \in Requests : LoadActive(q) /\ load[q].model = t.model => q = t.call
    BY ThreadFacts DEF MemoryInv
  <2>2. w \in Sent(t.call)
    BY <2>1 DEF ThreadRight
  <2> QED  BY <1>1, <2>1, <2>2
<1>6. m \notin loading[w]
  <2>1. m \in loading[w] <=> Worker!Building(w, m) # {}
    BY <1>2 DEF WorkerTablesConsistent, Worker!LoadingIsLock
  <2>2. Worker!Building(w, m) = {}
    BY <1>5 DEF Worker!Building
  <2> QED  BY <2>1, <2>2
<1> QED  BY <1>4, <1>5, <1>6

\* Each worker accepts its shard and starts a thread for it.
LEMMA MemoryDispatchShard ==
  ASSUME Benign, EvidenceInv, SequentialInv, TypeOK, WorkerTablesConsistent, MemoryInv,
         NEW r \in Requests, DispatchShard(r)
  PROVE  MemoryInv'
<1> DEFINE w0 == Current(r).node
           m == load[r].model
           n == Len(load[r].plan)
           new == Worker!NewThread(r, m, Current(r), "build")
<1>1. /\ load[r].pc = "dispatch" /\ LoadActive(r)
      /\ UNCHANGED <<model_states, handlerVars, storeVars>>
      /\ waiter \in [Requests -> [Nodes -> Waiter]]
  BY DEF DispatchShard, LoadActive, EvidenceInv, OrchestratorTypes
<1>2. w0 \in Nodes /\ m \in Models /\ Current(r) \in Shard
  BY <1>1, CurrentShard
<1>3. /\ load[r].i \in 1..n /\ n \in Nat /\ DOMAIN load[r].plan = 1..n
      /\ OnePerNode /\ up[w0]
  BY <1>1, <1>2, LoadFacts DEF MemoryInv, LoadsRight
<1>4. w0 \notin Sent(r)
  <2>1. Sent(r) = {load[r].plan[j].node : j \in 1..(load[r].i - 1)}
    BY <1>1 DEF Sent
  <2>2. \A j \in 1..(load[r].i - 1) : j \in 1..n /\ j # load[r].i
    BY <1>3
  <2>3. \A j \in 1..n : load[r].plan[j].node = w0 => j = load[r].i
    BY <1>3 DEF OnePerNode, Current
  <2> QED  BY <2>1, <2>2, <2>3
<1>5. /\ ~Worker!Resident(w0, m) /\ m \notin loading[w0]
      /\ \A t \in threads[w0] : t.model # m
  BY <1>1, <1>2, <1>4, NothingLeft
<1>6. /\ Worker!LoadShard(w0, r, m, Current(r))
      /\ Dispatched(r)
  <2>1. ~Fault("rpc_error")
    BY DEF Fault, Benign
  <2>2. Worker!LoadShardAccepted(w0, m)
    BY <1>5 DEF Worker!LoadShardAccepted
  <2> QED  BY <1>3, <2>1, <2>2 DEF DispatchShard
<1>7. /\ threads' = [threads EXCEPT ![w0] = @ \cup {new}]
      /\ UNCHANGED <<up, models>>
  BY <1>5, <1>6 DEF Worker!LoadShard
<1>8. /\ threads'[w0] = threads[w0] \cup {new}
      /\ \A w \in Nodes \ {w0} : threads'[w] = threads[w]
  BY <1>2, <1>7 DEF TypeOK, Worker!TypeOK
<1>9. /\ load' = [load EXCEPT ![r] = load'[r]] /\ load'[r] \in LoadThread
      /\ load'[r].model = m /\ load'[r].plan = load[r].plan
      /\ load[r].i = n => load'[r].pc = "wait" /\ load'[r].i = 1
      /\ load[r].i # n => load'[r].pc = "dispatch" /\ load'[r].i = load[r].i + 1
  BY <1>1, <1>6, AdvanceIs DEF Dispatched
<1>10. load \in [Requests -> LoadThread] /\ OnePerNode
  BY <1>3, LoadFacts
<1>11. /\ \A q \in Requests \ {r} : load'[q] = load[q]
       /\ \A q \in Requests : load'[q].model = load[q].model /\ load'[q].plan = load[q].plan
       /\ load'[r].pc \in {"dispatch", "wait"}
  BY <1>9, <1>10
<1>12. new.call = r /\ new.model = m /\ new.shard = Current(r) /\ new.phase = "build" /\ new.ok
  BY DEF Worker!NewThread
<1>13. Created(r)' = Created(r) /\ Created(r) = PlanNodes(load[r].plan)
  <2>1. Created(r) = {load[r].plan[j].node : j \in 1..n}
    BY <1>1 DEF Created
  <2>2. Created(r)' = {load[r].plan[j].node : j \in 1..n}
    BY <1>9, <1>11 DEF Created
  <2>3. PlanNodes(load[r].plan) = {load[r].plan[j].node : j \in 1..n}
    BY <1>3 DEF PlanNodes
  <2> QED  BY <2>1, <2>2, <2>3
<1>14. Sent(r) \subseteq Sent(r)' /\ w0 \in Sent(r)'
  <2>1. Sent(r) = {load[r].plan[j].node : j \in 1..(load[r].i - 1)}
    BY <1>1 DEF Sent
  <2>2. Sent(r)' = {load[r].plan[j].node : j \in 1..load[r].i}
    <3>1. CASE load[r].i = n
      BY <1>9, <3>1 DEF Sent
    <3>2. CASE load[r].i # n
      <4>1. load'[r].i - 1 = load[r].i /\ load'[r].pc = "dispatch"
            /\ load'[r].plan = load[r].plan
        BY <1>3, <1>9, <3>2
      <4> QED  BY <4>1 DEF Sent
    <3> QED  BY <3>1, <3>2
  <2>3. \A j \in 1..(load[r].i - 1) : j \in 1..load[r].i
    BY <1>3
  <2>4. load[r].i \in 1..load[r].i /\ w0 = load[r].plan[load[r].i].node
    BY <1>3 DEF Current
  <2> QED  BY <2>1, <2>2, <2>3, <2>4
<1>15. \A w \in Nodes : waiter[r][w].pc = "none"
  BY <1>1 DEF EvidenceInv, Phases
<1>16. /\ \A q \in Requests \ {r} : waiter'[q] = waiter[q]
       /\ \A w \in Nodes : waiter'[r][w].pc \in {"none", "start"}
       /\ \A w \in Nodes : waiter'[r][w].pc = "start" => load'[r].pc = "wait"
  <2>1. CASE load[r].i < n
    <3>1. waiter' = waiter
      BY <1>6, <2>1 DEF Dispatched
    <3> QED  BY <1>15, <3>1
  <2>2. CASE ~(load[r].i < n)
    <3> DEFINE row == [w \in Nodes |->
                 IF w \in PlanNodes(load[r].plan)
                 THEN [NoWaiter EXCEPT !.pc = "start"] ELSE NoWaiter]
    <3>1. waiter' = [waiter EXCEPT ![r] = row]
      BY <1>6, <2>2 DEF Dispatched
    <3>2. \A w \in Nodes : row[w].pc \in {"none", "start"}
      BY DEF NoWaiter
    <3>3. load[r].i = n
      BY <1>3, <2>2
    <3> HIDE DEF row
    <3>4. waiter'[r] = row /\ \A q \in Requests \ {r} : waiter'[q] = waiter[q]
      BY <1>1, <3>1
    <3> QED  BY <1>9, <3>2, <3>3, <3>4
  <2> QED  BY <2>1, <2>2
<1>17. /\ \A q \in Requests \ {r} : Sent(q)' = Sent(q) /\ Created(q)' = Created(q)
       /\ \A q \in Requests, w \in Nodes : Holds(w, q)' <=> Holds(w, q)
       /\ UNCHANGED <<slots, fired>>
  BY <1>1, <1>7, <1>11 DEF Sent, Created, Holds, storeVars
<1>18. slots[m][w0] = [event |-> r, result |-> "none"]
  <2>1. w0 \in Created(r)
    BY <1>3, <1>13 DEF PlanNodes, Current
  <2>2. /\ slots[m][w0] # NoSlot /\ slots[m][w0].event = r
        /\ slots[m][w0].result # "none" => Holds(w0, r)
    <3>1. SlotRight(r, w0) /\ waiter[r][w0].pc # "ok"
      BY <1>2, <1>15 DEF MemoryInv, LoadsRight
    <3> QED  BY <2>1, <3>1 DEF SlotRight
  <2>3. ~Holds(w0, r)
    <3>1. load[r].plan \in Seq(Shard)
      BY LoadFacts
    <3>2. \A j \in DOMAIN load[r].plan : load[r].plan[j] \in Shard
      BY <3>1
    <3> QED  BY <1>5, <3>2, HandleAssumption DEF Holds, Worker!Resident
  <2>4. slots[m][w0] \in Slot
    BY <1>2, <2>2 DEF EvidenceInv, OrchestratorTypes
  <2> QED  BY <2>2, <2>3, <2>4 DEF Slot
<1>19. load[r].i \in DOMAIN load[r].plan /\ load[r].plan[load[r].i].node = w0
       /\ Current(r) = load[r].plan[load[r].i]
  BY <1>3 DEF Current
<1> HIDE DEF w0, m, new, n
<1>20. ASSUME NEW w \in Nodes, NEW t \in threads'[w] PROVE ThreadRight(w, t)'
  <2>1. CASE t \in threads[w]
    <3>1. ThreadRight(w, t) /\ t.call \in Requests
      BY <2>1, ThreadFacts DEF MemoryInv
    <3>2. /\ load'[t.call].model = load[t.call].model
          /\ load'[t.call].plan = load[t.call].plan
          /\ load'[t.call].pc \in {"dispatch", "wait"}
          /\ Sent(t.call) \subseteq Sent(t.call)'
      BY <1>11, <1>14, <1>17, <3>1 DEF ThreadRight
    <3>3. waiter'[t.call][w].pc # "ok"
      BY <1>16, <3>1 DEF ThreadRight
    <3> QED  BY <1>7, <1>17, <3>1, <3>2, <3>3 DEF ThreadRight
  <2>2. CASE t \notin threads[w]
    <3>1. w = w0 /\ t = new
      BY <1>8, <2>2
    <3>2. waiter'[r][w0].pc # "ok"
      BY <1>2, <1>16
    <3>3. slots'[m][w0] = [event |-> r, result |-> "none"]
      BY <1>17, <1>18
    <3>4. load'[r].model = m /\ load'[r].plan = load[r].plan
      BY <1>9
    <3> QED  BY <1>11, <1>12, <1>14, <1>19, <3>1, <3>2, <3>3, <3>4 DEF ThreadRight
  <2> QED  BY <2>1, <2>2
<1>21. ASSUME NEW q \in Requests, NEW w \in Nodes
       PROVE  SlotRight(q, w)' /\ WaiterRight(q, w)'
  <2>1. SlotRight(q, w) /\ WaiterRight(q, w)
    BY DEF MemoryInv, LoadsRight
  <2>2. CASE q # r
    <3>1. load'[q] = load[q] /\ Created(q)' = Created(q) /\ waiter'[q] = waiter[q]
      BY <1>11, <1>16, <1>17, <2>2
    <3>2. SlotRight(q, w)'
      BY <1>17, <2>1, <3>1 DEF SlotRight
    <3>3. WaiterRight(q, w)'
      BY <1>17, <2>1, <3>1 DEF WaiterRight
    <3> QED  BY <3>2, <3>3
  <2>3. CASE q = r
    <3>1. waiter[r][w].pc # "ok" /\ waiter'[r][w].pc \in {"none", "start"}
      BY <1>15, <1>16
    <3>2. SlotRight(r, w)'
      BY <1>11, <1>13, <1>17, <2>1, <2>3, <3>1 DEF SlotRight
    <3>3. WaiterRight(r, w)'
      BY <1>11, <1>16, <1>17, <2>1, <2>3, <3>1 DEF WaiterRight
    <3> QED  BY <2>3, <3>2, <3>3
  <2> QED  BY <2>2, <2>3
<1>22. LoadsRight'
  <2>1. OnePerNode'
    BY <1>10, <1>11 DEF OnePerNode
  <2>2. ASSUME NEW q \in Requests, load'[q].pc \in {"tokenizer", "built"}
        PROVE  HoldsPlan(q)'
    <3>1. q # r
      BY <1>11, <2>2
    <3>2. HoldsPlan(q) /\ PlanNodes(load[q].plan) \subseteq Nodes /\ load'[q] = load[q]
      BY <1>11, <2>2, <3>1, LoadFacts DEF MemoryInv, LoadsRight
    <3> QED  BY <1>17, <3>2 DEF HoldsPlan
  <2> QED  BY <1>7, <1>20, <1>21, <2>1, <2>2 DEF MemoryInv, LoadsRight
<1>23. TablesRight'
  <2>1. \A q \in Requests : Sent(q) \subseteq Sent(q)'
    BY <1>14, <1>17
  <2> QED  BY <1>1, <1>7, <1>11, <2>1, TablesFrame DEF MemoryInv, handlerVars
<1> QED  BY <1>22, <1>23 DEF MemoryInv

\* No waiter ever finds an error.
LEMMA MemoryCollectFailure ==
  ASSUME MemoryInv, NEW r \in Requests PROVE ~CollectFailure(r)
BY DEF CollectFailure, MemoryInv, LoadsRight, WaiterRight

\* The thread of a load enters the shard that the load's plan gives it.
LEMMA MemoryBuildDone ==
  ASSUME Benign, EvidenceInv, SequentialInv, TypeOK, WorkerTablesConsistent, MemoryInv,
         NEW w0 \in Nodes, NEW t0 \in threads[w0], BuildDone(w0, t0)
  PROVE  MemoryInv'
<1> DEFINE r == t0.call
           m == t0.model
           new == [t0 EXCEPT !.phase = "report"]
<1>1. /\ t0 \in Worker!Thread /\ r \in Requests /\ m \in Models /\ LoadActive(r)
      /\ ThreadRight(w0, t0)
      /\ \A q \in Requests : LoadActive(q) /\ load[q].model = m => q = r
  BY ThreadFacts DEF MemoryInv
<1>2. /\ Worker!BuildSucceeds(w0, t0)
      /\ UNCHANGED <<model_states, handlerVars, load, waiter, storeVars>>
  BY DEF BuildDone, Fault, Benign
<1>3. /\ models' = [models EXCEPT ![w0][m] = t0.shard]
      /\ threads' = [threads EXCEPT ![w0] = (@ \ {t0}) \cup {new}]
      /\ UNCHANGED up /\ t0.phase = "build"
  BY <1>2 DEF Worker!BuildSucceeds
<1>4. /\ models'[w0][m] = t0.shard
      /\ \A w \in Nodes, k \in Models : w # w0 \/ k # m => models'[w][k] = models[w][k]
      /\ threads'[w0] = (threads[w0] \ {t0}) \cup {new}
      /\ \A w \in Nodes \ {w0} : threads'[w] = threads[w]
  BY <1>1, <1>3 DEF TypeOK, Worker!TypeOK
<1>5. /\ new.call = r /\ new.model = m /\ new.shard = t0.shard /\ new.phase = "report"
      /\ new.ok = t0.ok
  BY <1>1 DEF Worker!Thread
<1>6. \A u \in threads[w0] : u.model = m => u = t0
  BY OneThread DEF MemoryInv
<1>7. /\ m = load[r].model /\ w0 \in Sent(r)
      /\ \E j \in DOMAIN load[r].plan :
           load[r].plan[j].node = w0 /\ t0.shard = load[r].plan[j]
  BY <1>1 DEF ThreadRight
<1>8. model_states[m].status # "ready"
  <2>1. model_states[m] = [status |-> "loading", by |-> r]
    BY <1>1, <1>7, LoadFacts
  <2> QED  BY <2>1
<1>9. UNCHANGED <<slots, fired, waiter, load, model_states, req, todo>>
  BY <1>2 DEF storeVars, handlerVars
<1>10. \A q \in Requests : Sent(q)' = Sent(q) /\ Created(q)' = Created(q)
  BY <1>9 DEF Sent, Created
<1> HIDE DEF r, m, new
<1>11. Holds(w0, r)'
  BY <1>4, <1>7, <1>9 DEF Holds
<1>12. ASSUME NEW q \in Requests, NEW w \in Nodes, load[q].model \in Models, Holds(w, q),
              q = r \/ load[q].model # m
       PROVE  Holds(w, q)'
  <2>1. CASE w = w0 /\ q = r
    BY <1>11, <2>1
  <2>2. CASE ~(w = w0 /\ q = r)
    <3>1. models'[w][load[q].model] = models[w][load[q].model]
      BY <1>4, <1>7, <1>12, <2>2
    <3> QED  BY <1>9, <1>12, <3>1 DEF Holds
  <2> QED  BY <2>1, <2>2
<1>13. ASSUME NEW q \in Requests, LoadActive(q)
       PROVE  load[q].model \in Models /\ (q = r \/ load[q].model # m)
  BY <1>1, <1>13, LoadFacts
<1>14. ASSUME NEW w \in Nodes, NEW t \in threads'[w] PROVE ThreadRight(w, t)'
  <2>1. CASE w = w0 /\ t = new
    <3>1. /\ load[r].pc \in {"dispatch", "wait"} /\ r \in Requests
          /\ slots[m][w0] = [event |-> r, result |-> "none"]
          /\ waiter[r][w0].pc # "ok"
      BY <1>1 DEF ThreadRight, r, m
    <3>2. new.ok
      BY <1>1, <1>5 DEF ThreadRight
    <3> QED  BY <1>4, <1>5, <1>7, <1>9, <1>10, <2>1, <3>1, <3>2 DEF ThreadRight
  <2>2. CASE ~(w = w0 /\ t = new)
    <3>1. t \in threads[w] /\ ~(w = w0 /\ t = t0)
      BY <1>4, <2>2
    <3>2. ThreadRight(w, t) /\ t.call \in Requests /\ t.model \in Models
      BY <3>1, ThreadFacts DEF MemoryInv
    <3>3. w # w0 \/ t.model # m
      BY <1>6, <3>1
    <3>4. models'[w][t.model] = models[w][t.model]
      BY <1>4, <3>2, <3>3
    <3> QED  BY <1>9, <1>10, <3>2, <3>4 DEF ThreadRight
  <2> QED  BY <2>1, <2>2
<1>15. ASSUME NEW q \in Requests, NEW w \in Nodes
       PROVE  SlotRight(q, w)' /\ WaiterRight(q, w)'
  <2>1. SlotRight(q, w) /\ WaiterRight(q, w)
    BY DEF MemoryInv, LoadsRight
  <2>2. /\ w \in Created(q) => LoadActive(q)
        /\ load[q].pc = "wait" => LoadActive(q)
    BY SentFacts DEF LoadActive
  <2>3. LoadActive(q) /\ Holds(w, q) => Holds(w, q)'
    BY <1>12, <1>13
  <2>4. SlotRight(q, w)'
    BY <1>9, <1>10, <2>1, <2>2, <2>3 DEF SlotRight
  <2>5. WaiterRight(q, w)'
    BY <1>9, <2>1, <2>2, <2>3 DEF WaiterRight
  <2> QED  BY <2>4, <2>5
<1>16. LoadsRight'
  <2>1. ASSUME NEW q \in Requests, load'[q].pc \in {"tokenizer", "built"}
        PROVE  HoldsPlan(q)'
    <3>1. LoadActive(q) /\ HoldsPlan(q) /\ PlanNodes(load[q].plan) \subseteq Nodes
      BY <1>9, <2>1, LoadFacts DEF MemoryInv, LoadsRight, LoadActive
    <3> QED  BY <1>9, <1>12, <1>13, <3>1 DEF HoldsPlan
  <2>2. OnePerNode' /\ \A w \in Nodes : up'[w]
    BY <1>3, <1>9 DEF MemoryInv, LoadsRight, OnePerNode
  <2> QED  BY <1>14, <1>15, <2>1, <2>2 DEF LoadsRight
<1>17. TablesRight'
  <2>1. ASSUME NEW w \in Nodes, NEW k \in Models PROVE Accounted(w, k)'
    <3>1. Accounted(w, k) /\ (Pending(w, k)' <=> Pending(w, k))
      BY <1>9 DEF MemoryInv, TablesRight, Pending
    <3>2. CASE w = w0 /\ k = m
      BY <1>1, <1>7, <1>9, <1>10, <3>2 DEF Accounted, r
    <3>3. CASE ~(w = w0 /\ k = m)
      <4>1. models'[w][k] = models[w][k]
        BY <1>4, <3>3
      <4> QED  BY <1>9, <1>10, <3>1, <4>1 DEF Accounted, Worker!Resident
    <3> QED  BY <3>2, <3>3
  <2>2. ASSUME NEW k \in Models, model_states[k].status = "ready"
        PROVE  HoldsPlan(model_states[k].by)'
    <3>1. ASSUME NEW q \in Requests, load[q].model \in Models \ {m}, HoldsPlan(q)
          PROVE  HoldsPlan(q)'
      <4>1. PlanNodes(load[q].plan) \subseteq Nodes
        BY LoadFacts
      <4> QED  BY <1>9, <1>12, <3>1, <4>1 DEF HoldsPlan
    <3>2. /\ model_states[k].by \in Requests /\ HoldsPlan(model_states[k].by)
          /\ load[model_states[k].by].model = k /\ k # m
      BY <1>8, <2>2 DEF EvidenceInv, EntryEvidence, MemoryInv, TablesRight
    <3> QED  BY <1>9, <3>1, <3>2
  <2>3. \A q \in Requests : HandlerRight(q)'
    BY <1>9 DEF MemoryInv, TablesRight, HandlerRight, Deciding
  <2> QED  BY <1>9, <2>1, <2>2, <2>3 DEF TablesRight
<1> QED  BY <1>16, <1>17 DEF MemoryInv

\* A report fills the slot of the load it answers, or is lost.
LEMMA MemoryReport ==
  ASSUME EvidenceInv, SequentialInv, TypeOK, WorkerTablesConsistent, MemoryInv,
         NEW w0 \in Nodes, NEW t0 \in threads[w0], Report(w0, t0)
  PROVE  MemoryInv'
<1> DEFINE r == t0.call
           m == t0.model
           new == [event |-> r, result |-> "ok"]
<1>1. /\ r \in Requests /\ m \in Models /\ LoadActive(r) /\ ThreadRight(w0, t0)
      /\ \A q \in Requests : LoadActive(q) /\ load[q].model = m => q = r
  BY ThreadFacts DEF MemoryInv
<1>2. /\ threads' = [threads EXCEPT ![w0] = @ \ {t0}] /\ t0.phase = "report"
      /\ UNCHANGED <<up, models, model_states, handlerVars, load, waiter>>
  BY DEF Report, Worker!ReportShardReady
<1>3. /\ threads'[w0] = threads[w0] \ {t0}
      /\ \A w \in Nodes \ {w0} : threads'[w] = threads[w]
  BY <1>2 DEF TypeOK, Worker!TypeOK
<1>4. \A u \in threads[w0] : u.model = m => u = t0
  BY OneThread DEF MemoryInv
<1>5. /\ m = load[r].model /\ t0.ok /\ models[w0][m] = t0.shard
      /\ slots[m][w0] = [event |-> r, result |-> "none"]
      /\ load[r].pc \in {"dispatch", "wait"}
      /\ \E j \in DOMAIN load[r].plan :
           load[r].plan[j].node = w0 /\ t0.shard = load[r].plan[j]
  BY <1>1, <1>2 DEF ThreadRight
<1>6. Holds(w0, r)
  BY <1>5 DEF Holds
<1>7. /\ slots \in [Models -> [Nodes -> Slot \cup {NoSlot}]]
      /\ slots[m][w0] \in Slot /\ slots[m][w0] # NoSlot /\ slots[m][w0].event = r
  <2>1. slots[m][w0] \in Slot
    BY <1>1, <1>5 DEF Slot
  <2> QED  BY <1>5, <2>1, SlotAssumption DEF EvidenceInv, OrchestratorTypes
<1>8. \/ UNCHANGED <<slots, fired>>
      \/ slots' = [slots EXCEPT ![m][w0].result = "ok"] /\ fired' = fired \cup {<<r, w0>>}
  BY <1>5, <1>7 DEF Report, Deliver, storeVars
<1>9. /\ \A k \in Models, w \in Nodes : k # m \/ w # w0 => slots'[k][w] = slots[k][w]
      /\ \A q \in Requests, w \in Nodes : q # r \/ w # w0 =>
           (<<q, w>> \in fired' <=> <<q, w>> \in fired)
      /\ \/ slots'[m][w0] = slots[m][w0] /\ (<<r, w0>> \in fired' <=> <<r, w0>> \in fired)
         \/ slots'[m][w0] = new /\ <<r, w0>> \in fired'
  <2>1. CASE UNCHANGED <<slots, fired>>
    BY <2>1
  <2>2. CASE /\ slots' = [slots EXCEPT ![m][w0].result = "ok"]
             /\ fired' = fired \cup {<<r, w0>>}
    <3>1. slots'[m][w0] = [slots[m][w0] EXCEPT !.result = "ok"]
      BY <1>1, <1>7, <2>2
    <3>2. slots'[m][w0] = new
      BY <1>5, <3>1
    <3>3. \A k \in Models, w \in Nodes : k # m \/ w # w0 => slots'[k][w] = slots[k][w]
      BY <1>1, <1>7, <2>2
    <3> QED  BY <2>2, <3>2, <3>3
  <2> QED  BY <1>8, <2>1, <2>2
<1>10. /\ new # NoSlot /\ new.event = r /\ new.result = "ok"
  BY <1>1, SlotAssumption DEF Slot
<1>11. /\ \A q \in Requests : Sent(q)' = Sent(q) /\ Created(q)' = Created(q)
       /\ \A q \in Requests : HoldsPlan(q)' <=> HoldsPlan(q)
       /\ \A q \in Requests, w \in Nodes : Holds(w, q)' <=> Holds(w, q)
       /\ UNCHANGED <<load, waiter, models>>
  BY <1>2 DEF Sent, Created, Holds, HoldsPlan
<1> HIDE DEF r, m, new
<1>12. ASSUME NEW w \in Nodes, NEW t \in threads'[w] PROVE ThreadRight(w, t)'
  <2>1. t \in threads[w] /\ ~(w = w0 /\ t = t0)
    BY <1>3
  <2>2. ThreadRight(w, t) /\ t.call \in Requests /\ t.model \in Models
    BY <2>1, ThreadFacts DEF MemoryInv
  <2>3. w # w0 \/ t.model # m
    BY <1>4, <2>1
  <2>4. slots'[t.model][w] = slots[t.model][w]
    BY <1>9, <2>2, <2>3
  <2> QED  BY <1>11, <2>2, <2>4 DEF ThreadRight
<1>13. ASSUME NEW q \in Requests, NEW w \in Nodes
       PROVE  SlotRight(q, w)' /\ WaiterRight(q, w)'
  <2>1. SlotRight(q, w) /\ WaiterRight(q, w)
    BY DEF MemoryInv, LoadsRight
  <2>2. CASE q = r /\ w = w0
    <3>1. SlotRight(r, w0)'
      <4>1. CASE slots'[m][w0] = slots[m][w0] /\ (<<r, w0>> \in fired' <=> <<r, w0>> \in fired)
        BY <1>5, <1>11, <2>1, <2>2, <4>1 DEF SlotRight
      <4>2. CASE slots'[m][w0] = new /\ <<r, w0>> \in fired'
        <5>1. Holds(w0, r)'
          BY <1>1, <1>6, <1>11 DEF r
        <5> QED  BY <1>5, <1>10, <1>11, <4>2, <5>1 DEF SlotRight
      <4> QED  BY <1>9, <4>1, <4>2
    <3>2. WaiterRight(r, w0)'
      BY <1>5, <1>11, <2>1, <2>2 DEF WaiterRight
    <3> QED  BY <2>2, <3>1, <3>2
  <2>3. CASE q # r \/ w # w0
    <3>1. <<q, w>> \in fired' <=> <<q, w>> \in fired
      BY <1>9, <2>3
    <3>2. w \in Created(q) => slots'[load[q].model][w] = slots[load[q].model][w]
      <4>1. w \in Created(q) => load[q].model \in Models /\ (w # w0 \/ load[q].model # m)
        BY <1>1, <2>3, SentFacts, LoadFacts
      <4> QED  BY <1>9, <4>1
    <3>3. SlotRight(q, w)'
      BY <1>11, <2>1, <3>1, <3>2 DEF SlotRight
    <3>4. WaiterRight(q, w)'
      BY <1>11, <2>1, <3>1 DEF WaiterRight
    <3> QED  BY <3>3, <3>4
  <2> QED  BY <2>2, <2>3
<1>14. LoadsRight'
  BY <1>2, <1>11, <1>12, <1>13 DEF MemoryInv, LoadsRight, OnePerNode
<1>15. TablesRight'
  BY <1>2, <1>11, TablesFrame DEF MemoryInv, handlerVars
<1> QED  BY <1>14, <1>15 DEF MemoryInv

LEMMA MemoryInit == Init => MemoryInv
<1> SUFFICES ASSUME Init PROVE MemoryInv
  OBVIOUS
<1>1. /\ \A w \in Nodes : up[w] /\ threads[w] = {}
      /\ \A w \in Nodes, m \in Models : ~Worker!Resident(w, m)
  BY DEF Init, Worker!Init, Worker!Resident
<1>2. /\ \A r \in Requests : load[r] = NoLoad /\ req[r] = FreeRequest /\ todo[r] = <<>>
      /\ \A r \in Requests, w \in Nodes : waiter[r][w] = NoWaiter
      /\ \A m \in Models : model_states[m] = NoEntry
      /\ fired = {}
  BY DEF Init
<1>3. \A r \in Requests : Created(r) = {} /\ load[r].pc = "none" /\ load[r].plan = <<>>
  BY <1>2 DEF Created, NoLoad
<1>4. \A r \in Requests, w \in Nodes : SlotRight(r, w) /\ WaiterRight(r, w)
  BY <1>2, <1>3 DEF SlotRight, WaiterRight, NoWaiter
<1>5. OnePerNode
  BY <1>3 DEF OnePerNode
<1>6. \A m \in Models : model_states[m].status = "none"
  BY <1>2 DEF NoEntry
<1>7. \A q \in Requests : HandlerRight(q)
  BY <1>2, NoCalls DEF HandlerRight, FreeRequest, Deciding
<1> QED  BY <1>1, <1>3, <1>4, <1>5, <1>6, <1>7
         DEF MemoryInv, LoadsRight, TablesRight, Accounted

LEMMA MemoryStep ==
  ASSUME Benign, EvidenceInv, PacedInv, TypeOK, WorkerTablesConsistent, MemoryInv, [Next]_vars
  PROVE  MemoryInv'
<1>0. SequentialInv
  BY DEF Benign, PacedInv
<1>1. ASSUME UNCHANGED <<workerVars, model_states, handlerVars, load, waiter, storeVars>>
      PROVE  MemoryInv'
  <2>1. UNCHANGED <<workerVars, model_states, todo, req, load, waiter, slots, fired>>
    BY <1>1 DEF handlerVars, storeVars
  <2>2. \A q \in Requests : HandlerRight(q)'
    BY <2>1 DEF MemoryInv, TablesRight, HandlerRight, Deciding
  <2> QED  BY <1>0, <2>1, <2>2, MemoryFrame
<1>2. ASSUME NEW r \in Requests, HandlerStep(r) PROVE MemoryInv'
  BY <1>0, <1>2, MemoryTakeEntry, MemoryCheckState, MemoryUnloadNext, MemoryUnloaded,
     MemoryPlan, MemoryPublish
  DEF HandlerStep
<1>3. ASSUME NEW r \in Requests, LoadStep(r) PROVE MemoryInv'
  BY <1>0, <1>3, MemoryStoreLoad, MemoryCreateSlot, MemoryDispatchShard,
     MemoryCollectFailure, MemoryCollectAll, MemoryLoadTokenizer, MemoryWriteOutcome
  DEF LoadStep
<1>4. ASSUME NEW r \in Requests, NEW w \in Nodes, WaiterStep(r, w) PROVE MemoryInv'
  BY <1>0, <1>4, MemoryWaiterStart, MemoryWaiterPop DEF WaiterStep
<1>5. ASSUME NEW r \in Requests, NEW w \in Nodes, ThreadStep(w, r) PROVE MemoryInv'
  BY <1>0, <1>5, MemoryBuildDone, MemoryReport DEF ThreadStep
<1>6. ASSUME NEW w \in Nodes PROVE ~WorkerCrash(w) /\ ~WorkerRestart(w)
  BY DEF WorkerCrash, WorkerRestart, Fault, Benign, Worker!Restart, MemoryInv, LoadsRight
<1>7. ASSUME NEW w \in Nodes, RegistryChange(w) PROVE MemoryInv'
  BY <1>1, <1>7 DEF RegistryChange
<1>8. CASE UNCHANGED vars
  BY <1>1, <1>8 DEF vars
<1>9. ASSUME NEW r \in Requests, NEW op \in Operations, NEW m \in Models, Arrive(r, op, m)
      PROVE  MemoryInv'
  BY <1>0, <1>9, MemoryArrive
<1> QED  BY <1>2, <1>3, <1>4, <1>5, <1>6, <1>7, <1>8, <1>9 DEF Next, Quiescent

\* If no two handlers run at once and nothing fails but reports and the reading
\* of checkpoints, every shard in a worker's memory is accounted for.
THEOREM MemoryInvariant ==
  ASSUME Benign
  PROVE  Spec => []MemoryInv
<1>1. EvidenceInv /\ PacedInv /\ TypeOK /\ WorkerTablesConsistent /\ MemoryInv /\ [Next]_vars
        => MemoryInv'
  BY MemoryStep
<1> QED  BY <1>1, MemoryInit, EvidenceKept, PacedInvariant, ClusterTypes,
            TablesStayConsistent, PTL DEF Spec

\* A ready model can be run: when _load records "ready", and for as long as the
\* entry stands, each worker of the plan holds exactly the shard that the plan
\* gives it (PipelineRunner.load, InferenceServicer._load_shard_background).
THEOREM ReadyModelsResident ==
  ASSUME Benign
  PROVE  Spec => []ReadyIsResident
<1>1. ASSUME EvidenceInv, MemoryInv, NEW m \in Models, model_states[m].status = "ready",
             NEW i \in DOMAIN load[model_states[m].by].plan
      PROVE  models[load[model_states[m].by].plan[i].node][m]
               = load[model_states[m].by].plan[i]
  <2> DEFINE r == model_states[m].by
  <2>1. r \in Requests /\ load[r].model = m /\ HoldsPlan(r) /\ OnePerNode
    BY <1>1 DEF EvidenceInv, EntryEvidence, MemoryInv, TablesRight, LoadsRight
  <2> HIDE DEF r
  <2>2. Holds(load[r].plan[i].node, r)
    BY <1>1, <2>1 DEF HoldsPlan, PlanNodes, r
  <2> QED  BY <1>1, <2>1, <2>2 DEF Holds, OnePerNode, r
<1>2. EvidenceInv /\ MemoryInv => ReadyIsResident
  BY <1>1 DEF ReadyIsResident
<1> QED  BY <1>2, EvidenceKept, MemoryInvariant, PTL

\* When redistribute_model comes to the new dispatch, no worker holds a shard
\* of the old one: PipelineRunner.unload has called every worker that does.
THEOREM RedistributionFrees ==
  ASSUME Benign
  PROVE  Spec => []RedistributeFrees
<1>1. ASSUME EvidenceInv, SequentialInv, TypeOK, MemoryInv, NEW r \in Requests,
             req[r].op = "redistribute", req[r].pc = "check", NEW w \in Nodes
      PROVE  ~Worker!Resident(w, req[r].model)
  <2> DEFINE m == req[r].model
  <2>1. m \in Models /\ HandlerActive(r) /\ HandlerRight(r)
    BY <1>1, PacedFacts DEF HandlerActive, MemoryInv, TablesRight
  <2>2. model_states[m].status = "none" /\ todo[r] = <<>>
    BY <1>1, <2>1 DEF HandlerRight
  <2>3. ~Pending(w, m)
    BY <1>1, <2>1, <2>2, OnlyHandler, NoCalls DEF MemoryInv
  <2>4. ASSUME NEW q \in Requests, load[q].model = m, w \in Sent(q) PROVE FALSE
    <3>1. model_states[m] = [status |-> "loading", by |-> q]
      BY <1>1, <2>4, SentFacts, LoadFacts
    <3> QED  BY <2>2, <3>1
  <2> QED  BY <1>1, <2>1, <2>2, <2>3, <2>4 DEF MemoryInv, TablesRight, Accounted
<1>2. EvidenceInv /\ PacedInv /\ TypeOK /\ MemoryInv => RedistributeFrees
  BY <1>1 DEF RedistributeFrees, Benign, PacedInv
<1> QED  BY <1>2, EvidenceKept, PacedInvariant, ClusterTypes, MemoryInvariant, PTL

\* The layers_loaded of a success report is what the worker holds: the report
\* of a shard found in memory would not be, but no load finds one there.
THEOREM ReportsAreTrue ==
  ASSUME Benign
  PROVE  Spec => []ReportedIsLoaded
<1>1. MemoryInv => ReportedIsLoaded
  BY DEF MemoryInv, LoadsRight, ThreadRight, ReportedIsLoaded
<1> QED  BY <1>1, MemoryInvariant, PTL

-----------------------------------------------------------------------------
\* What is to be unloaded, or is ready, was so before.
LEMMA UnloadingFrame ==
  ASSUME OneUnloading,
         \A w \in Nodes, m \in Models : Pending(w, m)' => Pending(w, m),
         \A m \in Models : model_states'[m].status = "ready" => model_states[m].status = "ready"
  PROVE  OneUnloading'
BY DEF OneUnloading

LEMMA UnloadingTakeEntry ==
  ASSUME EvidenceInv, SequentialInv, PatientInv, TypeOK, MemoryInv, OneUnloading,
         NEW r \in Requests, TakeEntry(r)
  PROVE  OneUnloading'
<1> DEFINE m == req[r].model
<1>1. /\ model_states \in [Models -> Entry] /\ m \in Models /\ HandlerActive(r)
      /\ req[r].pc = "take" /\ todo \in [Requests -> Sessions]
  BY PacedFacts DEF TakeEntry, HandlerActive, TypeOK
<1>2. \A q \in Requests \ {r} : CallsOf(todo[q]) = {}
  BY <1>1, OnlyHandler, NoCalls DEF MemoryInv
<1>3. CASE model_states[m].status = "ready"
  <2>1. /\ model_states' = [model_states EXCEPT ![m] = NoEntry]
        /\ todo' = [todo EXCEPT ![r] = <<UnloadCalls(m)>>]
    BY <1>3 DEF TakeEntry
  <2>2. \A k \in Models : model_states'[k].status # "ready"
    BY <1>1, <1>3, <2>1 DEF PatientInv, OneModelReady, NoEntry
  <2>3. CallsOf(<<UnloadCalls(m)>>) = {UnloadCalls(m)[j] : j \in DOMAIN UnloadCalls(m)}
    BY DEF CallsOf
  <2>4. \A c \in CallsOf(todo'[r]) : c.model = m
    <3>1. todo'[r] = <<UnloadCalls(m)>>
      BY <1>1, <2>1
    <3>2. \A c \in CallsOf(<<UnloadCalls(m)>>) : c.model = m
      BY <1>1, <2>3, UnloadCallsOf
    <3> QED  BY <3>1, <3>2
  <2>5. \A q \in Requests \ {r} : todo'[q] = todo[q]
    BY <1>1, <2>1
  <2>6. \A w \in Nodes, k \in Models : Pending(w, k)' => k = m
    <3>1. ASSUME NEW w \in Nodes, NEW k \in Models, NEW q \in Requests,
                 [model |-> k, node |-> w] \in CallsOf(todo'[q])
          PROVE  k = m
      <4>1. q = r
        BY <1>2, <2>5, <3>1
      <4>2. [model |-> k, node |-> w].model = k
        OBVIOUS
      <4> QED  BY <2>4, <3>1, <4>1, <4>2
    <3> QED  BY <3>1 DEF Pending
  <2> QED  BY <2>2, <2>6 DEF OneUnloading
<1>4. CASE model_states[m].status # "ready"
  <2>1. \A w \in Nodes, k \in Models : Pending(w, k)' => Pending(w, k)
    <3>1. CASE UNCHANGED todo
      BY <3>1 DEF Pending
    <3>2. CASE todo' = [todo EXCEPT ![r] = <<>>]
      <4>1. \A q \in Requests : todo'[q] = todo[q] \/ todo'[q] = <<>>
        BY <1>1, <3>2
      <4> QED  BY <4>1, NoCalls DEF Pending
    <3> QED  BY <1>4, <3>1, <3>2 DEF TakeEntry
  <2>2. \A k \in Models : model_states'[k].status = "ready" => model_states[k].status = "ready"
    BY <1>1 DEF TakeEntry, NoEntry
  <2> QED  BY <2>1, <2>2, UnloadingFrame
<1> QED  BY <1>3, <1>4

LEMMA UnloadingCheckState ==
  ASSUME EvidenceInv, SequentialInv, PatientInv, TypeOK, MemoryInv, OneUnloading,
         NEW r \in Requests, CheckState(r)
  PROVE  OneUnloading'
<1> DEFINE m == req[r].model
           others == OtherReady(m)
<1>1. m \in Models /\ HandlerActive(r) /\ req[r].pc = "check"
  BY PacedFacts DEF CheckState, HandlerActive
<1>2. \A q \in Requests \ {r} : CallsOf(todo[q]) = {}
  BY <1>1, OnlyHandler, NoCalls DEF MemoryInv
<1>3. CASE model_states[m].status \in {"loading", "ready"}
  <2>1. UNCHANGED <<model_states, todo>>
    BY <1>3 DEF CheckState
  <2> QED  BY <2>1, UnloadingFrame DEF Pending
<1>4. CASE model_states[m].status \notin {"loading", "ready"}
  <2>1. /\ \A k \in Models :
             model_states'[k] = IF k \in others THEN NoEntry ELSE model_states[k]
        /\ \A q \in Requests \ {r} : todo'[q] = todo[q]
        /\ \A c : c \in CallsOf(todo'[r]) <=>
             \E k \in others : c \in {[model |-> k, node |-> w] :
                                        w \in PlanNodes(load[model_states[k].by].plan)}
    BY <1>4, CheckStateCalls
  <2>2. \A k \in Models : model_states'[k].status # "ready"
    BY <1>4, <2>1 DEF NoEntry, OtherReady
  <2>3. \A k, j \in others : k = j
    BY DEF PatientInv, OneModelReady, OtherReady
  <2> HIDE DEF others, m
  <2>4. \A c \in CallsOf(todo'[r]) : c.model \in others
    BY <2>1
  <2>5. \A w \in Nodes, k \in Models : Pending(w, k)' => k \in others
    <3>1. ASSUME NEW w \in Nodes, NEW k \in Models, NEW q \in Requests,
                 [model |-> k, node |-> w] \in CallsOf(todo'[q])
          PROVE  k \in others
      <4>1. q = r
        BY <1>2, <2>1, <3>1
      <4>2. [model |-> k, node |-> w].model = k
        OBVIOUS
      <4> QED  BY <2>4, <3>1, <4>1, <4>2
    <3> QED  BY <3>1 DEF Pending
  <2> QED  BY <2>2, <2>3, <2>5 DEF OneUnloading
<1> QED  BY <1>3, <1>4

LEMMA UnloadingStep ==
  ASSUME Client = "patient", EvidenceInv, PacedInv, TypeOK, MemoryInv, OneUnloading,
         [Next]_vars
  PROVE  OneUnloading'
<1>0. /\ SequentialInv /\ PatientInv /\ model_states \in [Models -> Entry]
      /\ todo \in [Requests -> Sessions]
  BY PacedFacts DEF PacedInv, TypeOK
<1>1. ASSUME UNCHANGED <<model_states, todo>> PROVE OneUnloading'
  BY <1>1, UnloadingFrame DEF Pending
<1>2. ASSUME NEW r \in Requests, HandlerStep(r) PROVE OneUnloading'
  <2>1. CASE TakeEntry(r)
    BY <1>0, <2>1, UnloadingTakeEntry
  <2>2. CASE CheckState(r)
    BY <1>0, <2>2, UnloadingCheckState
  <2>3. CASE UnloadNext(r)
    <3>1. /\ todo[r] \in Sessions /\ todo[r] # <<>> /\ UNCHANGED model_states
          /\ todo'[r] = AfterFirst(todo[r])
          /\ \A q \in Requests \ {r} : todo'[q] = todo[q]
      BY <1>0, <2>3 DEF UnloadNext
    <3>2. CallsOf(todo'[r]) \subseteq CallsOf(todo[r])
      BY <3>1, AfterFirstCalls
    <3> QED  BY <3>1, <3>2, UnloadingFrame DEF Pending
  <2>4. CASE Unloaded(r)
    BY <1>1, <2>4 DEF Unloaded
  <2>5. CASE Plan(r) \/ Publish(r)
    <3>1. /\ UNCHANGED todo
          /\ \A k \in Models : model_states'[k].status = "ready" =>
               model_states[k].status = "ready"
      BY <1>0, <2>5 DEF Plan, Publish
    <3> QED  BY <3>1, UnloadingFrame DEF Pending
  <2> QED  BY <1>2, <2>1, <2>2, <2>3, <2>4, <2>5 DEF HandlerStep
<1>3. ASSUME NEW r \in Requests, LoadStep(r) PROVE OneUnloading'
  <2>1. CASE WriteOutcome(r)
    <3>1. LoadActive(r) /\ UNCHANGED todo
      BY <2>1 DEF WriteOutcome, LoadActive, handlerVars
    <3>2. \A q \in Requests : CallsOf(todo'[q]) = {}
      <4>1. \A q \in Requests : ~HandlerActive(q) /\ HandlerRight(q)
        BY <1>0, <3>1 DEF PatientInv, MemoryInv, TablesRight
      <4>2. \A q \in Requests : todo[q] = <<>>
        BY <4>1 DEF HandlerRight, HandlerActive
      <4> QED  BY <3>1, <4>2, NoCalls
    <3> QED  BY <3>2 DEF OneUnloading, Pending
  <2>2. CASE ~WriteOutcome(r)
    BY <1>1, <1>3, <2>2
    DEF LoadStep, StoreLoad, CreateSlot, DispatchShard, CollectFailure, CollectAll,
        LoadTokenizer, handlerVars
  <2> QED  BY <2>1, <2>2
<1>4. ASSUME NEW r \in Requests, NEW w \in Nodes, WaiterStep(r, w) \/ ThreadStep(w, r)
      PROVE  OneUnloading'
  BY <1>1, <1>4
  DEF WaiterStep, WaiterStart, WaiterPop, ThreadStep, BuildDone, Report, handlerVars
<1>5. ASSUME NEW w \in Nodes, WorkerCrash(w) \/ WorkerRestart(w) \/ RegistryChange(w)
      PROVE  OneUnloading'
  BY <1>1, <1>5 DEF WorkerCrash, WorkerRestart, RegistryChange, handlerVars
<1>6. ASSUME NEW r \in Requests, NEW op \in Operations, NEW m \in Models, Arrive(r, op, m)
      PROVE  OneUnloading'
  BY <1>1, <1>6 DEF Arrive
<1>7. CASE UNCHANGED vars
  BY <1>1, <1>7 DEF vars, handlerVars
<1> QED  BY <1>2, <1>3, <1>4, <1>5, <1>6, <1>7 DEF Next, Quiescent

\* Why a model may be in a worker's memory or on its way there.
InUse(m) ==
  \/ \E r \in Requests : LoadActive(r) /\ load[r].model = m
  \/ model_states[m].status = "ready"
  \/ \E w \in Nodes : Pending(w, m)

LEMMA OneInUse ==
  ASSUME PatientInv, MemoryInv, OneUnloading, NEW m \in Models, NEW k \in Models,
         InUse(m), InUse(k)
  PROVE  m = k
<1>1. ASSUME NEW r \in Requests, LoadActive(r), NEW x \in Models, NEW w \in Nodes
      PROVE  ~Pending(w, x)
  <2>1. \A q \in Requests : ~HandlerActive(q) /\ HandlerRight(q)
    BY <1>1 DEF PatientInv, MemoryInv, TablesRight
  <2>2. \A q \in Requests : todo[q] = <<>>
    BY <2>1 DEF HandlerRight, HandlerActive
  <2> QED  BY <2>2, NoCalls DEF Pending
<1>2. ASSUME NEW x \in Models, NEW y \in Models, NEW r \in Requests, LoadActive(r),
             load[r].model = x, InUse(y)
      PROVE  x = y
  BY <1>1, <1>2 DEF InUse, PatientInv, NoOtherReady
<1>3. CASE \E r \in Requests : LoadActive(r) /\ load[r].model \in {m, k}
  BY <1>2, <1>3
<1>4. CASE ~\E r \in Requests : LoadActive(r) /\ load[r].model \in {m, k}
  BY <1>4 DEF InUse, PatientInv, OneModelReady, OneUnloading
<1> QED  BY <1>3, <1>4

\* If clients wait for each load to end and nothing fails but reports and the
\* reading of checkpoints, the memory of a worker never holds the shards of
\* two models nor fills with one while it holds another: the old model is
\* unloaded everywhere before the next is dispatched.
THEOREM OneModelResident ==
  ASSUME Benign, Client = "patient"
  PROVE  Spec => []OneModelInMemory
<1>1. Init => OneUnloading
  <2> SUFFICES ASSUME Init PROVE OneUnloading
    OBVIOUS
  <2>1. \A q \in Requests : todo[q] = <<>>
    BY DEF Init
  <2> QED  BY <2>1, NoCalls DEF OneUnloading, Pending
<1>2. EvidenceInv /\ PacedInv /\ TypeOK /\ MemoryInv /\ OneUnloading /\ [Next]_vars
        => OneUnloading'
  BY UnloadingStep
<1>3. ASSUME EvidenceInv, SequentialInv, TypeOK, WorkerTablesConsistent, MemoryInv,
             NEW w \in Nodes, NEW x \in Models, Worker!Resident(w, x) \/ x \in loading[w]
      PROVE  InUse(x)
  <2>1. CASE Worker!Resident(w, x)
    <3>1. Accounted(w, x)
      BY <1>3 DEF MemoryInv, TablesRight
    <3>2. \A q \in Requests : w \in Sent(q) => LoadActive(q)
      BY <1>3, SentFacts
    <3> QED  BY <2>1, <3>1, <3>2 DEF Accounted, InUse
  <2>2. CASE x \in loading[w]
    <3>1. Worker!Building(w, x) # {}
      BY <1>3, <2>2 DEF WorkerTablesConsistent, Worker!LoadingIsLock
    <3>2. PICK t \in threads[w] : t.model = x
      BY <3>1 DEF Worker!Building
    <3>3. t.call \in Requests /\ LoadActive(t.call) /\ ThreadRight(w, t)
      BY <1>3, ThreadFacts DEF MemoryInv
    <3> QED  BY <3>2, <3>3 DEF ThreadRight, InUse
  <2> QED  BY <1>3, <2>1, <2>2
<1>4. EvidenceInv /\ PacedInv /\ TypeOK /\ WorkerTablesConsistent /\ MemoryInv /\ OneUnloading
        => OneModelInMemory
  <2> SUFFICES ASSUME EvidenceInv, PacedInv, TypeOK, WorkerTablesConsistent, MemoryInv,
                      OneUnloading
               PROVE  OneModelInMemory
    OBVIOUS
  <2>1. SequentialInv /\ PatientInv
    BY DEF PacedInv
  <2> QED  BY <1>3, <2>1, OneInUse DEF OneModelInMemory
<1> QED  BY <1>1, <1>2, <1>4, EvidenceKept, PacedInvariant, ClusterTypes,
            TablesStayConsistent, MemoryInvariant, PTL DEF Spec
=============================================================================
