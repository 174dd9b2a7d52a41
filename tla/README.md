# A TLA+ development of PiSSM

PiSSM runs state space models that are too large for one Raspberry Pi on a
cluster of them.  An orchestrator keeps track of the worker nodes, splits a
model's layers over them, has each worker download and build its shard, and
then pushes activations through the workers one token at a time.  This
directory holds TLA+ modules that model that system, the TLC configurations
that check them on small instances, and proofs checked by TLAPS.

## The system's parts

| Part | State | Operations | Interacts with |
| --- | --- | --- | --- |
| Dispatch planning (`orchestrator/dispatch.py`) | none | `split_layers`, `plan_dispatch` | reads the node registry |
| Node registry (`orchestrator/node_registry.py`, `service.py`) | `_nodes`, under a lock | `update_node` (Heartbeat), `list_nodes`, `get_node`, `reap_stale_nodes` | heartbeat RPCs, reaper thread, HTTP threads |
| Worker shard table (`inference/service.py`) | `_models`, `_loading`, under a lock; background threads | `LoadShard`, `UnloadShard`, `RunShard`, `Ping` | called by the orchestrator and by the previous worker; reports to the orchestrator |
| Model loading (`orchestrator/http_api.py`, `pipeline.py`) | `model_states` under `states_lock`; one `_load` thread per load; its waiter threads | `load_model`, `redistribute_model`, `_ensure_loading_started`, `_load`, `PipelineRunner.load`, `unload` | node registry, workers, ResultStore |
| ResultStore (`orchestrator/pipeline.py`) | `_slots` under a lock, one event per slot | `create_slot`, `deliver`, `wait` | load and inference threads on one side, callback RPCs on the other |
| Pipeline execution (`pipeline.py`, `inference/service.py`) | `_generation_lock`, the workers' recurrent caches | `_run_shard_step`, `generate`, `generate_stream`, `RunShard`, `DeliverResult` | workers call each other in a chain |
| Inference requests (`http_api.py`) | a thread of the server's pool per request or stream item | `infer`, `_get_ready_session`, `_run_inference`, the token stream | model loading, pipeline execution |
| Model registry, manifests (`inference/model_registry.py`, `manifest.py`) | name to manifest, under a lock | `register`, `get`, `load_manifest`, `validate_manifest` | start-up, HTTP handlers |
| Shards and tensors (`inference/shard.py`, `loader.py`, `weights.py`, `tensor_utils.py`, `orchestrator/model_store.py`) | none kept | which tensors a layer range needs, building a shard, tensor to bytes and back | loading, execution |
| Worker daemon (`worker/daemon.py`, `heartbeat.py`) | heartbeat thread, stop event | send a heartbeat every interval, retry on failure | node registry |
| Orchestrator process (`orchestrator/server.py`) | reaper thread | start-up, the reaper's loop | everything |
| Dashboard (`dashboard/`) | React state | poll status, load, stream tokens | HTTP API |

What is hard to test here is concurrency with slow steps in between.  A model
is loaded by a thread that outlives its HTTP request; its state is checked in
one critical section and written in another, with RPCs between; the workers'
answers come back as separate calls, matched to the waiting thread only by
model and node; a wait has no timeout; a failed load leaves both waiting
threads and built shards behind; workers crash and restart empty.  A
generation is a chain of nested blocking calls over recurrent state that lives
on the workers, any of which can fail or be overtaken by a redistribution.
Requests look a model's entry up again after having waited, and wait for each
other inside a bounded pool.  A node counts as alive by the clock, while its
heartbeats time out, are repeated and are handled late.  The
`hazards` of `PROJECT.json` list these at their lines.

What makes each part correct:

- a plan covers every layer exactly once, in chain order, on distinct
  available nodes, and worker and orchestrator agree on the shards' roles;
- a worker builds at most one shard per model at a time, never replaces one in
  place, and reports on every call it accepted;
- a model is ready only when every worker of its plan said so to this load,
  and then every one of them holds its shard; one model runs at a time; every
  load ends; redistribution frees what it replaces;
- a token is computed, on every shard, from its own generation's prompt and
  earlier tokens and nothing else; every generation ends, and its slots with it;
- the shards of a plan together hold each tensor of the model once, and a pass
  through them is a pass through the model;
- a worker that is heard from is offered for plans, one that is not is dropped
  in time;
- every HTTP request is answered, by a generation on the model it named.

## Modules

| Module | What it is |
| --- | --- |
| `Dispatch` | `split_layers` and `plan_dispatch` as operators, and what a plan must satisfy |
| `DispatchProofs` | the plan's correctness for all layer counts and node lists, and that `split_layers`' loop computes it |
| `NodeRegistry` | the registry with threads that plan from it, without time |
| `ShardTensors` | a plan's shards: tensors, strict loading, the pass through the chain |
| `PlannedShards` | composes both: the plans of the registry, followed onto the workers |
| `MCNodeRegistry`, `NodeRegistryProofs` | its TLC instance; the registry's types, what its plans are and what their shards compute, proved |
| `Heartbeats`, `HeartbeatsProofs` | heartbeat loop, handlers, reaper and clock; that they implement `NodeRegistry`, and whom the reaper spares |
| `InferenceService`, `ShardReports` | the shard table of the workers; the same with a record of calls and reports |
| `InferenceServiceProofs` | types, the `_loading` lock, no replacement in place, one true report per call |
| `ModelLoading` | loading and redistribution; composes `Dispatch` and `InferenceService` |
| `MCModelLoading`, `ModelLoadingProofs` | its TLC instances, and the evidence theorem |
| `ModelStates` | the life of a model's entry, abstractly; `ModelLoading` implements it |
| `LifecycleProofs` | that it does, for all constants; the types of the whole cluster; what paced clients can rely on; what is in the workers' memory |
| `InferenceRequests`, `MCInferenceRequests`, `InferenceRequestsProofs` | the HTTP requests, on top of `ModelStates`; its TLC instances; sessions and look-ups proved |
| `Decoding` | what `generate_stream` promises, abstractly |
| `Generation`, `GenerationProofs` | generation on a loaded model; proved to implement `Decoding` while the model stays resident |

**Dispatch.**  A node stands for its id and its address.  `SplitLayers` is the
closed form of the loop in `split_layers`; `SplitLayersLoop` is that loop, and
`SplitMatchesLoop` checks that the two agree for all layer counts up to
`MaxLayers` and all node counts, `SplitIsTheLoop` proves it for every one, so
that the proofs about plans can use the closed form.

**NodeRegistry.**  `order` and `status` are the dictionary `_nodes`.
`UpdateNode` and `ReapStaleNodes` are critical sections.  `list_nodes` copies
the references in one (`CopyNodes`) and reads the statuses one by one outside
(`FilterNode`); `update_node` puts a new `NodeInfo` in the table while
`reap_stale_nodes` changes the old one, so a copy records which of its entries
the reaper still reaches.  Time is left out: any set of available nodes may be
found stale, which allows every behaviour of the timed registry
(`RegistryIsUntimed` in `Heartbeats`) and more.

**ShardTensors.**  Operators only.  A checkpoint is its weight map; a weight is
known by the file and name it was read from, an activation by the list of
operations that produced it, each with its weights and its slot of the cache.
`TensorLocationsForRange` is what the orchestrator sends, `BuildShard` what the
worker makes of it (strict loading included), `Hops` the messages of one pass.
`ShardsComputeModel` (in `PlannedShards`) compares the result with `WholeModel` for every plan the
registry can produce and for checkpoints with a tied or a stored head, two
files, a missing tensor, and one layer more or fewer than the manifest says.

**Heartbeats.**  Time is counted in seconds, with the code's defaults
(interval 2, threshold 3, reaper 1).  A call is a record from the moment it is
sent: it may be delayed, lost, abandoned at its deadline, or handled late.
`ReadClock` and `UpdateNode` are separate, since `update_node` reads the clock
before it takes the lock; so are the reaper's two.  `Tick` cannot pass a
deadline that is due; `MaxHold` bounds how long a thread is kept from its next
step, `MaxLate` how long an abandoned request may still be under way.

**InferenceService.**  `models` and `loading` are `_models` and `_loading`;
a background thread is a record with its call, its shard and whether it still
builds or is about to report.  Each critical section is an action, each RPC
the thread makes is one, and a crash loses everything.  Downloads, tensors and
memory figures are left out.

**ShardReports.**  `LoadShard` answers at once; the outcome of an accepted call
is known to its caller only through the report of its thread.  So that reports
can be spoken of, `answer` records for each call whether a report is owed, was
made (with which outcome) or was lost in a crash, and `held` the calls whose
model was in the table at some moment since.  `ReportsAnswerCalls` and
`EveryCallReported` are stated on this record: a thread that merely ends, or
reports a failed build as a success, violates them.

**ModelLoading.**  A request is one HTTP call; the load it may start carries
its number.  What a handler still has to unload is a list of sessions, each a
list of `UnloadShard` calls, as the code loops over sessions and, within one,
over its plan.  The actions follow the code's critical sections, RPCs and
registry reads:

| Code | Actions |
| --- | --- |
| `redistribute_model` | `TakeEntry`, then the unloading, then as `load_model` |
| `_ensure_loading_started` | `CheckState`, `UnloadNext`, `Unloaded`, `Plan`, `Publish` |
| `_load`, `_build_session` | `StoreLoad`, ..., `LoadTokenizer`, `WriteOutcome` |
| `PipelineRunner.load` | `CreateSlot`, `DispatchShard`, `CollectFailure`, `CollectAll` |
| `ResultStore.wait`, `deliver` | `WaiterStart` and `WaiterPop`, `Deliver` |
| workers | `BuildDone`, `Report`, `WorkerCrash`, `WorkerRestart` |

A slot is found under its model and worker, as in the code, but holds the
event of one load, so that a waiter may wake up to find a slot that is not its
own.  `deliver` stores and signals in one step: between the two a waiter could
only still be asleep, and on this path it has no timeout.  `list_nodes` is
atomic here; `NodeRegistry` is where its interleavings are examined.  `heard`
is a history variable: the workers that have reported success since the load
created their slot.

Faults are actions or alternatives that use up a bound: a worker crashes, a
report is lost, an RPC fails before or after it was handled, a build, the
checkpoint or the tokenizer fails.

**ModelStates, InferenceRequests.**  `ModelStates` keeps of a load only that it
was started for a model, and that it ends with an outcome.  Requests are built
on it, so that what they see is what `ModelLoading` is shown to do:

| Code | Actions |
| --- | --- |
| `register_existing_manifests` | `ReadManifestFile`, `ServerStarts` |
| `infer` | `Arrive` (a stream's look-up is on the event loop), `Admit` |
| `_ensure_loading_started`, `_load` | `CheckState`, `Plan`, `LoadEnds` |
| `_get_ready_session` | `Poll`, `PollTimesOut` |
| `generate_stream`, `_run_inference_stream` | `NextItem`, `AcquireLock`, `YieldToken`, `GenerationEnds`, `Abandon` |
| the end of `_run_inference` and of the stream | `CountNodes` |
| `redistribute_model`, `submit_model`, the GET routes | `TakeEntry`, `Submit`, `Read` |

A thread of the pool is held by every request at work, and by a stream only
while it computes an item; the generation lock is held from the first item to
the end.  Status codes that no property tells apart are one answer.

**Generation.**  Step `k` of generation `g` is the request `<<g, k>>`; a
worker's recurrent cache is the sequence of requests it has absorbed, and a
token is the list of the caches it was computed from, one per shard.  That is
all the data the properties need: `Decoding` says which list is the right one.

| Code | Actions |
| --- | --- |
| `_get_ready_session` on a ready model | `Begin` |
| `generate_stream` | `Acquire`, `Continue`; `Close` when the reader goes away |
| `_run_shard_step`, `ResultStore.wait` | `StartStep`, `TakeResult`, `TimesOut`, `PopTimedOut` |
| `RunShard` | `LookUp`, `PrepareCache`, `Forward`, `ForwardFails` |
| `DeliverResult` | `DeliverResult` |
| `redistribute_model` | `Redistribute`, `UnloadPop`, `UnloadFree`, `Install` |

`RunShard` calls are nested, so a request is one record that moves down the
chain.  The orchestrator sees an `RpcError` only if the first worker's call
fails; a failure further down comes back as a response nobody looks at
(`Return`), and the step ends by its timeout.  When a connection breaks, or a
worker in the middle crashes, the rest of the chain runs on detached and may
still change caches or deliver.  The timeout and the removal of the slot are
two steps, as a result can arrive between them.  A forward pass that raises
may have changed the cache or not.  Loading is reduced here to one step per
worker (`Install`); `ModelLoading` has it in full.

## Runs

| Run | Question | Instance |
| --- | --- | --- |
| `node_registry` | are plans made from a moving registry pipelines, and do their shards compute the model? | 3 nodes (symmetric), 1 planner, models of 1, 2, 3, 5, 7 layers |
| `heartbeats` | are nodes offered and dropped when they should be? | 1 node, default thresholds, crashes and restarts of both sides, lost and late calls |
| `inference_service` | is a worker's table consistent, is every accepted call reported on, once and truthfully? | 1 worker, 2 models, 3 calls at a time, 2 shards |
| `load_patient` | one model at a time, does every load end? | 2 nodes, 2 models, 3 requests, one node leaves or joins; a client waits for the load to end |
| `load_sequential` | is a ready model resident, are old shards freed? | the same, with requests handled one after the other while loads go on |
| `load_faulty` | what still holds with concurrent requests and faults? | 2 nodes, 1 model, 2 requests, any 1 of 6 faults |
| `generation` | is every token computed from its own state, does every generation end? | 2 shards, 3 generations of 2 tokens, any 2 of: crash, failing pass, failing delivery |
| `generation_moving` | do slots and generations still end under redistribution? | 2 shards, 2 generations of 2 tokens, 2 sessions, one broken connection or failed unload |
| `requests` | do look-ups, sessions and waiting come out right for any mix of requests? | 3 requests over 2 models, 3 threads, 1 token between the locks, 4 start-up directories, 6 kinds of posted document |
| `leaked_waiter`, `cache_lost`, `pool_deadlock` | findings, below | the smallest instance that shows each |

Why the bounds are enough: the loads of different models meet only in the
workers' memory and in `CheckState`, so two models are enough; plans on two
nodes have a first and a last shard, a worker that answers before the other,
and a different plan when one node leaves; two requests give a load and its
retry or rival, three an earlier session to unload as well.  Workers do not
interact in `InferenceService`, so one is enough.  Three nodes and seven
layers give plans with and without remainder, and a node in the middle.
Two shards have a first and a last worker, whose failures differ; of three
generations one can leave a detached request or a half-updated cache behind, a
second can fail on it and the third must still be right; two tokens give a
step that resets and one that does not.
Nodes share only the lock and the reaper in `Heartbeats`, so one shows all that
a node can meet; with the defaults every boundary (a call that takes its whole
interval, the reaper's cycle, the threshold) is reached exactly.  Three requests
give a load, the redistribution or second submission that interferes, and a
third that meets the result.  The `requests` run leaves out `/load`, which is
`/redistribute` without its first step; with it the invariants hold as well.
`LoadFaulty` does not check for deadlock: a load that waits for a report that
was lost is a state the program can be in.

Fairness: every started thread runs on (a handler, a load, each waiter, each
background thread of a worker), which is what Python's scheduler provides.
Nothing is assumed of clients, faults, restarts and the registry.  In
`InferenceRequests` that includes loads, which need not end; a request that has
its thread or its lock within reach goes on, and a stream's reader asks for the
next item or goes away.  A waiter
that is blocked has nothing to do until its event is set.  For generations:
a `RunShard` handler that has started goes on to its end, a wait with a timeout
ends, and a reader that has not gone away keeps reading (`generate` reads to
the end itself; a stream that is neither read nor closed holds the lock, as its
doc says).  The RPCs have no deadline, so a peer that neither answers nor
closes the connection is outside this assumption.

### Findings

- `leaked_waiter`: the waits of a failed load stay behind.  One of them is woken
  by its report before the retry creates its slots, but comes to pop its slot
  only when the retry waits on its own: the pop takes the retry's slot, whose
  key is the same.  The retry's report then finds no slot and the model is
  loading for ever.  (A report that arrives after the retry's `create_slot`
  sets the new slot's event and wakes the retry, not the old wait.  A
  single lost report leaves the model loading too, as the wait has no timeout.)
- `cache_lost`: a redistribution does not wait for a generation under way.  Its
  next step finds the new shards, which have no cache; instead of failing, the
  worker builds an empty one and the generation goes on without its prompt.
- `pool_deadlock`: a stream keeps the generation lock between tokens but not its
  thread.  Generations that wait for the lock fill the pool, the stream finds no
  thread for its next token, and nothing moves again until its reader hangs up;
  the other routes share the pool and are stuck too.  One thread shows it; the
  pool of the server has 40 by default and needs as many waiting requests.

Some properties hold in the passing runs because clients pace their requests or
nothing fails there.  They stop holding beyond, which the same modules show:

- `OneModelReady` with `Client = "sequential"`, two models and two loads: a
  model that is loading when another is requested is not stopped, and both end
  up ready (`http_api.py:262` says only one model runs at a time).
- with `Client = "concurrent"` and one model, two calls that pass the status
  check before either has written `"loading"` start two loads, although the
  endpoint is documented as idempotent (`http_api.py:489`).
- `ReportedIsLoaded` with a patient client, `Faults = {"build_fails"}` and
  `MaxChurn = 1`: shards of a failed load stay resident, and a retry over other
  nodes is told that the range it asked for is loaded (`service.py:98`).
- `LookupFailsOnlyToRivals` says when look-ups fail, not that they never do: a
  redistribution, or a load of another model, while a request polls or
  generates makes it end in a `KeyError` or `AttributeError` (500), which the
  documented codes of `/infer` do not include.

Also met while modelling, and left as remarks:

- One lost heartbeat costs up to two intervals (the call's deadline and the
  wait after it), so a node can be reaped after a single failed call, not
  only after `missed_threshold` of them; with a threshold below 3 even a worker
  whose calls all succeed, slowly, can be reaped (`OnlySilentNodesReaped` states
  the threshold it needs).
- An `RpcError` from the first worker is raised before the wait, and the step's
  slot stays in the store for ever (`pipeline.py:593`).  `SlotsCollected` says
  that this is the only way a slot is left behind, one for such a generation.
- A manifest that says fewer layers than the checkpoint has is served as a
  truncated model, without an error.
- A manifest file that is no YAML, is empty, or whose name is no string stops
  the start-up: `register_existing_manifests` catches `ManifestError` and
  `ValueError` only, while its docstring says invalid manifests are skipped.

## Proofs

All proofs are for arbitrary constants, under the assumptions named in the
modules: finitely many nodes and models, models have at least one layer, a
block has at least one parameter (`PartsAssumption`), and the values that stand for "none" (`NoNext`, `NoHandle`, `NoSlot`, `NoCache`)
differ from the nodes, shards, slots and caches they stand in for.  Bounds on faults, requests and
tokens are arbitrary too.

- **Dispatch** (`DispatchCorrect`).  Consecutive ranges are adjacent and in
  order, which follows from the closed form; a layer is in the range of the
  quotient, or in the last.  `SplitIsTheLoop` is about the loop itself, a
  recursive function.  The library's induction theorems take an operator and
  cannot be used, but well-foundedness of `<` on the naturals, stated for sets,
  can: `LeastElement` and `Climb` are induction over an interval for a set of
  numbers that holds the first and is closed under successor.  The closed form
  satisfies the loop's equation (`ClosedFormStep`), so the function `CHOOSE`
  picks exists, and `Climb` shows that any function which satisfies it agrees
  with the closed form.

- **Node registry** (`RegistryInvariant`, then `PlansArePipelines`,
  `PlansBracketAvailability`, `RegistryTypes`).  What a planning thread still
  has to look at and what it has accepted are disjoint and without duplicates,
  lie within the nodes available at the copy, and contain every node that
  stayed available.  Without the disjointness a node could be planned twice.
  `PlansKeepJoinOrder` adds `JoinOrderInv`: the accepted nodes followed by the
  rest of the copy are a subsequence of the registry's order, which only grows
  at its end.

- **Shards** (`ShardsImplementModel`, then `PlansComputeModel` and
  `SplitsMatchLoop`).  For every layer count, every list of nodes that
  `plan_dispatch` accepts and every checkpoint whose layer tensors are
  parameters of blocks (`CheckpointNames`; tensors may be missing, tied or
  spread over files, and there may be more layers than the manifest says).
  First the loading: `LocationsOfRange` says which locations a range is sent,
  `LocationUnique` that no name is sent twice, `LoadsIffStored` that strict
  loading then succeeds exactly if the range's tensors are stored, and
  `WeightsOfRange` that local layer `k` holds the tensors of layer
  `layer_start + k`.  `AllBuildIffNeeded` puts the ranges of a plan together:
  all shards build exactly if nothing in `Needed` is missing.  Then the pass:
  `ForwardStep` is one shard, which appends the operations of its range to an
  activation that has run those of the shards before it; `HopsComputed` is the
  whole chain, a recursive function again, by the same argument as the loop of
  `split_layers`.  The activation that arrives at the end has run `WholeModel`,
  each hop having accepted the message before it.  `PlansComputeModel` applies
  this to the plans the registry produces while nodes come and go, and adds
  that every slot of the cache is one the checkpoint has a layer for.

- **Heartbeats** (`HeartbeatInvariant`, then `HeartbeatTypes`,
  `AvailableNodesAreRecent` and the refinement `TimedRefinesUntimed`).
  `HeartbeatInv` says in which stage of a call or wait each client is and what
  its timer may then read, that a client has at most one call of its own, and
  that an available node is no older than the threshold plus what the reaper can
  be late by (`ReapedInTime`, which needs the reaper's timer and the reading of
  its clock).  `AnsweredNodesAreKept` needs `TimingInv` besides: a request that
  its client gave up was given up at least as long ago as the client has been
  served since (`Elapsed`; three answers span two waits), so such a request can
  no longer write an old time over a fresh one.  It is stated for every
  threshold that leaves a worker the time (`OnlySilentNodesReaped`).

- **Worker table** (`TypeCorrect`, `LoadingLockCorrect`, `ShardsNeverReplaced`,
  `CallsAreAnswered`).
  The lock property is inductive with the types; no replacement follows from
  it, since a build ends only for a model in `_loading`, which is not resident.
  `CallsAreAnswered` needs besides that a thread which is about to report a
  success has had its model in the table (`SuccessHeld`); the steps of
  `ShardReports` are steps of the worker (`ReportIsStep`), so the table's lemmas
  carry over.

- **Model loading** (`EvidenceKept`, `ReadyOnlyOnEvidence`).  A waiter pops
  whatever slot its key has by then, so what it finds may belong to another
  load.  The invariant says that a success found in a slot was heard by every
  load that had created a slot under that key (`SlotEvidence`); creating a slot
  empties it, delivering is heard by all, popping passes the evidence to the
  waiter, and from there it goes to the load and to the entry.  The proof has
  one lemma per action; `LoadMoves` holds what the steps of a load share.

- **Lifecycle** (`LifecycleImplemented`).  `ModelLoading` implements
  `ModelStates` under the mapping that keeps the entries, the loads that have
  not ended and those that were started.  It needs from `EvidenceInv` that a
  handler has no load before it publishes and that the load it publishes is for
  its own model; then `TakeEntry` and `CheckState` are `RemoveEntries`, `Plan`
  is `RefuseLoad` or nothing, `Publish` is `StartLoad`, `WriteOutcome` is
  `FinishLoad`, and every other step is a stutter.

- **The cluster** (`ClusterTypes`).  The lemmas of
  `InferenceServiceProofs` are taken over through `INSTANCE`, so each step of
  the orchestrator only has to be matched with the call it makes; `EvidenceInv`
  supplies that the shards dispatched and the calls left to unload are well
  typed.

- **Paced clients** (`PacedInvariant`, then `LoadsAreVisible` for clients that
  are not concurrent and `OnlyOneModelReady` for patient ones, with any
  faults).  Between `CheckState` and `Publish` a handler relies on what it saw;
  `SequentialInv` says that no other handler is there, that every load under
  way is the one its entry names and that the handler's own model has none,
  `PatientInv` that a load under way is the only one and no handler is at work
  beside it, and that neither a handler past its look nor the load it started
  meets another ready model.  Both hypotheses are needed: see the remarks under
  the findings.

- **Workers' memory** (`MemoryInvariant`, then `ReadyModelsResident`,
  `RedistributionFrees`, `ReportsAreTrue` and `OneModelResident`).  What makes
  these hold is spread over handlers, load threads, waiters, slots and worker
  threads.  `MemoryInv` ties them together in two parts.  `LoadsRight`: a worker's
  thread serves a load that still waits for it, on the shard of that load's
  plan; the load's slot is its own until its waiter takes it, and a success in
  it is true (`ThreadRight`, `SlotRight`, `WaiterRight`).  `TablesRight`: whatever
  is resident is so because of a load under way that has sent it, of a ready
  entry whose plan names the worker, or of an `UnloadShard` call still to be
  made (`Accounted`), and a handler removes an entry before it unloads
  (`HandlerRight`).  So a load that dispatches never finds a shard of its model
  on a worker (`NothingLeft`), and each worker builds what it is asked for.
  `OneModelResident` needs `OneUnloading` besides: while something is still to be
  unloaded it is one model, and none is ready.  The theorems assume `Benign`:
  handlers do not overlap, and nothing fails but reports on their way and the
  reading of a checkpoint; `OneModelResident` assumes a patient client as well.
  A failed build, dispatch or tokenizer, or a crash, leaves shards behind that
  no entry accounts for, and then the statements can fail (see the remarks
  under the findings).  A lost report is harmless here: it leaves the load
  waiting for ever, and its shards stay accounted for by it.  Both invariants
  can be added to `load_sequential` and `load_patient`, with
  `Faults = {"lost_report", "store_fails"}` too: TLC finds them to hold.
  (`OneUnloading` is for patient clients only.)

- **Requests** (`RequestsInvariant`, then `RequestTypes`,
  `SessionsMatchManifests`, `LookupsFailOnlyToRivals`).  `RequestsInv` adds to
  the types which requests hold a generation lock (`LocksHeld`), that a load,
  wherever it is remembered, is for the model its request named (`LoadsKnown`), that a request
  which finds its entry gone has a rival that removed it (`RivalsKnown`), and
  that a manifest once found stays in the catalogue, since `register` refuses a
  name twice (`FoundIn`).

- **Generation, with any faults and redistributions** (`StepInvariant`, then
  `GenerationTypes` and `SlotsAreCollected`).  That no slot outlives its step is
  not inductive alone: a late delivery or an ending call could meet another
  step of its generation.  `StepInv` adds that a request is under way or
  answered at most once, and that an attached request is of the current step of
  a generation that is in the call.

- **Generation on a resident model** (`ResidentInvariant`, then
  `TokensFromOwnCache` and the refinement `DecodingImplemented`).  The theorems
  assume `Resident`: one session, and connections that break only when a worker
  crashes; any crashes, failing passes and failing deliveries are allowed, for
  any number of shards, generations and tokens.  A timeout or a crash leaves
  requests behind that still run while later generations do.  `Separated` is
  why they do no harm: a request lives on after its connection only because a
  worker before it crashed, and the crashed worker stops every later request
  before it gets there.  So the invariant speaks only of the caches a request
  can still reach (`Clear`): those ahead of it hold the earlier steps of its
  generation (`CachesAhead`), those behind it its own step as well
  (`CachesBehind`), and between steps all hold what was yielded (`StepsRight`).
  Without `Resident` the statement is false: `cache_lost` is the counterexample
  for redistribution, and a broken connection leaves a request on healthy
  workers that the next generation will use.

Only model-checked are the liveness properties (`EveryCallReported`,
`LoadTerminates`, `GenerationEnds`, `RunningNodeRejoins`, `DeadNodeDropped`,
`EveryRequestAnswered`): liveness under fairness is out of the prover's reach.
Every invariant and every action property of the passing runs is stated by a
theorem; some of these theorems are conditional, as said above (`Benign`,
`Resident`, the pacing of clients, the threshold of `OnlySilentNodesReaped`).

## Not modelled

Not modelled for good: tensor arithmetic, tokenizers, downloads, memory and
latency figures, gRPC channel set-up (`worker_client.py`), argument parsing and
wiring of the processes, hardware queries (`system_info.py`), the notebooks and
profiling scripts (with `PipelineRunner.run_forward`, which only they call), and
the dashboard, whose requests are those of any client.  None of them keeps state
that another part relies on.  `ModelRegistry.delete` and `RunShard` without a
callback address are reached by no part of the program.
