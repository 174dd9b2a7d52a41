----------------------------- MODULE Generation -----------------------------
(***************************************************************************)
(* Token generation on a resident model: PipelineRunner.generate_stream    *)
(* and _run_shard_step, the chain of RunShard calls through the workers    *)
(* with their recurrent caches, DeliverResult and the ResultStore slot     *)
(* with its timeout (orchestrator/pipeline.py, inference/service.py).      *)
(*                                                                         *)
(* Worker i holds the i-th shard of the plan.  A session is one load of    *)
(* the model; redistribution replaces it by the next one, on the same      *)
(* workers.  Step k of generation g is the request <<g, k>>, and a cache   *)
(* is the sequence of the requests it has absorbed.  RunShard calls are    *)
(* nested and synchronous, so one record follows a request down the chain; *)
(* once the connection above it breaks it runs on detached.                *)
(***************************************************************************)
EXTENDS Naturals, Sequences, FiniteSets

CONSTANTS Shards,           \* number of workers in the plan
          MaxGenerations,   \* bound: generations
          MaxTokens,        \* max_new_tokens
          MaxSessions,      \* bound: loads of the model
          Faults, MaxFaults,   \* kinds and number of faults, see FaultKinds
          NoCache

Generations == 1..MaxGenerations
Sessions == 1..MaxSessions
Workers == 1..Shards
NoSession == 0

FaultKinds == {"crash", "run_fails", "deliver_fails", "link_breaks",
               "unload_fails"}

ASSUME BoundsAssumption ==
  /\ Shards \in Nat \ {0} /\ MaxTokens \in Nat \ {0} /\ MaxSessions \in Nat \ {0}
  /\ MaxGenerations \in Nat /\ MaxFaults \in Nat /\ Faults \subseteq FaultKinds

ASSUME NoCacheAssumption == NoCache \notin Seq(Nat \X Nat)

VARIABLES table,     \* per worker: the session whose handle _models has
          handle,    \* the ModelHandle of a session on a worker
          session,   \* the session of the ready entry in model_states
          redist,    \* the redistribution in progress
          gen,       \* the generations
          calls,     \* the RunShard requests under way
          slots,     \* ResultStore._slots: the requests that have a slot
          arrived,   \* results stored in slots
          text,      \* the tokens each generation has yielded
          faults     \* counter of the bound

workerVars == <<table, handle>>
vars == <<workerVars, session, redist, gen, calls, slots, arrived, text, faults>>

Requests == Generations \X (0..(MaxTokens - 1))
FreshHandle == [freed |-> FALSE, cache |-> NoCache]
IdleRedist == [pc |-> "idle", w |-> 1, held |-> NoSession, next |-> 1]

Init ==
  /\ table = [w \in Workers |-> 1]
  /\ handle = [s \in Sessions |-> [w \in Workers |-> FreshHandle]]
  /\ session = 1
  /\ redist = IdleRedist
  /\ gen = [g \in Generations |-> [pc |-> "idle", session |-> NoSession, step |-> 0]]
  /\ calls = {}
  /\ slots = {}
  /\ arrived = {}
  /\ text = [g \in Generations |-> <<>>]
  /\ faults = 0

Fault(kind) ==
  /\ kind \in Faults /\ faults < MaxFaults
  /\ faults' = faults + 1

-----------------------------------------------------------------------------
(***************************************************************************)
(* A generation.                                                           *)
(***************************************************************************)
\* Where generate_stream is inside "with self._generation_lock".
Holding == {"step", "calling", "wait", "timed_out", "yield"}
Ended == {"done", "rpc_error", "timeout", "closed"}

\* _get_ready_session returns the session of the ready entry.
Begin(g) ==
  /\ gen[g].pc = "idle" /\ session # NoSession
  /\ gen' = [gen EXCEPT ![g].pc = "lock", ![g].session = session]
  /\ UNCHANGED <<workerVars, session, redist, calls, slots, arrived, text, faults>>

\* Mutant of Acquire: generations are not serialized.
Acquire_NoLock(g) ==
  /\ gen[g].pc = "lock"
  /\ gen' = [gen EXCEPT ![g].pc = "step"]
  /\ UNCHANGED <<workerVars, session, redist, calls, slots, arrived, text, faults>>

\* The lock belongs to the runner, that is to the session.
Acquire(g) ==
  /\ gen[g].pc = "lock"
  /\ \A f \in Generations : gen[f].session = gen[g].session => gen[f].pc \notin Holding
  /\ gen' = [gen EXCEPT ![g].pc = "step"]
  /\ UNCHANGED <<workerVars, session, redist, calls, slots, arrived, text, faults>>

\* Mutant of NewCall: no step resets the caches.
NewCall_NoReset(g) ==
  [id |-> <<g, gen[g].step>>, reset |-> FALSE, at |-> 1, pc |-> "lookup",
   held |-> NoSession, seen |-> <<>>, attached |-> TRUE]

\* The RunShard request of the current step, on its way to the first worker.
NewCall(g) ==
  [id |-> <<g, gen[g].step>>, reset |-> gen[g].step = 0, at |-> 1, pc |-> "lookup",
   held |-> NoSession, seen |-> <<>>, attached |-> TRUE]

\* _run_shard_step: create the slot and call RunShard.
StartStep(g) ==
  /\ gen[g].pc = "step"
  /\ slots' = slots \cup {<<g, gen[g].step>>}
  /\ calls' = calls \cup {NewCall(g)}
  /\ gen' = [gen EXCEPT ![g].pc = "calling"]
  /\ UNCHANGED <<workerVars, session, redist, arrived, text, faults>>

\* ResultStore.wait finds the result, and the token is yielded.
TakeResult(g) ==
  /\ gen[g].pc = "wait"
  /\ \E r \in arrived :
       /\ r.id = <<g, gen[g].step>>
       /\ slots' = slots \ {r.id}
       /\ arrived' = arrived \ {r}
       /\ text' = [text EXCEPT ![g] = Append(@, r.seen)]
  /\ gen' = [gen EXCEPT ![g].pc = "yield"]
  /\ UNCHANGED <<workerVars, session, redist, calls, faults>>

\* Mutant of TimesOut: the wait has no timeout.
TimesOut_Never(g) ==
  /\ gen[g].pc = "none"
  /\ UNCHANGED vars

\* The wait ends without the event; the result may still arrive before the
\* slot is popped.
TimesOut(g) ==
  /\ gen[g].pc = "wait"
  /\ \A r \in arrived : r.id # <<g, gen[g].step>>
  /\ gen' = [gen EXCEPT ![g].pc = "timed_out"]
  /\ UNCHANGED <<workerVars, session, redist, calls, slots, arrived, text, faults>>

\* Mutant of PopTimedOut: the slot is left.
PopTimedOut_KeepsSlot(g) ==
  /\ gen[g].pc = "timed_out"
  /\ gen' = [gen EXCEPT ![g].pc = "timeout"]
  /\ UNCHANGED <<workerVars, session, redist, calls, slots, arrived, text, faults>>

PopTimedOut(g) ==
  /\ gen[g].pc = "timed_out"
  /\ slots' = slots \ {<<g, gen[g].step>>}
  /\ arrived' = {r \in arrived : r.id # <<g, gen[g].step>>}
  /\ gen' = [gen EXCEPT ![g].pc = "timeout"]
  /\ UNCHANGED <<workerVars, session, redist, calls, text, faults>>

\* Mutant of Continue: one step too many.
Continue_OneMore(g) ==
  /\ gen[g].pc = "yield"
  /\ gen' = IF gen[g].step < MaxTokens
            THEN [gen EXCEPT ![g].pc = "step", ![g].step = @ + 1]
            ELSE [gen EXCEPT ![g].pc = "done"]
  /\ UNCHANGED <<workerVars, session, redist, calls, slots, arrived, text, faults>>

\* The reader asks for the next token.
Continue(g) ==
  /\ gen[g].pc = "yield"
  /\ gen' = IF gen[g].step + 1 < MaxTokens
            THEN [gen EXCEPT ![g].pc = "step", ![g].step = @ + 1]
            ELSE [gen EXCEPT ![g].pc = "done"]
  /\ UNCHANGED <<workerVars, session, redist, calls, slots, arrived, text, faults>>

\* The reader goes away and the generator is closed.
Close(g) ==
  /\ gen[g].pc = "yield"
  /\ gen' = [gen EXCEPT ![g].pc = "closed"]
  /\ UNCHANGED <<workerVars, session, redist, calls, slots, arrived, text, faults>>

GenerationStep(g) ==
  Begin(g) \/ Acquire(g) \/ StartStep(g) \/ TakeResult(g) \/ TimesOut(g)
    \/ PopTimedOut(g) \/ Continue(g)

-----------------------------------------------------------------------------
(***************************************************************************)
(* RunShard on the workers.                                                *)
(***************************************************************************)
\* The outermost call of each request in C that is still attached returns.
\* A response is not looked at, whatever it says; an RpcError propagates.
Return(C, rpcError) ==
  gen' = [g \in Generations |->
    IF \E c \in C : c.attached /\ c.id[1] = g
    THEN [gen[g] EXCEPT !.pc = IF rpcError THEN "rpc_error" ELSE "wait"]
    ELSE gen[g]]

Finish(c, rpcError) ==
  /\ calls' = calls \ {c}
  /\ Return({c}, rpcError)

Move(c, d) ==
  /\ calls' = (calls \ {c}) \cup {d}
  /\ UNCHANGED gen

\* Look the handle up.  NOT_FOUND is an RpcError for the caller: the first
\* worker's is the orchestrator, any other is a worker that swallows it.
LookUp(c) ==
  /\ c.pc = "lookup"
  /\ IF table[c.at] = NoSession THEN Finish(c, c.at = 1)
     ELSE Move(c, [c EXCEPT !.pc = "prepare", !.held = table[c.at]])
  /\ UNCHANGED <<workerVars, session, redist, slots, arrived, text, faults>>

Handle(c) == handle[c.held][c.at]

\* The handles with the cache of c's replaced by q.
WithCache(c, q) == [handle EXCEPT ![c.held][c.at].cache = q]

\* A fresh cache if asked for, or if there is none.
PrepareCache(c) ==
  /\ c.pc = "prepare"
  /\ IF ~c.reset /\ Handle(c).cache # NoCache
     THEN Move(c, [c EXCEPT !.pc = "forward"]) /\ UNCHANGED handle
     ELSE IF Handle(c).freed THEN Finish(c, FALSE) /\ UNCHANGED handle
     ELSE /\ handle' = WithCache(c, <<>>)
          /\ Move(c, [c EXCEPT !.pc = "forward"])
  /\ UNCHANGED <<table, session, redist, slots, arrived, text, faults>>

\* The cache with this request absorbed.
Absorbed(c) == Append(Handle(c).cache, c.id)

\* Run the shard and call the next worker or, on the last, go on to deliver.
Forward(c) ==
  /\ c.pc = "forward" /\ ~Handle(c).freed
  /\ handle' = WithCache(c, Absorbed(c))
  /\ LET seen == Append(c.seen, Absorbed(c))
     IN  Move(c, IF c.at < Shards
                 THEN [c EXCEPT !.at = @ + 1, !.pc = "lookup", !.held = NoSession,
                                !.seen = seen]
                 ELSE [c EXCEPT !.pc = "deliver", !.seen = seen])
  /\ UNCHANGED <<table, session, redist, slots, arrived, text, faults>>

\* An exception: the shard was freed meanwhile, or the forward pass fails,
\* before or after it has changed the cache.  It becomes a response.
ForwardFails(c) ==
  /\ c.pc = "forward"
  /\ \/ /\ Handle(c).freed
        /\ UNCHANGED <<handle, faults>>
     \/ /\ ~Handle(c).freed
        /\ Fault("run_fails")
        /\ \/ UNCHANGED handle
           \/ handle' = WithCache(c, Absorbed(c))
  /\ Finish(c, FALSE)
  /\ UNCHANGED <<table, session, redist, slots, arrived, text>>

\* DeliverResult: stored if the slot is still there, acknowledged anyway; or
\* the call fails on the way.
DeliverResult(c) ==
  /\ c.pc = "deliver"
  /\ \/ /\ arrived' = IF c.id \in slots
                      THEN arrived \cup {[id |-> c.id, seen |-> c.seen]}
                      ELSE arrived
        /\ UNCHANGED faults
     \/ Fault("deliver_fails") /\ UNCHANGED arrived
  /\ Finish(c, FALSE)
  /\ UNCHANGED <<workerVars, session, redist, slots, text>>

CallStep(c) ==
  LookUp(c) \/ PrepareCache(c) \/ Forward(c) \/ ForwardFails(c) \/ DeliverResult(c)

\* A request whose caller is gone.
Detached(c) == [c EXCEPT !.attached = FALSE]

\* The connection to worker i breaks while a request is there or beyond.
LinkBreaks(c, i) ==
  /\ c.attached /\ i <= c.at
  /\ Fault("link_breaks")
  /\ calls' = (calls \ {c}) \cup {Detached(c)}
  /\ Return({c}, i = 1)
  /\ UNCHANGED <<workerVars, session, redist, slots, arrived, text>>

\* Worker w crashes and is restarted empty.
Crash(w) ==
  /\ Fault("crash")
  /\ table' = [table EXCEPT ![w] = NoSession]
  /\ calls' = {c \in calls : c.at < w}
       \cup {Detached(c) : c \in {d \in calls : d.at > w}}
  /\ Return({c \in calls : c.at >= w}, w = 1)
  /\ UNCHANGED <<handle, session, redist, slots, arrived, text>>

-----------------------------------------------------------------------------
(***************************************************************************)
(* Redistribution: the old session's shards are unloaded worker by worker  *)
(* and the next session's loaded.                                          *)
(***************************************************************************)
Redistribute ==
  /\ session # NoSession /\ session < MaxSessions
  /\ session' = NoSession
  /\ redist' = [pc |-> "pop", w |-> 1, held |-> NoSession, next |-> session + 1]
  /\ UNCHANGED <<workerVars, gen, calls, slots, arrived, text, faults>>

\* On to the next worker or, after the last, to loading.
NextUnload ==
  redist' = IF redist.w < Shards
            THEN [redist EXCEPT !.pc = "pop", !.w = @ + 1, !.held = NoSession]
            ELSE [redist EXCEPT !.pc = "install", !.w = 1, !.held = NoSession]

\* UnloadShard pops the handle; an unreachable worker is skipped.
UnloadPop ==
  /\ redist.pc = "pop"
  /\ \/ /\ table' = [table EXCEPT ![redist.w] = NoSession]
        /\ IF table[redist.w] = NoSession THEN NextUnload
           ELSE redist' = [redist EXCEPT !.pc = "free", !.held = table[redist.w]]
        /\ UNCHANGED faults
     \/ Fault("unload_fails") /\ NextUnload /\ UNCHANGED table
  /\ UNCHANGED <<handle, session, gen, calls, slots, arrived, text>>

\* unload_model drops the weights of the handle.
UnloadFree ==
  /\ redist.pc = "free"
  /\ handle' = [handle EXCEPT ![redist.held][redist.w].freed = TRUE]
  /\ NextUnload
  /\ UNCHANGED <<table, session, gen, calls, slots, arrived, text, faults>>

\* LoadShard and its report: a handle that is still in the table is kept.
Install ==
  /\ redist.pc = "install"
  /\ table' = [table EXCEPT ![redist.w] = IF @ = NoSession THEN redist.next ELSE @]
  /\ IF redist.w < Shards
     THEN redist' = [redist EXCEPT !.w = @ + 1] /\ UNCHANGED session
     ELSE redist' = IdleRedist /\ session' = redist.next
  /\ UNCHANGED <<handle, gen, calls, slots, arrived, text, faults>>

RedistStep == UnloadPop \/ UnloadFree \/ Install

-----------------------------------------------------------------------------
Quiescent ==
  /\ \A g \in Generations : gen[g].pc \in Ended
  /\ calls = {}
  /\ UNCHANGED vars

Next ==
  \/ \E g \in Generations : GenerationStep(g) \/ Close(g)
  \/ \E c \in calls : CallStep(c) \/ \E i \in Workers : LinkBreaks(c, i)
  \/ \E w \in Workers : Crash(w)
  \/ Redistribute
  \/ RedistStep
  \/ Quiescent

\* A request is passed on: RunShard handlers run on their own threads.
RequestStep(id) == \E c \in calls : c.id = id /\ CallStep(c)

\* Threads run on, and a reader that has not gone away keeps reading.
Fairness ==
  /\ \A g \in Generations : WF_vars(GenerationStep(g))
  /\ \A id \in Requests : WF_vars(RequestStep(id))
  /\ WF_vars(RedistStep)

Spec == Init /\ [][Next]_vars /\ Fairness

-----------------------------------------------------------------------------
Cache == Seq(Requests) \cup {NoCache}
Call == [id : Requests, reset : BOOLEAN, at : Workers,
         pc : {"lookup", "prepare", "forward", "deliver"},
         held : Sessions \cup {NoSession}, seen : Seq(Seq(Requests)),
         attached : BOOLEAN]
Result == [id : Requests, seen : Seq(Seq(Requests))]
GenState == [pc : {"idle", "lock"} \cup Holding \cup Ended,
             session : Sessions \cup {NoSession}, step : 0..(MaxTokens - 1)]

\* The types, among them that a generation takes at most MaxTokens steps.
TypeOK ==
  /\ table \in [Workers -> Sessions \cup {NoSession}]
  /\ handle \in [Sessions -> [Workers -> [freed : BOOLEAN, cache : Cache]]]
  /\ session \in Sessions \cup {NoSession}
  /\ redist \in [pc : {"idle", "pop", "free", "install"}, w : Workers,
                 held : Sessions \cup {NoSession}, next : Sessions]
  /\ gen \in [Generations -> GenState]
  /\ calls \subseteq Call
  /\ slots \subseteq Requests
  /\ arrived \subseteq Result
  /\ text \in [Generations -> Seq(Seq(Seq(Requests)))]
  /\ faults \in 0..MaxFaults

\* The promise of generate_stream, with the phase of a generation read off
\* its pc.
Phase(g) == CASE gen[g].pc \in {"idle", "lock"} -> "waiting"
              [] gen[g].pc \in Holding -> "running"
              [] OTHER -> "ended"

Promise == INSTANCE Decoding WITH phase <- [g \in Generations |-> Phase(g)]

\* generate_stream keeps its promise: generations are serialized and no
\* token is computed from a cache that another generation has touched or
\* that has lost part of this one, whatever step fails.
KeepsPromise == Promise!Spec

\* Every token was computed on every shard from this generation's own state.
OwnCache ==
  \A g \in Generations : \A i \in DOMAIN text[g] :
    text[g][i] = Promise!RightToken(g, i - 1)

\* A slot does not outlive its step, unless the call to the first worker
\* raised an RpcError; a result never waits for anyone but its own step.
SlotsCollected ==
  /\ \A id \in slots :
       LET g == id[1]
       IN  /\ id[2] = gen[g].step
           /\ gen[g].pc \in {"calling", "wait", "timed_out", "rpc_error"}
  /\ \A r \in arrived : r.id \in slots

-----------------------------------------------------------------------------
(***************************************************************************)
(* The inductive invariant behind SlotsCollected: which call belongs to    *)
(* which step.                                                             *)
(***************************************************************************)
\* A request is under way or answered once, never both.
OneCallPerStep ==
  /\ \A c, d \in calls : c.id = d.id => c = d
  /\ \A c \in calls, r \in arrived : r.id # c.id
  /\ \A q, r \in arrived : q.id = r.id => q = r

\* A request is of the current step or an earlier one, and as long as it is
\* attached its generation is in the call.
CallsOwned ==
  \A c \in calls :
    LET owner == gen[c.id[1]]
    IN  /\ c.id[2] <= owner.step
        /\ c.id[2] = owner.step => owner.pc \notin {"idle", "lock", "step"}
        /\ c.attached => owner.pc = "calling" /\ c.id[2] = owner.step

\* Past the lookup a request has a handle, past the preparation a cache.
CallsEquipped ==
  \A c \in calls :
    /\ c.pc # "lookup" => c.held \in Sessions
    /\ c.pc = "forward" => Handle(c).cache \in Seq(Requests)

StepInv == TypeOK /\ SlotsCollected /\ OneCallPerStep /\ CallsOwned /\ CallsEquipped

-----------------------------------------------------------------------------
(***************************************************************************)
(* The inductive invariant behind OwnCache and KeepsPromise, on a model    *)
(* that stays resident (MaxSessions = 1) over connections that break with  *)
(* their worker only.                                                      *)
(***************************************************************************)
\* The requests of the first n steps of g, in order.
Prefix(g, n) == [k \in 1..n |-> <<g, k - 1>>]

\* No worker from a to b has crashed: a request at a may reach b.
Clear(a, b) == \A w \in a..b : table[w] # NoSession

\* The cache of worker i has absorbed n steps of g and nothing else.
CacheHas(i, g, n) == handle[1][i].cache = Prefix(g, n)

\* Every worker that a new request may reach has.
ReachableHave(g, n) == \A i \in Workers : Clear(1, i) => CacheHas(i, g, n)

\* The worker up to which a request has run.
Passed(c) == IF c.pc = "deliver" THEN Shards ELSE c.at - 1

\* There is one session, and its lock has one holder.
OneHolder ==
  /\ session = 1 /\ redist = IdleRedist
  /\ \A g \in Generations : gen[g].pc # "idle" => gen[g].session = 1
  /\ \A f, g \in Generations : gen[f].pc \in Holding /\ gen[g].pc \in Holding => f = g

\* A request that outlives its connection is cut off from the requests that
\* come after it by the worker whose crash detached it.
CutOff(c) ==
  /\ c.pc # "lookup" => c.held = 1 /\ table[c.at] # NoSession
  /\ ~c.attached => ~Clear(1, c.at - 1)
Separated ==
  /\ \A c \in calls : CutOff(c)
  /\ \A c, d \in calls : c # d /\ c.at <= d.at => ~Clear(c.at, d.at - 1)

\* The caches that a request will meet hold the steps before it.
CachesAhead(c) ==
  /\ c.reset <=> c.id[2] = 0
  /\ \A i \in (Passed(c) + 1)..Shards :
       Clear(c.at, i) /\ (c.reset => i = c.at /\ c.pc = "forward")
         => CacheHas(i, c.id[1], c.id[2])

\* The caches it has left behind hold its own step too, while its generation
\* is in that step; and it has seen those.
CachesBehind(c) ==
  /\ c.seen = [i \in 1..Passed(c) |-> Prefix(c.id[1], c.id[2] + 1)]
  /\ gen[c.id[1]].pc \in Holding /\ gen[c.id[1]].step = c.id[2] =>
       \A i \in 1..Passed(c) : Clear(1, i) => CacheHas(i, c.id[1], c.id[2] + 1)

\* So do all the caches once there is a result.
ResultRight(r) ==
  /\ r.seen = Promise!RightToken(r.id[1], r.id[2])
  /\ gen[r.id[1]].pc \in Holding => ReachableHave(r.id[1], r.id[2] + 1)

\* The tokens a generation has yielded.
Yielded(g) == IF gen[g].pc \in {"yield", "done", "closed"} THEN gen[g].step + 1
              ELSE gen[g].step

\* Between two steps the caches hold the steps of the tokens yielded.
StepsRight ==
  \A g \in Generations :
    /\ text[g] = [i \in 1..Yielded(g) |-> Promise!RightToken(g, i - 1)]
    /\ gen[g].pc = "yield" \/ (gen[g].pc = "step" /\ gen[g].step > 0)
         => ReachableHave(g, Yielded(g))
    /\ gen[g].pc \in {"idle", "lock"} => gen[g].step = 0

ResidentInv ==
  /\ OneHolder /\ Separated /\ StepsRight
  /\ \A c \in calls : CachesAhead(c) /\ CachesBehind(c)
  /\ \A r \in arrived : ResultRight(r)

-----------------------------------------------------------------------------
\* Every generation that has a session comes to an end, also when calls,
\* workers or results are lost on the way.
GenerationEnds ==
  \A g \in Generations : gen[g].pc = "lock" ~> gen[g].pc \in Ended
=============================================================================
