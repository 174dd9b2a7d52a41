-------------------------- MODULE InferenceService --------------------------
(***************************************************************************)
(* The shard table of the workers (inference/service.py): LoadShard, the   *)
(* background thread that builds a shard and reports the outcome, and      *)
(* UnloadShard.  Each handler's critical section under self._lock is one   *)
(* step.  A worker process may crash, losing its table and its threads,    *)
(* and be started again empty.                                             *)
(***************************************************************************)
EXTENDS Naturals, FiniteSets

CONSTANTS Workers,
          Models,     \* model names
          Calls,      \* identities of LoadShard calls
          Shards,     \* what a LoadShardRequest asks for (range, next worker)
          NoHandle    \* no entry in _models

ASSUME NoHandleAssumption == NoHandle \notin Shards

VARIABLES up,        \* the worker process is running
          models,    \* _models: the shard held for each model
          loading,   \* _loading: models whose shard is being built
          threads    \* background threads, each for one LoadShard call

vars == <<up, models, loading, threads>>

Thread == [call : Calls, model : Models, shard : Shards,
           phase : {"build", "report"}, ok : BOOLEAN]

Init ==
  /\ up = [w \in Workers |-> TRUE]
  /\ models = [w \in Workers |-> [m \in Models |-> NoHandle]]
  /\ loading = [w \in Workers |-> {}]
  /\ threads = [w \in Workers |-> {}]

-----------------------------------------------------------------------------
Resident(w, m) == models[w][m] # NoHandle

\* The success field of LoadShardResponse.
LoadShardAccepted(w, m) == Resident(w, m) \/ m \notin loading[w]

NewThread(c, m, s, phase) ==
  [call |-> c, model |-> m, shard |-> s, phase |-> phase, ok |-> TRUE]

\* Mutant of LoadShard: the _loading check is missing.
LoadShard_NoLoadingCheck(w, c, m, s) ==
  /\ up[w]
  /\ threads' = [threads EXCEPT ![w] = @ \cup
       {NewThread(c, m, s, IF Resident(w, m) THEN "report" ELSE "build")}]
  /\ loading' = [loading EXCEPT
       ![w] = IF Resident(w, m) THEN @ ELSE @ \cup {m}]
  /\ UNCHANGED <<up, models>>

\* Mutant of LoadShard: a resident model is built again.
LoadShard_NoResidentCheck(w, c, m, s) ==
  /\ up[w]
  /\ IF m \in loading[w]
     THEN UNCHANGED <<threads, loading>>
     ELSE /\ threads' = [threads EXCEPT
                ![w] = @ \cup {NewThread(c, m, s, "build")}]
          /\ loading' = [loading EXCEPT ![w] = @ \cup {m}]
  /\ UNCHANGED <<up, models>>

\* A resident model is reported at once, whatever range is asked for; one
\* being built is refused; anything else is built in the background.
LoadShard(w, c, m, s) ==
  /\ up[w]
  /\ CASE Resident(w, m) ->
            /\ threads' = [threads EXCEPT
                 ![w] = @ \cup {NewThread(c, m, s, "report")}]
            /\ UNCHANGED loading
       [] ~Resident(w, m) /\ m \in loading[w] ->
            UNCHANGED <<threads, loading>>
       [] OTHER ->
            /\ threads' = [threads EXCEPT
                 ![w] = @ \cup {NewThread(c, m, s, "build")}]
            /\ loading' = [loading EXCEPT ![w] = @ \cup {m}]
  /\ UNCHANGED <<up, models>>

\* Mutant of BuildSucceeds: the table is given the model's name.
BuildSucceeds_WrongValue(w, t) ==
  /\ t \in threads[w] /\ t.phase = "build"
  /\ models' = [models EXCEPT ![w][t.model] = t.model]
  /\ loading' = [loading EXCEPT ![w] = @ \ {t.model}]
  /\ threads' = [threads EXCEPT
       ![w] = (@ \ {t}) \cup {[t EXCEPT !.phase = "report"]}]
  /\ UNCHANGED up

\* _load_shard_background: the shard is built and entered in the table ...
BuildSucceeds(w, t) ==
  /\ t \in threads[w] /\ t.phase = "build"
  /\ models' = [models EXCEPT ![w][t.model] = t.shard]
  /\ loading' = [loading EXCEPT ![w] = @ \ {t.model}]
  /\ threads' = [threads EXCEPT
       ![w] = (@ \ {t}) \cup {[t EXCEPT !.phase = "report"]}]
  /\ UNCHANGED up

\* Mutant of BuildFails: the thread of a failed build ends without a report.
BuildFails_Unreported(w, t) ==
  /\ t \in threads[w] /\ t.phase = "build"
  /\ loading' = [loading EXCEPT ![w] = @ \ {t.model}]
  /\ threads' = [threads EXCEPT ![w] = @ \ {t}]
  /\ UNCHANGED <<up, models>>

\* Mutant of BuildFails: the failure is reported as a success.
BuildFails_SaysOk(w, t) ==
  /\ t \in threads[w] /\ t.phase = "build"
  /\ loading' = [loading EXCEPT ![w] = @ \ {t.model}]
  /\ threads' = [threads EXCEPT
       ![w] = (@ \ {t}) \cup {[t EXCEPT !.phase = "report"]}]
  /\ UNCHANGED <<up, models>>

\* ... or any exception on the way is to be reported as a failure.
BuildFails(w, t) ==
  /\ t \in threads[w] /\ t.phase = "build"
  /\ loading' = [loading EXCEPT ![w] = @ \ {t.model}]
  /\ threads' = [threads EXCEPT
       ![w] = (@ \ {t}) \cup {[t EXCEPT !.phase = "report", !.ok = FALSE]}]
  /\ UNCHANGED <<up, models>>

\* _report_shard_ready: one call to the orchestrator, whose failure is only
\* logged; then the thread ends.
ReportShardReady(w, t) ==
  /\ t \in threads[w] /\ t.phase = "report"
  /\ threads' = [threads EXCEPT ![w] = @ \ {t}]
  /\ UNCHANGED <<up, models, loading>>

\* UnloadShard pops the entry, if any; a build in progress goes on.
UnloadShard(w, m) ==
  /\ up[w]
  /\ models' = [models EXCEPT ![w][m] = NoHandle]
  /\ UNCHANGED <<up, loading, threads>>

Crash(w) ==
  /\ up[w]
  /\ up' = [up EXCEPT ![w] = FALSE]
  /\ models' = [models EXCEPT ![w] = [m \in Models |-> NoHandle]]
  /\ loading' = [loading EXCEPT ![w] = {}]
  /\ threads' = [threads EXCEPT ![w] = {}]

Restart(w) ==
  /\ ~up[w]
  /\ up' = [up EXCEPT ![w] = TRUE]
  /\ UNCHANGED <<models, loading, threads>>

\* A call identity names one thread of a worker at a time.
FreshCall(w, c) == \A t \in threads[w] : t.call # c

Next ==
  \E w \in Workers :
    \/ \E c \in Calls, m \in Models, s \in Shards :
         FreshCall(w, c) /\ LoadShard(w, c, m, s)
    \/ \E t \in threads[w] :
         BuildSucceeds(w, t) \/ BuildFails(w, t) \/ ReportShardReady(w, t)
    \/ \E m \in Models : UnloadShard(w, m)
    \/ Crash(w)
    \/ Restart(w)

Spec == Init /\ [][Next]_vars

-----------------------------------------------------------------------------
\* The types of the table and the threads.
TypeOK ==
  /\ up \in [Workers -> BOOLEAN]
  /\ models \in [Workers -> [Models -> Shards \cup {NoHandle}]]
  /\ loading \in [Workers -> SUBSET Models]
  /\ threads \in [Workers -> SUBSET Thread]

Building(w, m) == {t \in threads[w] : t.model = m /\ t.phase = "build"}

\* _loading is an exact lock: a model is in it just while one thread builds
\* its shard, no two threads ever build the same model on a worker, a model
\* being built is not resident, and a stopped worker runs nothing.
LoadingIsLock ==
  \A w \in Workers, m \in Models :
    /\ m \in loading[w] <=> Building(w, m) # {}
    /\ \A t, u \in Building(w, m) : t = u
    /\ m \in loading[w] => ~Resident(w, m)
    /\ ~up[w] => threads[w] = {} /\ ~Resident(w, m)

\* A shard in memory is never replaced in place (which would strand the old
\* one, and the RunShard calls using it): it leaves the table before another
\* shard of the same model enters.
NeverReplaced ==
  [][\A w \in Workers, m \in Models :
       Resident(w, m) => models'[w][m] \in {models[w][m], NoHandle}]_vars
=============================================================================
