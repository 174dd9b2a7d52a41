----------------------- MODULE InferenceServiceProofs -----------------------
(***************************************************************************)
(* The shard table is consistent, for any number of workers, models and    *)
(* calls.  LoadingIsLock is inductive together with the types: each action *)
(* touches one worker and the entry of one model.  The same for the record *)
(* of calls and reports (ShardReports), whose steps are the worker's.      *)
(***************************************************************************)
EXTENDS ShardReports, TLAPS

Inv == TypeOK /\ LoadingIsLock

LEMMA InitInv == Init => Inv
BY NoHandleAssumption
DEF Init, Inv, TypeOK, LoadingIsLock, Building, Resident, Thread

LEMMA LoadShardInv ==
  ASSUME Inv, NEW w \in Workers, NEW c \in Calls, NEW m \in Models,
         NEW s \in Shards, LoadShard(w, c, m, s)
  PROVE  Inv'
<1>1. CASE Resident(w, m)
  <2> DEFINE t == NewThread(c, m, s, "report")
  <2>1. /\ threads' = [threads EXCEPT ![w] = @ \cup {t}]
        /\ UNCHANGED <<up, models, loading>>
    BY <1>1 DEF LoadShard
  <2>2. t \in Thread /\ t.model = m /\ t.phase = "report"
    BY DEF NewThread, Thread
  <2> HIDE DEF t
  <2>3. TypeOK'
    BY <2>1, <2>2 DEF Inv, TypeOK
  <2>4. \A v \in Workers, k \in Models : Building(v, k)' = Building(v, k)
    BY <2>1, <2>2 DEF Inv, TypeOK, Building
  <2>5. up[w]
    BY DEF LoadShard
  <2> QED  BY <2>1, <2>3, <2>4, <2>5 DEF Inv, TypeOK, LoadingIsLock, Resident
<1>2. CASE ~Resident(w, m) /\ m \in loading[w]
  <2>1. UNCHANGED vars
    BY <1>2 DEF LoadShard, vars
  <2> QED  BY <2>1 DEF vars, Inv, TypeOK, LoadingIsLock, Building, Resident
<1>3. CASE ~Resident(w, m) /\ m \notin loading[w]
  <2> DEFINE t == NewThread(c, m, s, "build")
  <2>1. /\ threads' = [threads EXCEPT ![w] = @ \cup {t}]
        /\ loading' = [loading EXCEPT ![w] = @ \cup {m}]
        /\ UNCHANGED <<up, models>>
    BY <1>3 DEF LoadShard
  <2>2. t \in Thread /\ t.model = m /\ t.phase = "build"
    BY DEF NewThread, Thread
  <2> HIDE DEF t
  <2>3. TypeOK'
    BY <2>1, <2>2 DEF Inv, TypeOK
  <2>4. \A v \in Workers, k \in Models :
          Building(v, k)' = IF v = w /\ k = m THEN {t} ELSE Building(v, k)
    <3>1. Building(w, m) = {}
      BY <1>3 DEF Inv, LoadingIsLock
    <3> QED  BY <2>1, <2>2, <3>1 DEF Inv, TypeOK, Building
  <2>5. up[w]
    BY DEF LoadShard
  <2>6. LoadingIsLock'
    <3> SUFFICES ASSUME NEW v \in Workers, NEW k \in Models
                 PROVE  (/\ k \in loading[v] <=> Building(v, k) # {}
                         /\ \A x, y \in Building(v, k) : x = y
                         /\ k \in loading[v] => ~Resident(v, k)
                         /\ ~up[v] => threads[v] = {} /\ ~Resident(v, k))'
      BY DEF LoadingIsLock
    <3>1. CASE v = w /\ k = m
      BY <1>3, <2>1, <2>4, <2>5, <3>1 DEF Inv, TypeOK, Resident
    <3>2. CASE ~(v = w /\ k = m)
      <4>1. /\ k \in loading'[v] <=> k \in loading[v]
            /\ v # w => threads'[v] = threads[v]
        BY <2>1, <3>2 DEF Inv, TypeOK
      <4> QED
        BY <2>1, <2>4, <2>5, <3>2, <4>1 DEF Inv, LoadingIsLock, Resident
    <3> QED  BY <3>1, <3>2
  <2> QED  BY <2>3, <2>6 DEF Inv
<1> QED  BY <1>1, <1>2, <1>3

\* The two outcomes of a build share this: the building thread of a model
\* becomes a reporting one and the model leaves _loading.
LEMMA BuildEnds ==
  ASSUME Inv, NEW w \in Workers, NEW t \in threads[w], t.phase = "build",
         NEW u \in Thread, u.model = t.model, u.phase = "report",
         threads' = [threads EXCEPT ![w] = (@ \ {t}) \cup {u}],
         loading' = [loading EXCEPT ![w] = @ \ {t.model}]
  PROVE  /\ threads' \in [Workers -> SUBSET Thread]
         /\ loading' \in [Workers -> SUBSET Models]
         /\ \A v \in Workers, k \in Models :
              Building(v, k)' =
                IF v = w /\ k = t.model THEN {} ELSE Building(v, k)
<1>1. t \in Thread /\ t.model \in Models
  BY DEF Inv, TypeOK, Thread
<1>2. Building(w, t.model) = {t}
  BY <1>1 DEF Inv, LoadingIsLock, Building
<1>3. ASSUME NEW v \in Workers, NEW k \in Models
      PROVE  Building(v, k)' =
               IF v = w /\ k = t.model THEN {} ELSE Building(v, k)
  <2>1. CASE v # w
    BY <2>1 DEF Inv, TypeOK, Building
  <2>2. CASE v = w
    <3>1. threads'[w] = (threads[w] \ {t}) \cup {u}
      BY DEF Inv, TypeOK
    <3>2. CASE k = t.model
      BY <1>2, <2>2, <3>1, <3>2 DEF Building
    <3>3. CASE k # t.model
      BY <2>2, <3>1, <3>3 DEF Building
    <3> QED  BY <3>2, <3>3
  <2> QED  BY <2>1, <2>2
<1> QED  BY <1>3 DEF Inv, TypeOK

LEMMA BuildSucceedsInv ==
  ASSUME Inv, NEW w \in Workers, NEW t \in threads[w], BuildSucceeds(w, t)
  PROVE  Inv'
<1> DEFINE u == [t EXCEPT !.phase = "report"]
<1>1. t \in Thread /\ t.phase = "build"
  BY DEF Inv, TypeOK, BuildSucceeds
<1>2. u \in Thread /\ u.model = t.model /\ u.phase = "report"
  BY <1>1 DEF Thread
<1>3. /\ threads' = [threads EXCEPT ![w] = (@ \ {t}) \cup {u}]
      /\ loading' = [loading EXCEPT ![w] = @ \ {t.model}]
      /\ models' = [models EXCEPT ![w][t.model] = t.shard]
      /\ up' = up
  BY DEF BuildSucceeds
<1> HIDE DEF u
<1>4. /\ threads' \in [Workers -> SUBSET Thread]
      /\ loading' \in [Workers -> SUBSET Models]
      /\ \A v \in Workers, k \in Models :
           Building(v, k)' = IF v = w /\ k = t.model THEN {} ELSE Building(v, k)
  BY <1>1, <1>2, <1>3, BuildEnds
<1>5. t.model \in Models /\ t.shard \in Shards
  BY <1>1 DEF Thread
<1>6. TypeOK'
  BY <1>3, <1>4, <1>5 DEF Inv, TypeOK
<1>7. up[w]
  BY <1>5 DEF Inv, LoadingIsLock
<1>8. LoadingIsLock'
  <2> SUFFICES ASSUME NEW v \in Workers, NEW k \in Models
               PROVE  (/\ k \in loading[v] <=> Building(v, k) # {}
                       /\ \A x, y \in Building(v, k) : x = y
                       /\ k \in loading[v] => ~Resident(v, k)
                       /\ ~up[v] => threads[v] = {} /\ ~Resident(v, k))'
    BY DEF LoadingIsLock
  <2>1. CASE v = w /\ k = t.model
    BY <1>3, <1>4, <1>7, <2>1 DEF Inv, TypeOK
  <2>2. CASE ~(v = w /\ k = t.model)
    <3>1. /\ models'[v][k] = models[v][k]
          /\ k \in loading'[v] <=> k \in loading[v]
          /\ v # w => threads'[v] = threads[v]
      BY <1>3, <2>2 DEF Inv, TypeOK
    <3> QED
      BY <1>3, <1>4, <1>7, <2>2, <3>1 DEF Inv, LoadingIsLock, Resident
  <2> QED  BY <2>1, <2>2
<1> QED  BY <1>6, <1>8 DEF Inv

LEMMA BuildFailsInv ==
  ASSUME Inv, NEW w \in Workers, NEW t \in threads[w], BuildFails(w, t)
  PROVE  Inv'
<1> DEFINE u == [t EXCEPT !.phase = "report", !.ok = FALSE]
<1>1. t \in Thread /\ t.phase = "build"
  BY DEF Inv, TypeOK, BuildFails
<1>2. u \in Thread /\ u.model = t.model /\ u.phase = "report"
  BY <1>1 DEF Thread
<1>3. /\ threads' = [threads EXCEPT ![w] = (@ \ {t}) \cup {u}]
      /\ loading' = [loading EXCEPT ![w] = @ \ {t.model}]
      /\ models' = models
      /\ up' = up
  BY DEF BuildFails
<1> HIDE DEF u
<1>4. /\ threads' \in [Workers -> SUBSET Thread]
      /\ loading' \in [Workers -> SUBSET Models]
      /\ \A v \in Workers, k \in Models :
           Building(v, k)' = IF v = w /\ k = t.model THEN {} ELSE Building(v, k)
  BY <1>1, <1>2, <1>3, BuildEnds
<1>5. t.model \in Models
  BY <1>1 DEF Thread
<1>6. TypeOK'
  BY <1>3, <1>4 DEF Inv, TypeOK
<1>7. up[w]
  BY <1>5 DEF Inv, LoadingIsLock
<1>8. LoadingIsLock'
  <2> SUFFICES ASSUME NEW v \in Workers, NEW k \in Models
               PROVE  (/\ k \in loading[v] <=> Building(v, k) # {}
                       /\ \A x, y \in Building(v, k) : x = y
                       /\ k \in loading[v] => ~Resident(v, k)
                       /\ ~up[v] => threads[v] = {} /\ ~Resident(v, k))'
    BY DEF LoadingIsLock
  <2>1. CASE v = w /\ k = t.model
    BY <1>3, <1>4, <1>7, <2>1 DEF Inv, TypeOK
  <2>2. CASE ~(v = w /\ k = t.model)
    <3>1. /\ k \in loading'[v] <=> k \in loading[v]
          /\ v # w => threads'[v] = threads[v]
      BY <1>3, <2>2 DEF Inv, TypeOK
    <3> QED
      BY <1>3, <1>4, <1>7, <2>2, <3>1 DEF Inv, LoadingIsLock, Resident
  <2> QED  BY <2>1, <2>2
<1> QED  BY <1>6, <1>8 DEF Inv

LEMMA ReportShardReadyInv ==
  ASSUME Inv, NEW w \in Workers, NEW t \in threads[w], ReportShardReady(w, t)
  PROVE  Inv'
<1>1. TypeOK'
  BY DEF Inv, TypeOK, ReportShardReady
<1>2. \A v \in Workers, k \in Models : Building(v, k)' = Building(v, k)
  BY DEF Inv, TypeOK, ReportShardReady, Building
<1>3. \A v \in Workers : threads[v] = {} => threads'[v] = {}
  BY DEF Inv, TypeOK, ReportShardReady
<1> QED
  BY <1>1, <1>2, <1>3 DEF Inv, LoadingIsLock, ReportShardReady, Resident

LEMMA UnloadShardInv ==
  ASSUME Inv, NEW w \in Workers, NEW m \in Models, UnloadShard(w, m)
  PROVE  Inv'
<1>1. TypeOK'
  BY DEF Inv, TypeOK, UnloadShard
<1>2. \A v \in Workers, k \in Models :
        models'[v][k] \in {models[v][k], NoHandle}
  BY DEF Inv, TypeOK, UnloadShard
<1> QED
  BY <1>1, <1>2 DEF Inv, LoadingIsLock, UnloadShard, Building, Resident

LEMMA CrashInv ==
  ASSUME Inv, NEW w \in Workers, Crash(w)
  PROVE  Inv'
<1>1. TypeOK'
  BY DEF Inv, TypeOK, Crash
<1>2. \A v \in Workers, k \in Models :
        IF v = w
        THEN /\ loading'[v] = {} /\ threads'[v] = {}
             /\ models'[v][k] = NoHandle
        ELSE /\ loading'[v] = loading[v] /\ threads'[v] = threads[v]
             /\ models'[v][k] = models[v][k] /\ up'[v] = up[v]
  BY DEF Inv, TypeOK, Crash
<1> QED  BY <1>1, <1>2 DEF Inv, LoadingIsLock, Building, Resident

LEMMA RestartInv ==
  ASSUME Inv, NEW w \in Workers, Restart(w)
  PROVE  Inv'
<1>1. TypeOK'
  BY DEF Inv, TypeOK, Restart
<1>2. \A v \in Workers : up[v] => up'[v]
  BY DEF Inv, TypeOK, Restart
<1> QED  BY <1>1, <1>2 DEF Inv, LoadingIsLock, Restart, Building, Resident

LEMMA StepInv == Inv /\ [Next]_vars => Inv'
<1> SUFFICES ASSUME Inv, [Next]_vars PROVE Inv'
  OBVIOUS
<1>1. CASE UNCHANGED vars
  BY <1>1 DEF vars, Inv, TypeOK, LoadingIsLock, Building, Resident
<1>2. CASE Next
  BY <1>2, LoadShardInv, BuildSucceedsInv, BuildFailsInv, ReportShardReadyInv,
     UnloadShardInv, CrashInv, RestartInv
  DEF Next
<1> QED  BY <1>1, <1>2

\* The worker's table keeps its types.
THEOREM TypeCorrect == Spec => []TypeOK
<1>1. Inv => TypeOK
  BY DEF Inv
<1> QED  BY InitInv, StepInv, <1>1, PTL DEF Spec

\* On every worker _loading is an exact lock over shard builds.
THEOREM LoadingLockCorrect == Spec => []LoadingIsLock
<1>1. Inv => LoadingIsLock
  BY DEF Inv
<1> QED  BY InitInv, StepInv, <1>1, PTL DEF Spec

\* No step replaces a shard in memory by another one.
THEOREM ShardsNeverReplaced == Spec => NeverReplaced
<1>1. ASSUME Inv, [Next]_vars, NEW w \in Workers, NEW m \in Models,
             Resident(w, m)
      PROVE  models'[w][m] \in {models[w][m], NoHandle}
  <2>1. CASE models' = models
    BY <2>1
  <2>2. CASE \E v \in Workers : \E t \in threads[v] : BuildSucceeds(v, t)
    <3>0. PICK v \in Workers : \E t \in threads[v] : BuildSucceeds(v, t)
      BY <2>2
    <3>1. PICK t \in threads[v] : BuildSucceeds(v, t)
      BY <3>0
    <3>2. t.phase = "build" /\ t \in Thread /\ t.model \in Models
      BY <1>1, <3>1 DEF BuildSucceeds, Inv, TypeOK, Thread
    <3>3. ~Resident(v, t.model)
      <4>1. t \in Building(v, t.model)
        BY <3>2 DEF Building
      <4> QED  BY <1>1, <3>2, <4>1 DEF Inv, LoadingIsLock
    <3> QED  BY <1>1, <3>1, <3>3 DEF BuildSucceeds, Inv, TypeOK
  <2>3. CASE \E v \in Workers, k \in Models : UnloadShard(v, k)
    BY <1>1, <2>3 DEF UnloadShard, Inv, TypeOK
  <2>4. CASE \E v \in Workers : Crash(v)
    BY <1>1, <2>4 DEF Crash, Inv, TypeOK
  <2>5. CASE UNCHANGED vars
    BY <2>5 DEF vars
  <2> QED
    BY <1>1, <2>1, <2>2, <2>3, <2>4, <2>5
    DEF Next, LoadShard, BuildFails, ReportShardReady, Restart
<1>2. Inv /\ [Next]_vars =>
        [\A w \in Workers, m \in Models :
           Resident(w, m) => models'[w][m] \in {models[w][m], NoHandle}]_vars
  BY <1>1
<1> QED  BY InitInv, StepInv, <1>2, PTL DEF Spec, NeverReplaced
-----------------------------------------------------------------------------
(***************************************************************************)
(* Calls and their reports.                                                *)
(***************************************************************************)
ReportTypes ==
  /\ answer \in [Workers -> [Calls -> Answers]]
  /\ held \in [Workers -> SUBSET Calls]

\* What ReportsAnswerCalls says of one worker.
Answered(w) ==
  \A c \in Calls :
    /\ answer[w][c] # "again"
    /\ answer[w][c] = "owed" <=> \E t \in threads[w] : t.call = c
    /\ \A t, u \in threads[w] : t.call = c /\ u.call = c => t = u
    /\ answer[w][c] = "ok" => c \in held[w]

\* A thread that is about to report a success has seen its model in the table.
SuccessHeld(w) ==
  \A t \in threads[w] : t.phase = "report" /\ t.ok => t.call \in held[w]

ReportInv ==
  /\ Inv
  /\ ReportTypes
  /\ \A w \in Workers : Answered(w) /\ SuccessHeld(w)

LEMMA ReportInitInv == ReportInit => ReportInv
<1> SUFFICES ASSUME ReportInit PROVE ReportInv
  OBVIOUS
<1>1. Inv
  BY InitInv DEF ReportInit
<1> QED
  BY <1>1
  DEF ReportInit, Init, ReportInv, ReportTypes, Answers, Answered, SuccessHeld

\* The record adds nothing to what the worker may do.
LEMMA ReportIsStep == [ReportNext]_reportVars => [Next]_vars
<1>1. ASSUME ReportNext PROVE Next
  <2>1. PICK w \in Workers :
          \/ \E c \in Calls, m \in Models, s \in Shards : Call(w, c, m, s)
          \/ \E t \in threads[w] : Build(w, t) \/ Report(w, t)
          \/ \E m \in Models : Unload(w, m)
          \/ Lose(w)
          \/ Resume(w)
    BY <1>1 DEF ReportNext
  <2> QED  BY <2>1 DEF Next, Call, Build, Report, Unload, Lose, Resume
<1> QED  BY <1>1 DEF reportVars, vars

\* A step of one worker leaves the others' threads and calls alone.
LEMMA OneWorker ==
  ASSUME ReportInv, Inv', ReportTypes', NEW w \in Workers,
         \A v \in Workers \ {w} : /\ threads'[v] = threads[v]
                                  /\ answer'[v] = answer[v]
                                  /\ held'[v] = held[v],
         Answered(w)', SuccessHeld(w)'
  PROVE  ReportInv'
<1>1. ASSUME NEW v \in Workers, v # w PROVE (Answered(v) /\ SuccessHeld(v))'
  BY <1>1 DEF ReportInv, Answered, SuccessHeld
<1> QED  BY <1>1 DEF ReportInv

\* What is observed: nothing is forgotten but of the calls that are over.
LEMMA Observed ==
  ASSUME ReportInv, Inv', NEW w \in Workers, NEW over, Observe(w, over)
  PROVE  /\ held' \in [Workers -> SUBSET Calls]
         /\ held'[w] = (held[w] \ over) \cup InTable(w)'
         /\ \A v \in Workers \ {w} : held'[v] = held[v]
<1>1. InTable(w)' \subseteq Calls
  BY DEF InTable, Inv, TypeOK, Thread
<1> QED  BY <1>1 DEF Observe, ReportInv, ReportTypes

LEMMA CallKeeps ==
  ASSUME ReportInv, Inv', NEW w \in Workers, NEW c \in Calls, NEW m \in Models,
         NEW s \in Shards, Call(w, c, m, s)
  PROVE  ReportInv'
<1>1. CASE ~LoadShardAccepted(w, m)
  <2>1. UNCHANGED <<answer, held, threads>>
    BY <1>1 DEF Call, LoadShard, LoadShardAccepted
  <2> QED  BY <2>1 DEF ReportInv, ReportTypes, Answered, SuccessHeld
<1>2. CASE LoadShardAccepted(w, m)
  <2>1. PICK t \in Thread :
          /\ t.call = c /\ t.model = m
          /\ t.phase = "report" => Resident(w, m)
          /\ threads' = [threads EXCEPT ![w] = @ \cup {t}]
    <3>1. /\ NewThread(c, m, s, "report") \in Thread
          /\ NewThread(c, m, s, "build") \in Thread
      BY DEF NewThread, Thread
    <3>2. CASE Resident(w, m)
      BY <3>1, <3>2 DEF Call, LoadShard, NewThread
    <3>3. CASE ~Resident(w, m)
      BY <1>2, <3>1, <3>3 DEF Call, LoadShard, LoadShardAccepted, NewThread
    <3> QED  BY <3>2, <3>3
  <2>2. /\ answer' = [answer EXCEPT ![w][c] = "owed"]
        /\ Observe(w, {c})
        /\ \A u \in threads[w] : u.call # c
        /\ models' = models
    BY <1>2 DEF Call, FreshCall, LoadShard
  <2>3. /\ held' \in [Workers -> SUBSET Calls]
        /\ held'[w] = (held[w] \ {c}) \cup InTable(w)'
        /\ \A v \in Workers \ {w} : held'[v] = held[v]
    BY <2>2, Observed
  <2>4. threads'[w] = threads[w] \cup {t}
        /\ \A v \in Workers \ {w} : threads'[v] = threads[v]
    BY <2>1 DEF ReportInv, Inv, TypeOK
  <2>5. /\ answer' \in [Workers -> [Calls -> Answers]]
        /\ answer'[w][c] = "owed"
        /\ \A d \in Calls \ {c} : answer'[w][d] = answer[w][d]
        /\ \A v \in Workers \ {w} : answer'[v] = answer[v]
    BY <2>2 DEF ReportInv, ReportTypes, Answers
  <2>6. t.phase = "report" => c \in held'[w]
    BY <2>1, <2>2, <2>3, <2>4 DEF InTable, Resident
  <2>7. Answered(w)'
    BY <2>1, <2>2, <2>3, <2>4, <2>5 DEF ReportInv, Answered
  <2>8. SuccessHeld(w)'
    BY <2>1, <2>2, <2>3, <2>4, <2>6 DEF ReportInv, SuccessHeld
  <2>9. ReportTypes'
    BY <2>3, <2>5 DEF ReportTypes
  <2> QED  BY <2>3, <2>4, <2>5, <2>7, <2>8, <2>9, OneWorker
<1> QED  BY <1>1, <1>2

LEMMA BuildKeeps ==
  ASSUME ReportInv, Inv', NEW w \in Workers, NEW t \in threads[w], Build(w, t)
  PROVE  ReportInv'
<1>1. t \in Thread /\ t.model \in Models
  BY DEF ReportInv, Inv, TypeOK, Thread
<1>2. PICK u \in Thread :
        /\ u.call = t.call /\ u.model = t.model /\ u.phase = "report"
        /\ threads' = [threads EXCEPT ![w] = (@ \ {t}) \cup {u}]
        /\ u.ok => models' = [models EXCEPT ![w][t.model] = t.shard]
  <2>1. CASE BuildSucceeds(w, t)
    <3> DEFINE u == [t EXCEPT !.phase = "report"]
    <3>1. u \in Thread /\ u.call = t.call /\ u.model = t.model /\ u.phase = "report"
      BY <1>1 DEF Thread
    <3> QED  BY <2>1, <3>1 DEF BuildSucceeds
  <2>2. CASE BuildFails(w, t)
    <3> DEFINE u == [t EXCEPT !.phase = "report", !.ok = FALSE]
    <3>1. /\ u \in Thread /\ u.call = t.call /\ u.model = t.model
          /\ u.phase = "report" /\ ~u.ok
      BY <1>1 DEF Thread
    <3> QED  BY <2>2, <3>1 DEF BuildFails
  <2> QED  BY <2>1, <2>2 DEF Build
<1>3. /\ held' \in [Workers -> SUBSET Calls]
      /\ held'[w] = held[w] \cup InTable(w)'
      /\ \A v \in Workers \ {w} : held'[v] = held[v]
  BY Observed DEF Build
<1>4. /\ threads'[w] = (threads[w] \ {t}) \cup {u}
      /\ \A v \in Workers \ {w} : threads'[v] = threads[v]
  BY <1>2 DEF ReportInv, Inv, TypeOK
<1>5. answer' = answer
  BY DEF Build
<1>6. u.ok => u.call \in held'[w]
  <2> SUFFICES ASSUME u.ok PROVE u.call \in held'[w]
    OBVIOUS
  <2>1. models'[w][u.model] = t.shard /\ t.shard # NoHandle
    BY <1>1, <1>2, NoHandleAssumption DEF ReportInv, Inv, TypeOK, Thread
  <2> QED  BY <1>3, <1>4, <2>1 DEF InTable, Resident
<1>7. Answered(w)'
  BY <1>2, <1>3, <1>4, <1>5 DEF ReportInv, Answered
<1>8. SuccessHeld(w)'
  BY <1>2, <1>3, <1>4, <1>6 DEF ReportInv, SuccessHeld
<1>9. ReportTypes'
  BY <1>3, <1>5 DEF ReportInv, ReportTypes
<1> QED  BY <1>3, <1>4, <1>5, <1>7, <1>8, <1>9, OneWorker

LEMMA ReportKeeps ==
  ASSUME ReportInv, Inv', NEW w \in Workers, NEW t \in threads[w], Report(w, t)
  PROVE  ReportInv'
<1>1. t \in Thread /\ t.call \in Calls /\ t.phase = "report"
  BY DEF ReportInv, Inv, TypeOK, Thread, Report, ReportShardReady
<1>2. /\ threads'[w] = threads[w] \ {t}
      /\ \A v \in Workers \ {w} : threads'[v] = threads[v]
  BY DEF ReportInv, Inv, TypeOK, Report, ReportShardReady
<1>3. /\ held' \in [Workers -> SUBSET Calls]
      /\ held'[w] = held[w] \cup InTable(w)'
      /\ \A v \in Workers \ {w} : held'[v] = held[v]
  BY Observed DEF Report
<1>4. answer[w][t.call] = "owed"
  BY <1>1 DEF ReportInv, Answered
<1>5. /\ answer' \in [Workers -> [Calls -> Answers]]
      /\ answer'[w][t.call] = IF t.ok THEN "ok" ELSE "failed"
      /\ \A d \in Calls \ {t.call} : answer'[w][d] = answer[w][d]
      /\ \A v \in Workers \ {w} : answer'[v] = answer[v]
  <2> DEFINE a == CASE answer[w][t.call] # "owed" -> "again"
                    [] answer[w][t.call] = "owed" /\ t.ok -> "ok"
                    [] OTHER -> "failed"
  <2>1. answer' = [answer EXCEPT ![w][t.call] = a]
    BY DEF Report
  <2>2. a = IF t.ok THEN "ok" ELSE "failed"
    BY <1>4
  <2> HIDE DEF a
  <2>3. a \in Answers
    BY <2>2 DEF Answers
  <2> QED  BY <1>1, <2>1, <2>2, <2>3 DEF ReportInv, ReportTypes
<1>6. t.ok => t.call \in held[w]
  BY <1>1 DEF ReportInv, SuccessHeld
<1>7. Answered(w)'
  BY <1>1, <1>2, <1>3, <1>5, <1>6 DEF ReportInv, Answered
<1>8. SuccessHeld(w)'
  BY <1>2, <1>3 DEF ReportInv, SuccessHeld
<1>9. ReportTypes'
  BY <1>3, <1>5 DEF ReportTypes
<1> QED  BY <1>2, <1>3, <1>5, <1>7, <1>8, <1>9, OneWorker

LEMMA UnloadKeeps ==
  ASSUME ReportInv, Inv', NEW w \in Workers, NEW m \in Models, Unload(w, m)
  PROVE  ReportInv'
<1>1. threads' = threads /\ answer' = answer
  BY DEF Unload, UnloadShard
<1>2. /\ held' \in [Workers -> SUBSET Calls]
      /\ held'[w] = held[w] \cup InTable(w)'
      /\ \A v \in Workers \ {w} : held'[v] = held[v]
  BY Observed DEF Unload
<1>3. Answered(w)' /\ SuccessHeld(w)'
  BY <1>1, <1>2 DEF ReportInv, Answered, SuccessHeld
<1>4. ReportTypes'
  BY <1>1, <1>2 DEF ReportInv, ReportTypes
<1> QED  BY <1>1, <1>2, <1>3, <1>4, OneWorker

LEMMA LoseKeeps ==
  ASSUME ReportInv, Inv', NEW w \in Workers, Lose(w)
  PROVE  ReportInv'
<1>1. /\ threads'[w] = {} /\ held' = held
      /\ \A v \in Workers \ {w} : threads'[v] = threads[v]
  BY DEF ReportInv, Inv, TypeOK, Lose, Crash
<1>2. /\ answer' \in [Workers -> [Calls -> Answers]]
      /\ \A c \in Calls :
           answer'[w][c] = IF answer[w][c] = "owed" THEN "lost" ELSE answer[w][c]
      /\ \A v \in Workers \ {w} : answer'[v] = answer[v]
  <2> DEFINE a == [c \in Calls |->
                     IF answer[w][c] = "owed" THEN "lost" ELSE answer[w][c]]
  <2>1. answer' = [answer EXCEPT ![w] = a]
    BY DEF Lose
  <2>2. a \in [Calls -> Answers]
    BY DEF ReportInv, ReportTypes, Answers
  <2>3. \A c \in Calls :
          a[c] = IF answer[w][c] = "owed" THEN "lost" ELSE answer[w][c]
    OBVIOUS
  <2> HIDE DEF a
  <2> QED  BY <2>1, <2>2, <2>3 DEF ReportInv, ReportTypes
<1>3. Answered(w)' /\ SuccessHeld(w)'
  BY <1>1, <1>2 DEF ReportInv, Answered, SuccessHeld
<1>4. ReportTypes'
  BY <1>1, <1>2 DEF ReportInv, ReportTypes
<1> QED  BY <1>1, <1>2, <1>3, <1>4, OneWorker

LEMMA ReportStepInv == ReportInv /\ [ReportNext]_reportVars => ReportInv'
<1> SUFFICES ASSUME ReportInv, [ReportNext]_reportVars PROVE ReportInv'
  OBVIOUS
<1>1. Inv'
  BY ReportIsStep, StepInv DEF ReportInv
<1>2. CASE UNCHANGED <<threads, answer, held>>
  BY <1>1, <1>2 DEF ReportInv, ReportTypes, Answered, SuccessHeld
<1>3. CASE UNCHANGED reportVars
  BY <1>2, <1>3 DEF reportVars
<1>4. ASSUME NEW w \in Workers, Resume(w) PROVE ReportInv'
  BY <1>2, <1>4 DEF Resume, Restart
<1>5. CASE ReportNext
  BY <1>1, <1>4, <1>5, CallKeeps, BuildKeeps, ReportKeeps, UnloadKeeps, LoseKeeps
  DEF ReportNext
<1> QED  BY <1>3, <1>5

\* Each accepted LoadShard call has one thread until it is reported on, and
\* one report, which claims success only of a model that was in the table,
\* for any workers, calls, failures, unloads, crashes and restarts.
THEOREM CallsAreAnswered == ReportSpec => []ReportsAnswerCalls
<1>1. ReportInv => ReportsAnswerCalls
  BY DEF ReportInv, Answered, ReportsAnswerCalls
<1> QED  BY ReportInitInv, ReportStepInv, <1>1, PTL DEF ReportSpec
=============================================================================
